---------------------------- MODULE SystemProofs ----------------------------
(***************************************************************************)
(* What the matchmaking promises and how the system keeps it, for every    *)
(* set of sockets, every number of teams and players and every bound:      *)
(* what follows from the promise alone, that the server implements it, and *)
(* that the server with its clients and their connections does.            *)
(***************************************************************************)
EXTENDS OnlineSystem, ServerKeepsPromise, GameServerProofs, SequenceTheorems

-----------------------------------------------------------------------------
(***************************************************************************)
(* Part 1.  What follows from the promise alone.  Its parties are variables *)
(* of their own here, whoever the clients are.                             *)
(***************************************************************************)
VARIABLES lobbies, matches, agreed

Abstract == INSTANCE MatchPromise WITH Clients <- Sockets

Consistent == Abstract!TypeOK /\ Abstract!OnePartyEach /\ Abstract!AgreedWait

\* A client that joins or founds a party is in no other.
LEMMA JoiningKeeps ==
  ASSUME Consistent, NEW c \in Sockets, Abstract!Join(c)
  PROVE  Consistent'
<1> USE DEF Consistent, Abstract!TypeOK, Abstract!OnePartyEach,
            Abstract!AgreedWait, Abstract!Join, Abstract!Present
<1>1. CASE lobbies' = lobbies \cup {{c}}
  BY <1>1
<1>2. ASSUME NEW party \in lobbies,
             lobbies' = (lobbies \ {party}) \cup {party \cup {c}}
      PROVE  Consistent'
  <2> DEFINE grown == party \cup {c}
  <2>1. \A p \in lobbies \cup matches : c \notin p
    OBVIOUS
  <2>2. \A p \in (lobbies \cup matches) \ {party} : p \cap grown = {}
    BY <2>1
  <2>3. /\ lobbies' = (lobbies \ {party}) \cup {grown}
        /\ matches' = matches /\ agreed' = agreed
        /\ grown \notin matches /\ grown # {} /\ grown \subseteq Sockets
    BY <1>2, <2>1
  <2> HIDE DEF grown
  <2>4. Abstract!TypeOK'
    BY <2>3
  <2>5. \A p, q \in lobbies' \cup matches' : p # q => p \cap q = {}
    <3> SUFFICES ASSUME NEW p \in lobbies' \cup matches',
                        NEW q \in lobbies' \cup matches', p # q
                 PROVE  p \cap q = {}
      OBVIOUS
    <3>1. CASE p = grown
      BY <2>2, <2>3, <3>1
    <3>2. CASE q = grown
      BY <2>2, <2>3, <3>2
    <3>3. CASE p # grown /\ q # grown
      BY <2>3, <3>3
    <3> QED
      BY <3>1, <3>2, <3>3
  <2>6. Abstract!OnePartyEach'
    BY <2>3, <2>5
  <2>7. Abstract!AgreedWait'
    BY <2>3 DEF grown
  <2> QED
    BY <2>4, <2>6, <2>7
<1> QED
  BY <1>1, <1>2 DEF Abstract!Join

\* Agreeing changes no party before its match starts.
LEMMA AgreeingKeeps ==
  ASSUME Consistent, NEW c \in Sockets, Abstract!Agree(c)
  PROVE  Consistent'
<1> USE DEF Consistent, Abstract!TypeOK, Abstract!OnePartyEach,
            Abstract!AgreedWait
<1>1. PICK party \in lobbies :
        /\ c \in party
        /\ \/ /\ agreed' = agreed \cup {c}
              /\ UNCHANGED <<lobbies, matches>>
           \/ /\ party \subseteq agreed \cup {c}
              /\ lobbies' = lobbies \ {party}
              /\ matches' = matches \cup {party}
              /\ agreed' = agreed \ party
  BY DEF Abstract!Agree
<1> QED
  BY <1>1

\* Leaving shrinks one party, or removes it.
LEMMA LeavingKeeps ==
  ASSUME Consistent, NEW c \in Sockets, Abstract!Leave(c)
  PROVE  Consistent'
<1> USE DEF Consistent, Abstract!TypeOK, Abstract!OnePartyEach,
            Abstract!AgreedWait, Abstract!Leave, Abstract!Without
<1>1. Abstract!TypeOK'
  OBVIOUS
<1>2. \A p \in lobbies' \cup matches' :
        \E old \in lobbies \cup matches : p = old \ {c} /\ p # {}
  OBVIOUS
<1>3. {} \notin lobbies' \cup matches'
  BY <1>2
<1>4. \A p, q \in lobbies' \cup matches' : p # q => p \cap q = {}
  <2> SUFFICES ASSUME NEW p \in lobbies' \cup matches',
                      NEW q \in lobbies' \cup matches', p # q
               PROVE  p \cap q = {}
    OBVIOUS
  <2>1. PICK old \in lobbies \cup matches : p = old \ {c}
    BY <1>2
  <2>2. PICK other \in lobbies \cup matches : q = other \ {c}
    BY <1>2
  <2>3. old \cap other = {}
    BY <2>1, <2>2
  <2> QED
    BY <2>1, <2>2, <2>3
<1>5. lobbies' \cap matches' = {}
  <2> SUFFICES ASSUME NEW p \in lobbies', p \in matches' PROVE FALSE
    OBVIOUS
  <2>1. PICK l \in lobbies,
    m \in matches : p = l \ {c} /\ p = m \ {c} /\ p # {}
    OBVIOUS
  <2> QED
    BY <2>1
<1>6. Abstract!AgreedWait'
  <2> SUFFICES ASSUME NEW d \in agreed' PROVE \E p \in lobbies' : d \in p
    OBVIOUS
  <2>1. PICK old \in lobbies : d \in old \ {c}
    OBVIOUS
  <2>2. old \ {c} \in lobbies'
    BY <2>1
  <2> QED
    BY <2>1, <2>2
<1> QED
  BY <1>1, <1>3, <1>4, <1>5, <1>6

\* A client waits or plays in one place, no party is empty, and only waiting
\* clients have agreed to anything.
THEOREM PromiseIsConsistent == Abstract!Spec => []Consistent
<1>1. Abstract!Init => Consistent
  BY DEF Abstract!Init, Consistent, Abstract!TypeOK, Abstract!OnePartyEach,
         Abstract!AgreedWait
<1>2. Consistent /\ [Abstract!Next]_(Abstract!vars) => Consistent'
  <2> SUFFICES ASSUME Consistent, [Abstract!Next]_(Abstract!vars)
        PROVE Consistent'
    OBVIOUS
  <2>1. ASSUME NEW c \in Sockets,
    Abstract!Join(c) \/ Abstract!Agree(c) \/ Abstract!Leave(c)
          PROVE Consistent'
    BY <2>1, JoiningKeeps, AgreeingKeeps, LeavingKeeps
  <2>2. ASSUME NEW clients \in SUBSET Sockets, Abstract!Retract(clients)
        PROVE Consistent'
    BY <2>2 DEF Abstract!Retract, Consistent, Abstract!TypeOK,
                Abstract!OnePartyEach, Abstract!AgreedWait
  <2>3. ASSUME NEW parties \in SUBSET matches, Abstract!Finish(parties)
        PROVE Consistent'
    BY <2>3 DEF Abstract!Finish, Consistent, Abstract!TypeOK,
                Abstract!OnePartyEach, Abstract!AgreedWait
  <2>4. CASE UNCHANGED Abstract!vars
    BY <2>4 DEF Abstract!vars, Consistent, Abstract!TypeOK,
                Abstract!OnePartyEach, Abstract!AgreedWait
  <2> QED
    BY <2>1, <2>2, <2>3, <2>4 DEF Abstract!Next
<1> QED
  BY <1>1, <1>2, PTL DEF Abstract!Spec

\* Nobody ever joins a match that plays: a party that plays was a lobby that
\* agreed to it, or is the rest of a match.
THEOREM NobodyJoinsAMatch == Abstract!Spec => Abstract!MatchesOnlyShrink
<1> DEFINE Shrink == \A party \in matches' :
                       \/ \E old \in matches : party \subseteq old
                       \/ party \in lobbies
<1>1. [Abstract!Next]_(Abstract!vars) => [Shrink]_(Abstract!vars)
  <2> SUFFICES ASSUME Abstract!Next PROVE Shrink
    OBVIOUS
  <2>1. ASSUME NEW c \in Sockets, Abstract!Join(c) PROVE Shrink
    BY <2>1 DEF Abstract!Join
  <2>2. ASSUME NEW c \in Sockets, Abstract!Agree(c) PROVE Shrink
    BY <2>2 DEF Abstract!Agree
  <2>3. ASSUME NEW c \in Sockets, Abstract!Leave(c) PROVE Shrink
    BY <2>3 DEF Abstract!Leave, Abstract!Without
  <2>4. ASSUME NEW clients \in SUBSET Sockets, Abstract!Retract(clients)
        PROVE Shrink
    BY <2>4 DEF Abstract!Retract
  <2>5. ASSUME NEW parties \in SUBSET matches, Abstract!Finish(parties)
        PROVE Shrink
    BY <2>5 DEF Abstract!Finish
  <2> QED
    BY <2>1, <2>2, <2>3, <2>4, <2>5 DEF Abstract!Next
<1> QED
  BY <1>1, PTL DEF Abstract!Spec, Abstract!MatchesOnlyShrink

-----------------------------------------------------------------------------
(***************************************************************************)
(* Part 2.  GameServer implements MatchPromise: its initial state is one of *)
(* the promise, and every callback a step of the promise or none.          *)
(*                                                                         *)
(* The promise speaks of sets of clients, the server of games.  That a set *)
(* stands for one game only is the invariant Kept of GameServerProofs: the *)
(* sockets of two games are disjoint, and no game is without.              *)
(***************************************************************************)
Lobbies == {games_by_id[g].sockets : g \in WaitingGames}
Matches == {games_by_id[g].sockets : g \in RunningGames}
AgreedClients == {c \in Sockets : HasAgreed(c)}

AgreedIn(game, c) ==
  /\ c \in game.sockets
  /\ \A s \in SeatsOf(game.players, c) : game.players[s].is_ready

\* What the promise says of the games but g.
OtherLobbies(g) == {games_by_id[h].sockets : h \in WaitingGames \ {g}}
OtherMatches(g) == {games_by_id[h].sockets : h \in RunningGames \ {g}}
OtherAgreed(g) ==
  {c \in Sockets : \E h \in WaitingGames \ {g} : AgreedIn(games_by_id[h], c)}

\* Games share no client.
LEMMA GamesAreDisjoint ==
  ASSUME Kept, NEW g \in GameIds, Live(g)
  PROVE  /\ games_by_id[g].sockets # {}
         /\ games_by_id[g].sockets \subseteq Sockets
         /\ \A c \in games_by_id[g].sockets :
              connections[c] # NotConnected /\ connections[c].game_id = g
         /\ \A p \in OtherLobbies(g) \cup OtherMatches(g) :
              p # {} /\ p \cap games_by_id[g].sockets = {}
         /\ OtherAgreed(g) \cap games_by_id[g].sockets = {}
<1>1. \A h \in GameIds : Live(h) =>
        /\ games_by_id[h].sockets = {c \in Sockets : InGame(c, h)}
        /\ games_by_id[h].sockets # {}
  BY DEF Kept, SeatedGame
<1>2. \A h \in GameIds : Live(h) =>
        \A c \in games_by_id[h].sockets :
          c \in Sockets /\ connections[c] # NotConnected
            /\ connections[c].game_id = h
  BY <1>1 DEF InGame
<1>3. \A h \in GameIds \ {g} : Live(h) =>
        games_by_id[h].sockets \cap games_by_id[g].sockets = {}
  BY <1>2
<1>4. ASSUME NEW p \in OtherLobbies(g) \cup OtherMatches(g)
      PROVE  p # {} /\ p \cap games_by_id[g].sockets = {}
  <2>1. PICK h \in GameIds \ {g} : Live(h) /\ p = games_by_id[h].sockets
    BY DEF OtherLobbies, OtherMatches, WaitingGames, RunningGames, LiveGames
  <2> QED
    BY <1>1, <1>3, <2>1
<1>5. OtherAgreed(g) \cap games_by_id[g].sockets = {}
  <2> SUFFICES ASSUME NEW c \in OtherAgreed(g), c \in games_by_id[g].sockets
               PROVE  FALSE
    OBVIOUS
  <2>1. PICK h \in GameIds \ {g} : Live(h) /\ c \in games_by_id[h].sockets
    BY DEF OtherAgreed, AgreedIn, WaitingGames, LiveGames
  <2> QED
    BY <1>3, <2>1
<1> QED
  BY <1>1, <1>2, <1>4, <1>5

\* The others are as they were when only g changes.
LEMMA OthersStay ==
  ASSUME NEW g \in GameIds,
         \A h \in GameIds \ {g} : games_by_id'[h] = games_by_id[h]
  PROVE  /\ OtherLobbies(g)' = OtherLobbies(g)
         /\ OtherMatches(g)' = OtherMatches(g)
         /\ OtherAgreed(g)' = OtherAgreed(g)
<1>1. /\ WaitingGames' \ {g} = WaitingGames \ {g}
      /\ RunningGames' \ {g} = RunningGames \ {g}
  BY DEF WaitingGames, RunningGames, LiveGames, Live
<1>2. /\ WaitingGames \ {g} \subseteq GameIds \ {g}
      /\ RunningGames \ {g} \subseteq GameIds \ {g}
  BY DEF WaitingGames, RunningGames, LiveGames
<1>3. OtherLobbies(g)' = OtherLobbies(g)
  BY <1>1, <1>2 DEF OtherLobbies
<1>4. OtherMatches(g)' = OtherMatches(g)
  BY <1>1, <1>2 DEF OtherMatches
<1>5. OtherAgreed(g)' = OtherAgreed(g)
  BY <1>1, <1>2 DEF OtherAgreed, AgreedIn
<1> QED
  BY <1>3, <1>4, <1>5

-----------------------------------------------------------------------------
(* Ready flags. *)

\* insertPlayer writes over nobody.
LEMMA InsertPlayerExtends ==
  ASSUME NEW players \in Seating, NEW player \in PlayerConnection,
         NEW range \in SUBSET Slots
  PROVE  LET seats == InsertPlayer(players, player, range)
         IN  /\ seats \in Seating
             /\ Seated(players) \subseteq Seated(seats)
             /\ \A s \in Seated(players) : seats[s] = players[s]
             /\ \A s \in Seated(seats) \ Seated(players) : seats[s] = player
<1> DEFINE free == range \ Seated(players)
           f == Min(free)
           seats == InsertPlayer(players, player, range)
<1>1. CASE free = {}
  BY <1>1 DEF InsertPlayer
<1>2. CASE free # {}
  <2>1. f \in free
    <3>1. free \in SUBSET Nat
      BY SlotsAreFinite
    <3> QED
      BY <1>2, <3>1, MinOfNaturals
  <2>2. seats = [players EXCEPT ![f] = player]
    BY <1>2 DEF InsertPlayer
  <2>3. player # NoPlayer
    BY NoPlayerAssumption
  <2> HIDE DEF f, seats
  <2>4. /\ f \in Slots /\ f \notin Seated(players)
        /\ seats \in Seating /\ seats[f] = player
        /\ \A s \in Slots \ {f} : seats[s] = players[s]
    BY <2>1, <2>2 DEF Seating
  <2> QED
    BY <2>3, <2>4 DEF Seated, seats
<1> QED
  BY <1>1, <1>2

\* Nor does addPlayers, and the newcomers are not ready.
LEMMA AddPlayersExtends ==
  ASSUME NEW kind \in Kind,
         NEW players \in Seating, SeatedByTeam(kind, players),
         NEW ws \in Sockets, NEW n \in PlayerIds, NEW k \in 1 .. 2,
         IsPvP(kind) => HasRoomFor(kind, players, k)
  PROVE  LET seats == AddPlayers(kind, players, ws, n .. n + k - 1)
         IN  /\ Seated(players) \subseteq Seated(seats)
             /\ \A s \in Seated(players) : seats[s] = players[s]
             /\ \A s \in Seated(seats) \ Seated(players) :
                  seats[s].ws = ws /\ ~ seats[s].is_ready
<1> DEFINE seats == AddPlayers(kind, players, ws, n .. n + k - 1)
           Extends(new, old) ==
             /\ new \in Seating
             /\ Seated(old) \subseteq Seated(new)
             /\ \A s \in Seated(old) : new[s] = old[s]
             /\ \A s \in Seated(new) \ Seated(old) :
                  new[s].ws = ws /\ ~ new[s].is_ready
<1>1. \A new, mid \in Seating :
        Extends(mid, players) /\ Extends(new, mid) => Extends(new, players)
  OBVIOUS
<1>2. ASSUME NEW old \in Seating, NEW id \in PlayerIds,
             NEW t \in {NoTeam} \cup TeamIds, NEW range \in SUBSET Slots
      PROVE  Extends(InsertPlayer(old, NewPlayer(id, ws, t), range), old)
  <2>1. NewPlayer(id, ws, t) \in PlayerConnection
        /\ NewPlayer(id, ws, t).ws = ws /\ ~ NewPlayer(id, ws, t).is_ready
    BY NewPlayerType DEF NewPlayer
  <2> QED
    BY <2>1, InsertPlayerExtends
<1>3. n + k - 1 \in PlayerIds
  BY IdsOfConnection
<1>4. CASE ~ IsPvP(kind)
  <2> DEFINE first == InsertCoop(players, n, ws)
             second == InsertCoop(first, n + k - 1, ws)
  <2>1. seats = IF k = 1 THEN first ELSE second
    BY <1>4, AddCoopPlayers
  <2>2. Extends(first, players)
    BY <1>2 DEF InsertCoop
  <2> HIDE DEF seats, first
  <2>3. Extends(second, first)
    BY <1>2, <1>3, <2>2 DEF InsertCoop
  <2> HIDE DEF second
  <2>4. Extends(seats, players)
    BY <1>1, <2>1, <2>2, <2>3
  <2> QED
    BY <2>4 DEF seats
<1>5. CASE IsPvP(kind)
  <2>1. TeamsOf(kind) \subseteq TeamIds
    BY LimitsAssumption DEF TeamsOf, TeamIds, Kind
  <2>2. \A t \in TeamsOf(kind) : TeamSlotRange(t) \in SUBSET Slots
    BY <2>1, TeamSlots
  <2>3. PICK t \in TeamsOf(kind), u \in TeamsOf(kind) :
          /\ FreeSlots(kind, players, t) >= 1
          /\ k = 1 => seats = InsertInTeam(players, n, ws, t)
          /\ k = 2 =>
               /\ FreeSlots(kind, InsertInTeam(players, n, ws, t), u) >= 1
               /\ seats = InsertInTeam(InsertInTeam(players, n, ws, t),
                                       n + k - 1, ws, u)
    BY <1>5, AddTeamPlayers DEF HasRoomFor
  <2> DEFINE first == InsertInTeam(players, n, ws, t)
             second == InsertInTeam(first, n + k - 1, ws, u)
  <2>4. Extends(first, players)
    BY <1>2, <2>1, <2>2 DEF InsertInTeam
  <2> HIDE DEF seats, first
  <2>5. Extends(second, first)
    BY <1>2, <1>3, <2>1, <2>2, <2>4 DEF InsertInTeam
  <2>6. (k = 1 => seats = first) /\ (k = 2 => seats = second)
    BY <2>3 DEF first
  <2> HIDE DEF second
  <2>7. Extends(seats, players)
    BY <1>1, <2>4, <2>5, <2>6
  <2> QED
    BY <2>7 DEF seats
<1> QED
  BY <1>4, <1>5

\* A newcomer has agreed to nothing, so its game waits; the others keep what
\* they said.
LEMMA NewcomerIsNotReady ==
  ASSUME Kept, NEW game, WellSeated(game), ~ game.is_running,
         NEW c \in Sockets, HeldBy(game.players, c) = {},
         NEW slots \in 1 .. 2,
         HasRoomFor(game.kind, game.players, slots),
         IdsBelow(game.players, next_player_id)
  PROVE  LET new == AddConnection(game, c, NewIds(slots))
         IN  /\ ~ new.is_running
             /\ new.sockets = game.sockets \cup {c}
             /\ ~ AgreedIn(new, c)
             /\ \A d \in Sockets \ {c} : AgreedIn(new, d) <=> AgreedIn(game, d)
<1> DEFINE n == next_player_id
           ids == n .. n + slots - 1
           players == AddPlayers(game.kind, game.players, c, ids)
           filled == [game EXCEPT !.players = players, !.sockets = @ \cup {c}]
           old == game.players
           kd == game.kind
<1>1. /\ n \in PlayerIds /\ game \in Game /\ old \in Seating /\ kd \in Kind
      /\ SeatedByTeam(kd, old) /\ HasRoomFor(kd, old, slots)
      /\ OneSeatEach(old) /\ IdsBelow(old, n)
  BY KindType DEF WellSeated, SoundGame, Game, Kept, Sound, SoundClients
<1> HIDE DEF n, old, kd
<1>2. /\ Seated(old) \subseteq Seated(AddPlayers(kd, old, c, ids))
      /\ \A s \in Seated(old) : AddPlayers(kd, old, c, ids)[s] = old[s]
      /\ \A s \in Seated(AddPlayers(kd, old, c, ids)) \ Seated(old) :
           /\ AddPlayers(kd, old, c, ids)[s].ws = c
           /\ ~ AddPlayers(kd, old, c, ids)[s].is_ready
  BY <1>1, AddPlayersExtends
<1>3. /\ SeatsTaken(AddPlayers(kd, old, c, ids), old, c, ids)
      /\ AddPlayers(kd, old, c, ids) \in Seating
  BY <1>1, AddPlayersSeats, AddPlayersKeepsSeats
<1>4. players = AddPlayers(kd, old, c, ids)
  BY DEF kd, old
<1>5. ids # {}
  BY <1>1 DEF PlayerIds
<1> HIDE DEF ids, players
<1>6. PICK s \in SeatsOf(players, c) : ~ players[s].is_ready
  <2>1. HeldBy(players, c) # {}
    BY <1>3, <1>4, <1>5 DEF SeatsTaken
  <2>2. PICK s \in SeatsOf(players, c) : TRUE
    BY <2>1 DEF HeldBy, IdsIn
  <2>3. s \notin Seated(old)
    <3>1. SeatsOf(old, c) = {}
      BY DEF HeldBy, IdsIn, old
    <3> QED
      BY <1>2, <1>4, <2>2, <3>1 DEF SeatsOf
  <2> QED
    BY <1>2, <1>4, <2>2, <2>3 DEF SeatsOf
<1>7. \A d \in Sockets \ {c} :
        /\ SeatsOf(players, d) = SeatsOf(old, d)
        /\ \A r \in SeatsOf(old, d) : players[r] = old[r]
  BY <1>2, <1>4 DEF SeatsOf
<1>8. /\ filled \in Game /\ filled.players = players
      /\ filled.sockets = game.sockets \cup {c}
      /\ ~ filled.is_running
  BY <1>1, <1>3, <1>4 DEF Game
<1> HIDE DEF filled
<1>9. TryStart(filled) = filled
  <2>1. ~ AllPlayersReady(filled.players)
    BY <1>6, <1>8 DEF AllPlayersReady, SeatsOf
  <2> QED
    BY <2>1 DEF TryStart, CanStart
<1>10. AddConnection(game, c, NewIds(slots)) = filled
  BY <1>9 DEF AddConnection, filled, players, NewIds, ids, n
<1>11. ~ AgreedIn(filled, c)
  BY <1>6, <1>8 DEF AgreedIn
<1>12. \A d \in Sockets \ {c} : AgreedIn(filled, d) <=> AgreedIn(game, d)
  BY <1>7, <1>8 DEF AgreedIn, old
<1> QED
  BY <1>8, <1>10, <1>11, <1>12

\* READY speaks for its sender only, and the last one starts the match.
LEMMA ReadySpeaksForOne ==
  ASSUME NEW game, WellSeated(game), NEW c \in Sockets, NEW id,
         NEW ready \in BOOLEAN
  PROVE  LET new == Ready(game, c, id, ready)
         IN  /\ new.sockets = game.sockets
             /\ \A d \in Sockets \ {c} : AgreedIn(new, d) <=> AgreedIn(game, d)
             /\ game.is_running => new.is_running
             /\ new.is_running /\ ~ game.is_running =>
                  AllPlayersReady(new.players)
<1> DEFINE old == game.players
           players == SetPlayerReady(old, id, ready, c)
           set == [game EXCEPT !.players = players]
           new == Ready(game, c, id, ready)
<1>1. game \in Game /\ old \in Seating /\ SoundGame(game)
  BY DEF WellSeated, SoundGame, Game
<1>2. \A s \in Slots :
        \/ players[s] = old[s]
        \/ /\ old[s] # NoPlayer /\ old[s].ws = c
           /\ players[s] = [old[s] EXCEPT !.is_ready = ready]
  BY DEF SetPlayerReady
<1>3. \A s \in Slots : old[s] # NoPlayer => old[s] \in PlayerConnection
  BY <1>1 DEF Seating
<1>4. \A s \in Slots :
        \/ players[s] = old[s]
        \/ old[s] # NoPlayer /\ old[s].ws = c
           /\ players[s] # NoPlayer /\ players[s].ws = c
  <2>1. \A q \in PlayerConnection : LET p == [q EXCEPT !.is_ready = ready]
                                    IN  p \in PlayerConnection /\ p.ws = q.ws
    BY DEF PlayerConnection
  <2> QED
    BY <1>2, <1>3, <2>1, NoPlayerAssumption
<1>5. set \in [kind : Kinds, players : {players}, sockets : SUBSET Sockets,
               is_running : BOOLEAN, is_over : BOOLEAN, sim : Sim]
      /\ set.sockets = game.sockets /\ set.is_running = game.is_running
  BY <1>1 DEF Game
<1>6. new = TryStart(set)
  BY DEF Ready
<1>7. new.is_running /\ ~ game.is_running => AllPlayersReady(new.players)
  BY <1>1, ReadyStarts DEF CanStart
<1> HIDE DEF players, set, new, old
<1>8. new.players = players /\ new.sockets = game.sockets
      /\ (game.is_running => new.is_running)
  BY <1>5, <1>6 DEF TryStart
<1>9. ASSUME NEW d \in Sockets \ {c}
      PROVE  AgreedIn(new, d) <=> AgreedIn(game, d)
  <2>1. /\ SeatsOf(players, d) = SeatsOf(old, d)
        /\ \A s \in SeatsOf(old, d) : players[s] = old[s]
    BY <1>4 DEF SeatsOf, Seated
  <2> QED
    BY <1>8, <2>1 DEF AgreedIn, old
<1> QED
  BY <1>7, <1>8, <1>9 DEF new

\* SWITCH_TEAM takes agreements back and gives none.
LEMMA SwitchTeamOnlyRetracts ==
  ASSUME NEW game, WellSeated(game), NEW c, NEW id, NEW target
  PROVE  LET new == SwitchTeam(game, c, id, target)
         IN  /\ new.sockets = game.sockets
             /\ new.is_running = game.is_running
             /\ \A d \in Sockets : AgreedIn(new, d) => AgreedIn(game, d)
<1> DEFINE old == game.players
           seats == {s \in SeatsOf(old, c) : old[s].id = id}
           players == MoveToTeam(old, Min(seats), target)
           new == SwitchTeam(game, c, id, target)
<1>1. /\ game \in Game /\ game.kind \in Kind /\ old \in Seating
  BY KindType DEF WellSeated, SoundGame, Game
<1>2. CASE new = game
  BY <1>2
<1>3. CASE new # game
  <2>1. /\ seats # {}
        /\ target \in TeamsOf(game.kind)
        /\ new = [game EXCEPT !.players = players]
    BY <1>3 DEF SwitchTeam
  <2> DEFINE s == Min(seats)
             unready == UnreadyTeams(old, {old[s].team_id, target})
             free == TeamSlotRange(target) \ Seated(old)
             f == Min(free)
             moved == [unready[s] EXCEPT !.team_id = target]
  <2>2. s \in Seated(old)
    <3>1. seats \in SUBSET Nat /\ seats \subseteq Seated(old)
      BY SlotsAreFinite DEF SeatsOf, Seated
    <3> QED
      BY <2>1, <3>1, MinOfNaturals
  <2>3. players = IF free = {} THEN unready
                  ELSE [unready EXCEPT ![f] = moved, ![s] = NoPlayer]
    BY DEF MoveToTeam
  <2>4. free # {} => f \in Slots \ Seated(old)
    <3>1. target \in TeamIds
      BY <1>1, <2>1, LimitsAssumption DEF TeamsOf, TeamIds, Kind
    <3>2. free \subseteq Slots /\ free \subseteq Nat
      BY <3>1, TeamSlots, SlotsAreFinite
    <3> QED
      BY <3>2, MinOfNaturals
  <2> HIDE DEF s, f, free, players, new, seats
  <2>5. \A r \in Seated(old) :
          /\ unready[r] \in PlayerConnection
          /\ unready[r].ws = old[r].ws
          /\ unready[r].is_ready => old[r].is_ready
    <3>1. \A r \in Seated(old) : old[r] \in PlayerConnection /\ r \in Slots
                                 /\ old[r] # NoPlayer
      BY <1>1 DEF Seating, Seated
    <3>2. \A r \in Seated(old) :
            unready[r] = old[r]
              \/ unready[r] = [old[r] EXCEPT !.is_ready = FALSE]
      BY <3>1 DEF UnreadyTeams
    <3> QED
      BY <3>1, <3>2 DEF PlayerConnection
  <2>6. unready \in Seating
    BY <1>1, UnreadyTeamsKeepsSeats
  <2> HIDE DEF unready
  <2>7. \A r \in Seated(old) : \E q \in Slots :
          /\ players[q] # NoPlayer
          /\ players[q].ws = old[r].ws
          /\ players[q].is_ready => old[r].is_ready
    <3>1. CASE free = {}
      BY <2>3, <2>5, <3>1, NoPlayerAssumption DEF Seated
    <3>2. CASE free # {}
      <4>1. /\ moved \in [id : PlayerIds, ws : Sockets, is_ready : BOOLEAN,
                          team_id : {NoTeam} \cup TeamIds]
            /\ moved.ws = old[s].ws
            /\ moved.is_ready => old[s].is_ready
        <5>1. target \in TeamIds
          BY <1>1, <2>1, LimitsAssumption DEF TeamsOf, TeamIds, Kind
        <5> QED
          BY <2>2, <2>5, <5>1 DEF PlayerConnection
      <4>2. moved # NoPlayer
        BY <4>1, NoPlayerAssumption DEF PlayerConnection
      <4> HIDE DEF moved
      <4>3. /\ f \in Slots /\ f \notin Seated(old) /\ s \in Slots /\ f # s
        BY <2>2, <2>4, <3>2 DEF Seated
      <4>4. players[f] = moved
            /\ \A r \in Slots \ {f, s} : players[r] = unready[r]
        BY <2>3, <2>6, <3>2, <4>3 DEF Seating
      <4> TAKE r \in Seated(old)
      <4>5. CASE r = s
        BY <4>1, <4>2, <4>3, <4>4, <4>5
      <4>6. CASE r # s
        <5>1. r \in Slots \ {f, s} /\ unready[r] # NoPlayer
          BY <2>5, <4>3, <4>6, NoPlayerAssumption DEF Seated
        <5> QED
          BY <2>5, <4>4, <5>1
      <4> QED
        BY <4>5, <4>6
    <3> QED
      BY <3>1, <3>2
  <2>8. /\ new.players = players
        /\ new.sockets = game.sockets
        /\ new.is_running = game.is_running
    BY <1>1, <2>1 DEF Game
  <2>9. ASSUME NEW d \in Sockets, AgreedIn(new, d)
        PROVE  AgreedIn(game, d)
    <3> SUFFICES ASSUME NEW r \in SeatsOf(old, d)
                 PROVE  old[r].is_ready
      BY <2>8, <2>9 DEF AgreedIn, old
    <3>1. r \in Seated(old) /\ old[r].ws = d
      BY DEF SeatsOf
    <3>2. PICK q \in Slots : /\ players[q] # NoPlayer
                             /\ players[q].ws = d
                             /\ players[q].is_ready => old[r].is_ready
      BY <2>7, <3>1
    <3> QED
      BY <2>8, <2>9, <3>2 DEF AgreedIn, SeatsOf, Seated
  <2> QED
    BY <2>8, <2>9 DEF new
<1> QED
  BY <1>2, <1>3

\* Who leaves takes back what it said, and nobody else does.
LEMMA LeaverSpeaksForOne ==
  ASSUME NEW game, WellSeated(game), NEW c \in Sockets
  PROVE  LET new == RemoveConnection(game, c)
         IN  /\ new.sockets = game.sockets \ {c}
             /\ new.is_running = game.is_running
             /\ \A d \in Sockets :
                  AgreedIn(new, d) <=> d # c /\ AgreedIn(game, d)
<1> DEFINE old == game.players
           players == RemovePlayers(old, c)
           new == RemoveConnection(game, c)
<1>1. /\ new.players = players
      /\ new.sockets = game.sockets \ {c}
      /\ new.is_running = game.is_running
  BY DEF RemoveConnection, WellSeated, SoundGame, Game
<1>2. \A s \in Slots :
        players[s] = IF old[s] # NoPlayer /\ old[s].ws = c
                     THEN NoPlayer ELSE old[s]
  BY DEF RemovePlayers, SeatsOf, Seated
<1> HIDE DEF new, players
<1>3. ASSUME NEW d \in Sockets, d # c
      PROVE  AgreedIn(new, d) <=> AgreedIn(game, d)
  <2>1. /\ SeatsOf(players, d) = SeatsOf(old, d)
        /\ \A s \in SeatsOf(old, d) : players[s] = old[s]
    BY <1>2, <1>3 DEF SeatsOf, Seated
  <2> QED
    BY <1>1, <1>3, <2>1 DEF AgreedIn, old
<1>4. ~ AgreedIn(new, c)
  BY <1>1 DEF AgreedIn
<1> QED
  BY <1>1, <1>3, <1>4 DEF new

-----------------------------------------------------------------------------
(* The steps of the promise, in the words of the server. *)

PromiseStep == [Promise!Next]_(Promise!vars)

\* A callback that changes nothing the promise speaks of.
LEMMA StutterStep ==
  ASSUME Lobbies' = Lobbies, Matches' = Matches, AgreedClients' = AgreedClients
  PROVE  PromiseStep
BY DEF PromiseStep, Promise!vars, Lobbies, Matches, AgreedClients

\* A newcomer.
LEMMA JoinStep ==
  ASSUME NEW c \in Sockets,
         \A p \in Lobbies \cup Matches : c \notin p,
         \/ Lobbies' = Lobbies \cup {{c}}
         \/ \E p \in Lobbies : Lobbies' = (Lobbies \ {p}) \cup {p \cup {c}},
         Matches' = Matches, AgreedClients' = AgreedClients
  PROVE  PromiseStep
<1>1. Promise!Join(c)
  BY DEF Promise!Join, Promise!Present, Lobbies, Matches, AgreedClients
<1> QED
  BY <1>1 DEF PromiseStep, Promise!Next

\* A yes.
LEMMA AgreeStep ==
  ASSUME NEW c \in Sockets, NEW p \in Lobbies, c \in p,
         AgreedClients' = AgreedClients \cup {c},
         Lobbies' = Lobbies, Matches' = Matches
  PROVE  PromiseStep
<1>1. Promise!Agree(c)
  BY DEF Promise!Agree, Lobbies, Matches, AgreedClients
<1> QED
  BY <1>1 DEF PromiseStep, Promise!Next

\* The last yes.
LEMMA StartStep ==
  ASSUME NEW c \in Sockets, NEW p \in Lobbies, c \in p,
         p \subseteq AgreedClients \cup {c},
         AgreedClients' = AgreedClients \ p,
         Lobbies' = Lobbies \ {p}, Matches' = Matches \cup {p}
  PROVE  PromiseStep
<1>1. Promise!Agree(c)
  BY DEF Promise!Agree, Lobbies, Matches, AgreedClients
<1> QED
  BY <1>1 DEF PromiseStep, Promise!Next

\* Agreements taken back.
LEMMA RetractStep ==
  ASSUME AgreedClients' \subseteq AgreedClients,
         Lobbies' = Lobbies, Matches' = Matches
  PROVE  PromiseStep
<1> DEFINE back == AgreedClients \ AgreedClients'
<1>1. CASE back = {}
  <2>1. AgreedClients' = AgreedClients
    BY <1>1
  <2> QED
    BY <2>1, StutterStep
<1>2. CASE back # {}
  <2>1. AgreedClients' = AgreedClients \ back
    OBVIOUS
  <2>2. back \in SUBSET Sockets
    BY DEF AgreedClients
  <2> HIDE DEF back
  <2>3. Promise!Retract(back)
    BY <1>2, <2>1 DEF Promise!Retract, Lobbies, Matches, AgreedClients
  <2> QED
    BY <2>2, <2>3 DEF PromiseStep, Promise!Next
<1> QED
  BY <1>1, <1>2

\* A departure.
LEMMA LeaveStep ==
  ASSUME NEW c \in Sockets, NEW p \in Lobbies \cup Matches, c \in p,
         Lobbies' = {q \ {c} : q \in Lobbies} \ {{}},
         Matches' = {q \ {c} : q \in Matches} \ {{}},
         AgreedClients' = AgreedClients \ {c}
  PROVE  PromiseStep
<1>1. Promise!Leave(c)
  BY DEF Promise!Leave, Promise!Present, Promise!Without, Lobbies, Matches,
         AgreedClients
<1> QED
  BY <1>1 DEF PromiseStep, Promise!Next

\* Matches that end.
LEMMA FinishStep ==
  ASSUME NEW ps \in SUBSET Matches,
         Lobbies' = Lobbies, Matches' = Matches \ ps,
         AgreedClients' = AgreedClients
  PROVE  PromiseStep
<1>1. CASE ps = {}
  BY <1>1, StutterStep
<1>2. CASE ps # {}
  <2>1. Promise!Finish(ps)
    BY <1>2 DEF Promise!Finish, Lobbies, Matches, AgreedClients
  <2>2. ps \in SUBSET {games_by_id[g].sockets : g \in RunningGames}
    BY DEF Matches
  <2> QED
    BY <2>1, <2>2 DEF PromiseStep, Promise!Next
<1> QED
  BY <1>1, <1>2

-----------------------------------------------------------------------------
(* The callbacks. *)

\* What the promise sees of a callback about game g.
LEMMA OneGameStep ==
  ASSUME NEW g \in GameIds,
         \A h \in GameIds \ {g} : games_by_id'[h] = games_by_id[h]
  PROVE  LET waits == Live(g) /\ ~ games_by_id[g].is_running
             runs == Live(g) /\ games_by_id[g].is_running
             yes == {c \in Sockets : waits /\ AgreedIn(games_by_id[g], c)}
         IN  /\ Lobbies = IF waits THEN OtherLobbies(g) \cup {games_by_id[g].sockets}
                          ELSE OtherLobbies(g)
             /\ Matches = IF runs THEN OtherMatches(g) \cup {games_by_id[g].sockets}
                          ELSE OtherMatches(g)
             /\ AgreedClients = OtherAgreed(g) \cup yes
             /\ Lobbies' = IF waits'
                           THEN OtherLobbies(g) \cup {games_by_id'[g].sockets}
                           ELSE OtherLobbies(g)
             /\ Matches' = IF runs'
                           THEN OtherMatches(g) \cup {games_by_id'[g].sockets}
                           ELSE OtherMatches(g)
             /\ AgreedClients' = OtherAgreed(g) \cup yes'
<1>1. /\ g \in WaitingGames <=> Live(g) /\ ~ games_by_id[g].is_running
      /\ g \in RunningGames <=> Live(g) /\ games_by_id[g].is_running
      /\ g \in WaitingGames' <=> Live(g)' /\ ~ games_by_id'[g].is_running
      /\ g \in RunningGames' <=> Live(g)' /\ games_by_id'[g].is_running
  BY DEF WaitingGames, RunningGames, LiveGames
<1>2. \A c : HasAgreed(c) <=>
        \E h \in WaitingGames : AgreedIn(games_by_id[h], c)
  BY DEF HasAgreed, AgreedIn
<1>3. \A c : HasAgreed(c)' <=>
        \E h \in WaitingGames' : AgreedIn(games_by_id'[h], c)
  BY DEF HasAgreed, AgreedIn
<1>4. /\ Lobbies = IF g \in WaitingGames
                   THEN OtherLobbies(g) \cup {games_by_id[g].sockets}
                   ELSE OtherLobbies(g)
      /\ Lobbies' = IF g \in WaitingGames'
                    THEN OtherLobbies(g)' \cup {games_by_id'[g].sockets}
                    ELSE OtherLobbies(g)'
  BY DEF Lobbies, OtherLobbies
<1>5. /\ Matches = IF g \in RunningGames
                   THEN OtherMatches(g) \cup {games_by_id[g].sockets}
                   ELSE OtherMatches(g)
      /\ Matches' = IF g \in RunningGames'
                    THEN OtherMatches(g)' \cup {games_by_id'[g].sockets}
                    ELSE OtherMatches(g)'
  BY DEF Matches, OtherMatches
<1>6. AgreedClients = OtherAgreed(g) \cup
        {c \in Sockets : g \in WaitingGames /\ AgreedIn(games_by_id[g], c)}
  BY <1>2 DEF AgreedClients, OtherAgreed
<1>7. AgreedClients' = OtherAgreed(g)' \cup
        {c \in Sockets : g \in WaitingGames' /\ AgreedIn(games_by_id'[g], c)}
  BY <1>3 DEF AgreedClients, OtherAgreed
<1> QED
  BY <1>1, <1>4, <1>5, <1>6, <1>7, OthersStay DEF AgreedIn

\* READY.
LEMMA MessageReadyKeepsPromise ==
  ASSUME Kept, NEW c \in Sockets, NEW id, NEW ready \in BOOLEAN,
         MessageReady(c, id, ready)
  PROVE  PromiseStep
<1>1. PICK g \in GameIds :
        InGame(c, g) /\ Handled(g, Ready(games_by_id[g], c, id, ready))
  BY DEF MessageReady
<1> DEFINE old == games_by_id[g]
           new == Ready(old, c, id, ready)
           p == old.sockets
<1>2. /\ Live(g) /\ WellSeated(old) /\ c \in p
      /\ games_by_id \in [GameIds -> {NoGame} \cup Game]
  BY <1>1 DEF InGame, Kept, Sound, SoundGames, SeatedGame
<1>3. WellSeated(new)
  BY <1>2, ReadySeats
<1>4. /\ new.sockets = p
      /\ \A d \in Sockets \ {c} : AgreedIn(new, d) <=> AgreedIn(old, d)
      /\ old.is_running => new.is_running
      /\ new.is_running /\ ~ old.is_running => AllPlayersReady(new.players)
  BY <1>2, ReadySpeaksForOne
<1>5. games_by_id' = [games_by_id EXCEPT ![g] = new]
  BY <1>1 DEF Handled
<1> HIDE DEF new
<1>6. /\ games_by_id'[g] = new /\ Live(g)'
      /\ \A h \in GameIds \ {g} : games_by_id'[h] = games_by_id[h]
  BY <1>2, <1>3, <1>5, NoGameAssumption DEF Live, WellSeated, SoundGame
<1> DEFINE yes(game) == {d \in Sockets : ~ game.is_running /\ AgreedIn(game, d)}
<1>7. /\ Lobbies = IF ~ old.is_running THEN OtherLobbies(g) \cup {p}
                   ELSE OtherLobbies(g)
      /\ Matches = IF old.is_running THEN OtherMatches(g) \cup {p}
                   ELSE OtherMatches(g)
      /\ AgreedClients = OtherAgreed(g) \cup yes(old)
      /\ Lobbies' = IF ~ new.is_running THEN OtherLobbies(g) \cup {p}
                    ELSE OtherLobbies(g)
      /\ Matches' = IF new.is_running THEN OtherMatches(g) \cup {p}
                    ELSE OtherMatches(g)
      /\ AgreedClients' = OtherAgreed(g) \cup yes(new)
  BY <1>2, <1>4, <1>6, OneGameStep
<1>8. /\ p \notin OtherLobbies(g) /\ p \subseteq Sockets
      /\ OtherAgreed(g) \cap p = {}
  BY <1>2, GamesAreDisjoint
<1>9. yes(old) \subseteq p /\ yes(new) \subseteq p
  BY <1>4 DEF AgreedIn
<1>10. CASE old.is_running
  BY <1>4, <1>7, <1>10, StutterStep
<1>11. CASE ~ old.is_running /\ ~ new.is_running
  <2>1. yes(new) \ {c} = yes(old) \ {c}
    BY <1>4, <1>11
  <2> HIDE DEF yes
  <2>2. CASE c \in yes(new)
    <3>1. AgreedClients' = AgreedClients \cup {c}
      BY <1>7, <2>1, <2>2
    <3> QED
      BY <1>2, <1>7, <1>11, <3>1, AgreeStep
  <2>3. CASE c \notin yes(new)
    <3>1. AgreedClients' \subseteq AgreedClients
      BY <1>7, <2>1, <2>3
    <3> QED
      BY <1>7, <1>11, <3>1, RetractStep
  <2> QED
    BY <2>2, <2>3
<1>12. CASE ~ old.is_running /\ new.is_running
  <2>1. yes(new) = {}
    BY <1>12
  <2>2. p \subseteq yes(old) \cup {c}
    <3> SUFFICES ASSUME NEW d \in p, d # c
                 PROVE  d \in yes(old)
      OBVIOUS
    <3>1. AgreedIn(new, d)
      BY <1>4, <1>12 DEF AgreedIn, AllPlayersReady, SeatsOf
    <3> QED
      BY <1>4, <1>8, <1>12, <3>1
  <2> HIDE DEF yes, p
  <2>3. AgreedClients' = AgreedClients \ p
    BY <1>7, <1>8, <1>9, <2>1
  <2>4. /\ p \in Lobbies /\ Lobbies' = Lobbies \ {p}
        /\ Matches' = Matches \cup {p}
    BY <1>7, <1>8, <1>12
  <2>5. p \subseteq AgreedClients \cup {c} /\ c \in p
    BY <1>2, <1>7, <2>2 DEF p
  <2> QED
    BY <2>3, <2>4, <2>5, StartStep
<1> QED
  BY <1>10, <1>11, <1>12

\* SWITCH_TEAM.
LEMMA MessageSwitchTeamKeepsPromise ==
  ASSUME Kept, NEW c \in Sockets, NEW id, NEW target,
         MessageSwitchTeam(c, id, target)
  PROVE  PromiseStep
<1>1. PICK g \in GameIds :
        InGame(c, g) /\ Handled(g, SwitchTeam(games_by_id[g], c, id, target))
  BY DEF MessageSwitchTeam
<1> DEFINE old == games_by_id[g]
           new == SwitchTeam(old, c, id, target)
           p == old.sockets
<1>2. /\ Live(g) /\ WellSeated(old)
      /\ games_by_id \in [GameIds -> {NoGame} \cup Game]
  BY <1>1 DEF InGame, Kept, Sound, SoundGames, SeatedGame
<1>3. WellSeated(new)
  BY <1>2, SwitchTeamSeats
<1>4. /\ new.sockets = p
      /\ new.is_running = old.is_running
      /\ \A d \in Sockets : AgreedIn(new, d) => AgreedIn(old, d)
  BY <1>2, SwitchTeamOnlyRetracts
<1>5. games_by_id' = [games_by_id EXCEPT ![g] = new]
  BY <1>1 DEF Handled
<1> HIDE DEF new
<1>6. /\ games_by_id'[g] = new /\ Live(g)'
      /\ \A h \in GameIds \ {g} : games_by_id'[h] = games_by_id[h]
  BY <1>2, <1>3, <1>5, NoGameAssumption DEF Live, WellSeated, SoundGame
<1> DEFINE yes(game) == {d \in Sockets : ~ game.is_running /\ AgreedIn(game, d)}
<1>7. /\ Lobbies = IF ~ old.is_running THEN OtherLobbies(g) \cup {p}
                   ELSE OtherLobbies(g)
      /\ Matches = IF old.is_running THEN OtherMatches(g) \cup {p}
                   ELSE OtherMatches(g)
      /\ AgreedClients = OtherAgreed(g) \cup yes(old)
      /\ Lobbies' = IF ~ new.is_running THEN OtherLobbies(g) \cup {p}
                    ELSE OtherLobbies(g)
      /\ Matches' = IF new.is_running THEN OtherMatches(g) \cup {p}
                    ELSE OtherMatches(g)
      /\ AgreedClients' = OtherAgreed(g) \cup yes(new)
  BY <1>2, <1>4, <1>6, OneGameStep
<1>8. yes(new) \subseteq yes(old)
  BY <1>4
<1> HIDE DEF yes, p, old
<1>9. /\ Lobbies' = Lobbies /\ Matches' = Matches
      /\ AgreedClients' \subseteq AgreedClients
  BY <1>4, <1>7, <1>8
<1> QED
  BY <1>9, RetractStep

\* What .open puts c in.
LEMMA OpenKeepsPromise ==
  ASSUME Kept, NEW c \in Sockets, NEW kind \in Kinds, NEW slots \in 1 .. 2,
         OpenJoining(c, kind, slots) \/ OpenCreating(c, kind, slots)
  PROVE  PromiseStep
<1>1. /\ games_by_id \in [GameIds -> {NoGame} \cup Game]
      /\ connections[c] = NotConnected
  BY DEF Kept, Sound, SoundGames, OpenJoining, OpenCreating, OpenGuard
<1>2. \A p \in Lobbies \cup Matches : c \notin p
  <2> SUFFICES ASSUME NEW p \in Lobbies \cup Matches, c \in p
               PROVE  FALSE
    OBVIOUS
  <2>1. PICK h \in GameIds : Live(h) /\ p = games_by_id[h].sockets
    BY DEF Lobbies, Matches, WaitingGames, RunningGames, LiveGames
  <2> QED
    BY <1>1, <2>1, GamesAreDisjoint
<1> DEFINE yes(game) == {d \in Sockets : ~ game.is_running /\ AgreedIn(game, d)}
<1>3. CASE OpenJoining(c, kind, slots)
  <2>0. PICK g : g = Min(Joinable(kind, slots))
    OBVIOUS
  <2> DEFINE old == games_by_id[g]
             new == AddConnection(old, c, NewIds(slots))
             p == old.sockets
  <2>1. g \in Joinable(kind, slots)
    <3>1. Joinable(kind, slots) \in SUBSET Nat
      BY DEF Joinable, Kept, Sound, SoundGames, GameIds
    <3> QED
      BY <1>3, <2>0, <3>1, MinOfNaturals DEF OpenJoining
  <2>2. /\ g \in GameIds /\ Live(g) /\ WellSeated(old)
        /\ HasRoomFor(old.kind, old.players, slots) /\ ~ old.is_running
    BY <2>1 DEF Joinable, Accepts, Kept, SeatedGame, Sound, SoundGames
  <2>3. games_by_id' = [games_by_id EXCEPT ![g] = new]
    BY <1>3, <2>0 DEF OpenJoining, Enter
  <2>4. IdsBelow(old.players, next_player_id)
    BY <2>2, IdsAreFresh
  <2>5. HeldBy(old.players, c) = {}
    BY <1>1, <2>2 DEF Kept, SeatedGame, InGame
  <2> HIDE DEF old
  <2>6. /\ ~ new.is_running /\ new.sockets = p \cup {c}
        /\ ~ AgreedIn(new, c)
        /\ \A d \in Sockets \ {c} : AgreedIn(new, d) <=> AgreedIn(old, d)
    BY <2>2, <2>4, <2>5, NewcomerIsNotReady
  <2>7. WellSeated(new)
    BY <2>2, <2>4, NewConnectionSeats
  <2> HIDE DEF new
  <2>8. /\ games_by_id'[g] = new /\ Live(g)' /\ Live(g) /\ games_by_id[g] = old
        /\ \A h \in GameIds \ {g} : games_by_id'[h] = games_by_id[h]
    <3>1. new # NoGame
      BY <2>7, NoGameAssumption DEF WellSeated, SoundGame
    <3>2. games_by_id[g] = old /\ Live(g)
      BY <2>2 DEF old
    <3> QED
      BY <1>1, <2>2, <2>3, <3>1, <3>2 DEF Live
  <2>9. /\ Lobbies = OtherLobbies(g) \cup {p}
        /\ Lobbies' = OtherLobbies(g) \cup {p \cup {c}}
        /\ Matches' = Matches
        /\ AgreedClients = OtherAgreed(g) \cup yes(old)
        /\ AgreedClients' = OtherAgreed(g) \cup yes(new)
    <3>1. /\ Lobbies = OtherLobbies(g) \cup {games_by_id[g].sockets}
          /\ Matches = OtherMatches(g)
          /\ AgreedClients = OtherAgreed(g) \cup yes(games_by_id[g])
      BY <2>2, <2>8, OneGameStep
    <3>2. /\ Lobbies' = OtherLobbies(g) \cup {games_by_id'[g].sockets}
          /\ Matches' = OtherMatches(g)
          /\ AgreedClients' = OtherAgreed(g) \cup yes(games_by_id'[g])
      BY <2>2, <2>6, <2>8, OneGameStep
    <3> HIDE DEF yes
    <3> QED
      BY <2>6, <2>8, <3>1, <3>2
  <2>10. p \notin OtherLobbies(g)
    BY <2>2, GamesAreDisjoint DEF old
  <2>11. yes(new) = yes(old)
    <3>1. ~ AgreedIn(old, c)
      BY <1>2, <2>9 DEF AgreedIn
    <3> QED
      BY <2>2, <2>6, <3>1
  <2> HIDE DEF p, yes
  <2>12. p \in Lobbies /\ Lobbies' = (Lobbies \ {p}) \cup {p \cup {c}}
         /\ Matches' = Matches /\ AgreedClients' = AgreedClients
    BY <2>9, <2>10, <2>11
  <2> QED
    BY <1>2, <2>12, JoinStep
<1>4. CASE OpenCreating(c, kind, slots)
  <2>0. PICK g : g = next_game_id
    OBVIOUS
  <2> DEFINE old == CreateGame(kind)
             new == AddConnection(old, c, NewIds(slots))
  <2>1. g \in GameIds /\ ~ Live(g)
    BY <1>4, <2>0, BoundsAssumption
       DEF OpenCreating, Kept, Sound, SoundGames, GameIds
  <2>2. /\ SoundGame(old) /\ old.kind = kind /\ ~ old.is_running
        /\ old.sockets = {} /\ Seated(old.players) = {}
    BY CreateGameIsSound DEF CreateGame
  <2>3. HasRoomFor(old.kind, old.players, slots)
    BY <1>4, <2>2, NewGameHasRoom DEF OpenCreating, OpenGuard
  <2>4. games_by_id' = [games_by_id EXCEPT ![g] = new]
    BY <1>4, <2>0 DEF OpenCreating, Enter
  <2> HIDE DEF old
  <2>5. /\ WellSeated(old) /\ IdsBelow(old.players, next_player_id)
        /\ HeldBy(old.players, c) = {}
    BY <2>2 DEF WellSeated, OneSeatEach, IdsBelow, HeldBy, IdsIn, SeatsOf
  <2>6. /\ ~ new.is_running /\ new.sockets = {c}
        /\ ~ AgreedIn(new, c)
        /\ \A d \in Sockets \ {c} : AgreedIn(new, d) <=> AgreedIn(old, d)
    <3>1. new.sockets = old.sockets \cup {c}
      BY <2>2, <2>3, <2>5, NewcomerIsNotReady
    <3>2. /\ ~ new.is_running
          /\ ~ AgreedIn(new, c)
          /\ \A d \in Sockets \ {c} : AgreedIn(new, d) <=> AgreedIn(old, d)
      BY <2>2, <2>3, <2>5, NewcomerIsNotReady
    <3> QED
      BY <2>2, <3>1, <3>2
  <2>7. WellSeated(new)
    BY <2>2, <2>3, <2>5, NewConnectionSeats
  <2> HIDE DEF new
  <2>8. /\ games_by_id'[g] = new /\ Live(g)'
        /\ \A h \in GameIds \ {g} : games_by_id'[h] = games_by_id[h]
    <3>1. new # NoGame
      BY <2>7, NoGameAssumption DEF WellSeated, SoundGame
    <3> QED
      BY <1>1, <2>1, <2>4, <3>1 DEF Live
  <2>9. /\ Lobbies = OtherLobbies(g)
        /\ Lobbies' = OtherLobbies(g) \cup {{c}}
        /\ Matches' = Matches
        /\ AgreedClients = OtherAgreed(g)
        /\ AgreedClients' = OtherAgreed(g) \cup yes(new)
    <3>1. /\ Lobbies = OtherLobbies(g)
          /\ Matches = OtherMatches(g)
          /\ AgreedClients = OtherAgreed(g)
      BY <2>1, <2>8, OneGameStep
    <3>2. /\ Lobbies' = OtherLobbies(g) \cup {games_by_id'[g].sockets}
          /\ Matches' = OtherMatches(g)
          /\ AgreedClients' = OtherAgreed(g) \cup yes(games_by_id'[g])
      BY <2>1, <2>6, <2>8, OneGameStep
    <3> HIDE DEF yes
    <3> QED
      BY <2>6, <2>8, <3>1, <3>2
  <2>10. yes(new) = {}
    BY <2>2, <2>6 DEF AgreedIn
  <2> HIDE DEF yes
  <2>11. Lobbies' = Lobbies \cup {{c}}
         /\ Matches' = Matches /\ AgreedClients' = AgreedClients
    BY <2>9, <2>10
  <2> QED
    BY <1>2, <2>11, JoinStep
<1> QED
  BY <1>3, <1>4

\* The sockets of a game, and nothing else, lose the one that leaves.
LEMMA DepartureKeepsPromise ==
  ASSUME Kept, NEW c \in Sockets, NEW g \in GameIds, InGame(c, g),
         LET new == RemoveConnection(games_by_id[g], c)
         IN  IF new.sockets = {} THEN ~ Live(g)'
             ELSE Live(g)' /\ games_by_id'[g] = new,
         \A h \in GameIds \ {g} : games_by_id'[h] = games_by_id[h]
  PROVE  PromiseStep
<1> DEFINE old == games_by_id[g]
           new == RemoveConnection(old, c)
           p == old.sockets
           yes(game) == {d \in Sockets : ~ game.is_running /\ AgreedIn(game, d)}
<1>1. /\ Live(g) /\ WellSeated(old) /\ c \in p
  BY DEF InGame, Kept, SeatedGame
<1>2. /\ new.sockets = p \ {c}
      /\ new.is_running = old.is_running
      /\ \A d \in Sockets : AgreedIn(new, d) <=> d # c /\ AgreedIn(old, d)
  BY <1>1, LeaverSpeaksForOne
<1>3. IF p \ {c} = {} THEN ~ Live(g)' ELSE Live(g)' /\ games_by_id'[g] = new
  BY <1>2
<1> HIDE DEF new
<1>4. yes(new) = yes(old) \ {c}
  BY <1>2
<1>5. p \ {c} = {} => yes(old) \ {c} = {}
  BY DEF AgreedIn
<1>6. /\ Lobbies = IF ~ old.is_running THEN OtherLobbies(g) \cup {p}
                   ELSE OtherLobbies(g)
      /\ Matches = IF old.is_running THEN OtherMatches(g) \cup {p}
                   ELSE OtherMatches(g)
      /\ AgreedClients = OtherAgreed(g) \cup yes(old)
  BY <1>1, OneGameStep
<1>7. /\ p \notin OtherLobbies(g) /\ p \notin OtherMatches(g)
      /\ \A q \in OtherLobbies(g) : q # {} /\ q \ {c} = q
      /\ \A q \in OtherMatches(g) : q # {} /\ q \ {c} = q
      /\ c \notin OtherAgreed(g)
  <2>1. \A q \in OtherLobbies(g) \cup OtherMatches(g) :
          q # {} /\ q \cap p = {}
    BY <1>1, GamesAreDisjoint
  <2>2. OtherAgreed(g) \cap p = {}
    BY <1>1, GamesAreDisjoint
  <2> HIDE DEF p
  <2> QED
    BY <1>1, <2>1, <2>2
\* The other lobbies and matches lose nobody.
<1>8. /\ {q \ {c} : q \in OtherLobbies(g)} \ {{}} = OtherLobbies(g)
      /\ {q \ {c} : q \in OtherMatches(g)} \ {{}} = OtherMatches(g)
  <2>1. ASSUME NEW ps, \A q \in ps : q # {} /\ q \ {c} = q
        PROVE  {q \ {c} : q \in ps} \ {{}} = ps
    <3>1. ASSUME NEW r \in ps
          PROVE  r \in {q \ {c} : q \in ps}
      <4>1. r = r \ {c}
        BY <2>1
      <4> QED
        BY <4>1
    <3>2. ASSUME NEW r \in {q \ {c} : q \in ps}
          PROVE  r \in ps
      <4>1. PICK q \in ps : r = q \ {c}
        OBVIOUS
      <4>2. q \ {c} = q
        BY <2>1
      <4> QED
        BY <4>1, <4>2
    <3>3. {q \ {c} : q \in ps} = ps
      BY <3>1, <3>2
    <3>4. {} \notin ps
      BY <2>1
    <3> QED
      BY <3>3, <3>4
  <2> QED
    BY <1>7, <2>1
<1> DEFINE left(parties) == {q \ {c} : q \in parties} \ {{}}
<1>9. \A parties : left(parties \cup {p}) =
        IF p \ {c} = {} THEN left(parties) ELSE left(parties) \cup {p \ {c}}
  <2> HIDE DEF p
  <2> QED
    OBVIOUS
<1>10. /\ left(OtherLobbies(g)) = OtherLobbies(g)
       /\ left(OtherMatches(g)) = OtherMatches(g)
  BY <1>8
<1>11. /\ Lobbies' = left(Lobbies) /\ Matches' = left(Matches)
       /\ AgreedClients' = AgreedClients \ {c}
  <2>1. CASE p \ {c} = {}
    <3>1. /\ Lobbies' = OtherLobbies(g)
          /\ Matches' = OtherMatches(g)
          /\ AgreedClients' = OtherAgreed(g)
      BY <1>3, <2>1, OneGameStep
    <3> HIDE DEF left, p, yes, old
    <3> QED
      BY <1>5, <1>6, <1>7, <1>9, <1>10, <2>1, <3>1
  <2>2. CASE p \ {c} # {}
    <3>1. /\ Live(g)' /\ games_by_id'[g] = new
      BY <1>3, <2>2
    <3>2. /\ Lobbies' = IF ~ new.is_running THEN OtherLobbies(g) \cup {new.sockets}
                        ELSE OtherLobbies(g)
          /\ Matches' = IF new.is_running THEN OtherMatches(g) \cup {new.sockets}
                        ELSE OtherMatches(g)
          /\ AgreedClients' = OtherAgreed(g) \cup yes(new)
      BY <3>1, OneGameStep
    <3> HIDE DEF left, p, yes, old
    <3>3. AgreedClients' = AgreedClients \ {c}
      BY <1>4, <1>6, <1>7, <3>2
    <3>4. CASE old.is_running
      BY <1>2, <1>6, <1>9, <1>10, <2>2, <3>2, <3>3, <3>4
    <3>5. CASE ~ old.is_running
      BY <1>2, <1>6, <1>9, <1>10, <2>2, <3>2, <3>3, <3>5
    <3> QED
      BY <3>4, <3>5
  <2> QED
    BY <2>1, <2>2
<1>12. p \in Lobbies \cup Matches
  BY <1>6
<1> QED
  BY <1>1, <1>11, <1>12, LeaveStep

\* .close.
LEMMA CloseKeepsPromise ==
  ASSUME Kept, NEW c \in Sockets, Close(c)
  PROVE  PromiseStep
<1>1. games_by_id \in [GameIds -> {NoGame} \cup Game]
  BY DEF Kept, Sound, SoundGames
<1>2. CASE CloseAfterGame(c)
  <2>1. UNCHANGED games_by_id
    BY <1>2 DEF CloseAfterGame
  <2>2. /\ WaitingGames' = WaitingGames
        /\ RunningGames' = RunningGames
    BY <2>1 DEF WaitingGames, RunningGames, LiveGames, Live
  <2>3. /\ Lobbies' = Lobbies /\ Matches' = Matches
        /\ AgreedClients' = AgreedClients
    BY <2>1, <2>2 DEF Lobbies, Matches, AgreedClients, HasAgreed
  <2> QED
    BY <2>3, StutterStep
<1>3. CASE CloseLast(c)
  <2>1. PICK g \in GameIds :
          /\ InGame(c, g)
          /\ RemoveConnection(games_by_id[g], c).sockets = {}
          /\ Destroy({g}, games_by_id)
    BY <1>3 DEF CloseLast
  <2>2. /\ ~ Live(g)'
        /\ \A h \in GameIds \ {g} : games_by_id'[h] = games_by_id[h]
    BY <2>1 DEF Destroy, Live
  <2> QED
    BY <2>1, <2>2, DepartureKeepsPromise
<1>4. CASE CloseOne(c)
  <2>1. PICK g \in GameIds :
          /\ InGame(c, g)
          /\ RemoveConnection(games_by_id[g], c).sockets # {}
          /\ games_by_id' = [games_by_id EXCEPT
                               ![g] = RemoveConnection(games_by_id[g], c)]
    BY <1>4 DEF CloseOne
  <2> DEFINE new == RemoveConnection(games_by_id[g], c)
  <2>2. SoundGame(games_by_id[g])
    BY <2>1 DEF InGame, Kept, Sound, SoundGames
  <2>3. new # NoGame
    BY <2>2, RemoveConnectionIsSound, NoGameAssumption DEF SoundGame
  <2>4. games_by_id' = [games_by_id EXCEPT ![g] = new]
    BY <2>1
  <2> HIDE DEF new
  <2>5. /\ Live(g)' /\ games_by_id'[g] = new
        /\ \A h \in GameIds \ {g} : games_by_id'[h] = games_by_id[h]
    BY <1>1, <2>3, <2>4 DEF Live
  <2> QED
    BY <2>1, <2>5, DepartureKeepsPromise DEF new
<1> QED
  BY <1>2, <1>3, <1>4 DEF Close

\* The timer ends some matches, each for all its clients.
LEMMA TickKeepsPromise ==
  ASSUME Kept, Tick
  PROVE  PromiseStep
<1>1. PICK ending \in SUBSET {g \in LiveGames : games_by_id[g].is_running} :
        LET updated == [g \in GameIds |->
                          IF Live(g) THEN Update(games_by_id[g], g \in ending)
                                     ELSE NoGame]
            finished == {g \in LiveGames : updated[g].is_over}
        IN  Destroy(finished, updated)
  BY DEF Tick
<1> DEFINE updated == [g \in GameIds |->
                         IF Live(g) THEN Update(games_by_id[g], g \in ending)
                                    ELSE NoGame]
           finished == {g \in LiveGames : updated[g].is_over}
<1>2. \A g \in GameIds : Live(g) =>
        WellSeated(games_by_id[g]) /\ ~ games_by_id[g].is_over
          /\ games_by_id[g] \in Game
  BY DEF Kept, SeatedGame, WellSeated, SoundGame
<1>3. ASSUME NEW g \in GameIds, Live(g)
      PROVE  /\ g \in finished <=> g \in ending
             /\ g \notin finished =>
                  /\ updated[g] # NoGame
                  /\ updated[g].players = games_by_id[g].players
                  /\ updated[g].sockets = games_by_id[g].sockets
                  /\ updated[g].is_running = games_by_id[g].is_running
  <2> DEFINE game == games_by_id[g]
  <2>1. /\ updated[g] = Update(game, g \in ending)
        /\ g \in finished <=> updated[g].is_over
    BY <1>3 DEF LiveGames
  <2>2. WellSeated(game) /\ ~ game.is_over /\ game \in Game /\ SoundGame(game)
    BY <1>2, <1>3 DEF WellSeated
  <2>3. g \in ending => game.is_running
    OBVIOUS
  <2> HIDE DEF updated, finished, game
  <2>4. CASE g \in ending
    <3>1. updated[g] = [game EXCEPT !.sim = [@ EXCEPT !.over = TRUE],
                                    !.is_running = FALSE, !.is_over = TRUE]
      BY <2>1, <2>3, <2>4 DEF Update
    <3>2. updated[g].is_over
      BY <2>2, <3>1 DEF Game
    <3> QED
      BY <2>1, <2>4, <3>2
  <2>5. CASE g \notin ending
    <3>1. updated[g] = Update(game, FALSE)
      <4>1. (g \in ending) = FALSE
        BY <2>5
      <4> QED
        BY <2>1, <4>1
    <3>2. /\ WellSeated(updated[g])
          /\ updated[g].players = game.players
          /\ updated[g].sockets = game.sockets
      BY <2>2, <3>1, UpdateSeats
    <3>3. ~ updated[g].is_over /\ updated[g] # NoGame
      BY <3>2, NoGameAssumption DEF WellSeated, SoundGame
    <3>4. updated[g].is_running = game.is_running
      BY <2>2, <3>1 DEF Update, Game
    <3> QED
      BY <2>1, <2>5, <3>2, <3>3, <3>4 DEF game
  <2> QED
    BY <2>4, <2>5
<1>4. /\ \A g \in GameIds :
           games_by_id'[g] = IF g \in finished THEN NoGame ELSE updated[g]
      /\ \A g \in GameIds : ~ Live(g) => updated[g] = NoGame
  BY <1>1 DEF Destroy
<1>5. ending \subseteq GameIds /\ finished \subseteq GameIds
      /\ \A g \in ending \cup finished : Live(g)
  BY DEF LiveGames
<1> HIDE DEF updated, finished
<1>6. finished = ending
  BY <1>3, <1>5
<1>7. \A g \in GameIds : Live(g)' <=> Live(g) /\ g \notin ending
  BY <1>3, <1>4, <1>6 DEF Live
<1>8. \A g \in GameIds : Live(g)' =>
        /\ games_by_id'[g].players = games_by_id[g].players
        /\ games_by_id'[g].sockets = games_by_id[g].sockets
        /\ games_by_id'[g].is_running = games_by_id[g].is_running
  BY <1>3, <1>4, <1>6, <1>7
<1>9. /\ WaitingGames' = WaitingGames
      /\ RunningGames' = RunningGames \ ending
  BY <1>7, <1>8 DEF WaitingGames, RunningGames, LiveGames
<1>10. \A g \in WaitingGames' \cup RunningGames' :
         g \in GameIds /\ Live(g)'
  BY DEF WaitingGames, RunningGames, LiveGames
<1>11. Lobbies' = Lobbies
  BY <1>8, <1>9, <1>10 DEF Lobbies
<1>12. AgreedClients' = AgreedClients
  <2>1. \A g \in WaitingGames, c \in Sockets :
          AgreedIn(games_by_id'[g], c) <=> AgreedIn(games_by_id[g], c)
    BY <1>8, <1>9, <1>10 DEF AgreedIn
  <2>2. \A c \in Sockets : HasAgreed(c) <=>
          \E g \in WaitingGames : AgreedIn(games_by_id[g], c)
    BY DEF HasAgreed, AgreedIn
  <2>3. \A c \in Sockets : HasAgreed(c)' <=>
          \E g \in WaitingGames' : AgreedIn(games_by_id'[g], c)
    BY DEF HasAgreed, AgreedIn
  <2>4. \A c \in Sockets : HasAgreed(c)' <=> HasAgreed(c)
    BY <1>9, <2>1, <2>2, <2>3
  <2> QED
    BY <2>4 DEF AgreedClients
<1> DEFINE ps == {games_by_id[g].sockets : g \in ending}
<1>13. ending \subseteq RunningGames
  BY DEF RunningGames
<1>14. ps \in SUBSET Matches
  BY <1>13 DEF Matches
<1>15. Matches' = Matches \ ps
  <2>1. \A g, h \in RunningGames :
          games_by_id[g].sockets = games_by_id[h].sockets => g = h
    <3> SUFFICES ASSUME NEW g \in RunningGames, NEW h \in RunningGames,
                        games_by_id[g].sockets = games_by_id[h].sockets
                 PROVE  g = h
      OBVIOUS
    <3>1. g \in GameIds /\ Live(g) /\ h \in GameIds /\ Live(h)
      BY DEF RunningGames, LiveGames
    <3>2. PICK c \in games_by_id[g].sockets : TRUE
      BY <3>1, GamesAreDisjoint
    <3>3. connections[c].game_id = g
      BY <3>1, <3>2, GamesAreDisjoint
    <3>4. connections[c].game_id = h
      BY <3>1, <3>2, GamesAreDisjoint
    <3> QED
      BY <3>3, <3>4
  <2>2. Matches' = {games_by_id[g].sockets : g \in RunningGames \ ending}
    BY <1>8, <1>9, <1>10 DEF Matches
  <2>3. \A p : p \in Matches' <=> p \in Matches /\ p \notin ps
    BY <1>13, <2>1, <2>2 DEF Matches
  <2> QED
    BY <2>3
<1> HIDE DEF ps
<1> QED
  BY <1>11, <1>12, <1>14, <1>15, FinishStep

\* Every callback is a step of the promise, or none.
LEMMA EveryStepKeepsPromise ==
  ASSUME Kept, [Next]_vars
  PROVE  PromiseStep
<1>1. CASE UNCHANGED vars
  BY <1>1 DEF vars, PromiseStep, Promise!vars, WaitingGames, RunningGames,
     LiveGames, Live, HasAgreed
<1>2. ASSUME NEW c \in Sockets, Open(c)
      PROVE  PromiseStep
  <2>1. PICK kind \in Kinds, slots \in 1 .. MaxPlayersPerClient :
          OpenJoining(c, kind, slots) \/ OpenCreating(c, kind, slots)
    BY <1>2 DEF Open
  <2>2. slots \in 1 .. 2
    BY DEF MaxPlayersPerClient
  <2> QED
    BY <2>1, <2>2, OpenKeepsPromise
<1>3. ASSUME NEW c \in Sockets, Message(c)
      PROVE  PromiseStep
  BY <1>3, MessageReadyKeepsPromise, MessageSwitchTeamKeepsPromise DEF Message
<1>4. ASSUME NEW c \in Sockets, Close(c)
      PROVE  PromiseStep
  BY <1>4, CloseKeepsPromise
<1>5. CASE Tick
  BY <1>5, TickKeepsPromise
<1> QED
  BY <1>1, <1>2, <1>3, <1>4, <1>5 DEF Next

-----------------------------------------------------------------------------
(* Theorem. *)

\* The server keeps its promise.
THEOREM ServerImplementsPromise == Spec => KeepsPromise
<1>1. Init => Promise!Init
  BY DEF Init, Promise!Init, WaitingGames, RunningGames, LiveGames, Live,
     HasAgreed
<1>2. Kept /\ [Next]_vars => [Promise!Next]_(Promise!vars)
  BY EveryStepKeepsPromise DEF PromiseStep
<1> QED
  BY <1>1, <1>2, KeptIsInvariant, PTL DEF Spec, KeepsPromise, Promise!Spec

-----------------------------------------------------------------------------
(***************************************************************************)
(* Part 3.  The server with its clients and the connections between them:  *)
(* what a client was told last is the lobby as it is, and the clients do   *)
(* nothing to the server that its callbacks do not allow.                  *)
(***************************************************************************)
Told(box, game) == \A c \in game.sockets : Tells(box[c].lobby, game)

\* What the callbacks of the server keep: everybody in a game was told how it
\* is, and nobody outside was told anything.
Truthful ==
  /\ Kept
  /\ next_player_id <= MaxPlayerId + 1
  /\ \A g \in GameIds : Live(g) => Told(inbox, games_by_id[g])
  /\ \A c \in Sockets : connections[c] = NotConnected => inbox[c].lobby = NoLobby

\* What a callback may do to the lobby a socket was told of.
TellsTheGame ==
  \A c \in Sockets :
    \/ /\ inbox'[c].lobby = inbox[c].lobby
       /\ connections'[c] = NotConnected => connections[c] = NotConnected
    \/ inbox'[c].lobby = NoLobby
    \/ \E g \in GameIds : /\ Live(g)' /\ c \in games_by_id'[g].sockets
                          /\ inbox'[c].lobby = LobbyUpdate(games_by_id'[g])

\* A broadcast tells every socket of the game how it is.
LEMMA BroadcastTells ==
  ASSUME NEW box \in [Sockets -> Inbox], NEW game \in Game
  PROVE  /\ Told(BroadcastLobby(box, game), game)
         /\ \A c \in game.sockets :
              BroadcastLobby(box, game)[c].lobby = LobbyUpdate(game)
         /\ \A c \in Sockets \ game.sockets :
              BroadcastLobby(box, game)[c] = box[c]
<1>1. game.sockets \subseteq Sockets
  BY DEF Game
<1>2. \A c \in game.sockets :
        BroadcastLobby(box, game)[c].lobby = LobbyUpdate(game)
  BY <1>1 DEF BroadcastLobby, Inbox
<1>3. LobbyUpdate(game) # NoLobby
  BY LobbyUpdateType, NoLobbyAssumption
<1>4. LobbyUpdate(game).game_started = game.is_running
  BY DEF LobbyUpdate
<1>5. \A c \in Sockets \ game.sockets : BroadcastLobby(box, game)[c] = box[c]
  BY DEF BroadcastLobby
<1> QED
  BY <1>2, <1>3, <1>4, <1>5 DEF Told, Tells

\* The sockets of a game are those that name it, and of no other game.
LEMMA SocketsNameTheirGame ==
  ASSUME Kept, NEW g \in GameIds, Live(g)
  PROVE  /\ games_by_id[g] \in Game /\ WellSeated(games_by_id[g])
         /\ \A c \in games_by_id[g].sockets :
              /\ c \in Sockets /\ connections[c] # NotConnected
              /\ connections[c].game_id = g
         /\ \A h \in GameIds \ {g} :
              Live(h) => games_by_id[h].sockets \cap games_by_id[g].sockets = {}
<1>1. \A h \in GameIds : Live(h) =>
        games_by_id[h].sockets = {c \in Sockets : InGame(c, h)}
  BY DEF Kept, SeatedGame
<1>2. games_by_id[g] \in Game /\ WellSeated(games_by_id[g])
  BY DEF Kept, SeatedGame, WellSeated, SoundGame
<1> QED
  BY <1>1, <1>2 DEF InGame

\* One game changes and those in it are told, or told nothing and it goes on.
LEMMA OneGameIsTold ==
  ASSUME Truthful, Kept', next_player_id' <= MaxPlayerId + 1,
         NEW g \in GameIds,
         \A h \in GameIds \ {g} : games_by_id'[h] = games_by_id[h],
         Live(g)' => Told(inbox', games_by_id'[g]),
         TellsTheGame,
         \A h \in GameIds \ {g} : Live(h) =>
           \A c \in games_by_id[h].sockets : inbox'[c].lobby = inbox[c].lobby
  PROVE  Truthful'
<1>1. ASSUME NEW h \in GameIds \ {g}, Live(h)'
      PROVE  Told(inbox', games_by_id'[h])
  <2>1. Live(h) /\ games_by_id'[h] = games_by_id[h]
    BY <1>1 DEF Live
  <2> QED
    BY <2>1 DEF Truthful, Told
<1>2. ASSUME NEW c \in Sockets, connections'[c] = NotConnected
      PROVE  inbox'[c].lobby = NoLobby
  <2>1. \A h \in GameIds : Live(h)' => c \notin games_by_id'[h].sockets
    BY <1>2 DEF Kept, SeatedGame, InGame
  <2> QED
    BY <1>2, <2>1 DEF TellsTheGame, Truthful
<1> QED
  BY <1>1, <1>2 DEF Truthful

\* READY and SWITCH_TEAM, whatever player they name.
LEMMA HandledTells ==
  ASSUME Truthful, Kept', NEW g \in GameIds, Live(g), NEW game,
         WellSeated(game), game.sockets = games_by_id[g].sockets,
         Handled(g, game)
  PROVE  Truthful'
<1>1. /\ games_by_id'[g] = game /\ Live(g)'
      /\ \A h \in GameIds \ {g} : games_by_id'[h] = games_by_id[h]
      /\ UNCHANGED <<connections, next_player_id>>
      /\ inbox' = BroadcastLobby(inbox, game)
      /\ game \in Game
  BY NoGameAssumption
     DEF Handled, Truthful, Kept, Sound, SoundGames, WellSeated, SoundGame, Live
<1>2. inbox \in [Sockets -> Inbox]
  BY DEF Truthful, Kept, Sound, SoundClients
<1>3. /\ Told(inbox', game)
      /\ \A c \in game.sockets : inbox'[c].lobby = LobbyUpdate(game)
      /\ \A c \in Sockets \ game.sockets : inbox'[c] = inbox[c]
  BY <1>1, <1>2, BroadcastTells
<1>4. TellsTheGame
  BY <1>1, <1>3 DEF TellsTheGame
<1>5. \A h \in GameIds \ {g} : Live(h) =>
        \A c \in games_by_id[h].sockets : c \in Sockets \ game.sockets
  BY SocketsNameTheirGame DEF Truthful
<1>6. next_player_id' <= MaxPlayerId + 1
  BY <1>1 DEF Truthful
<1> QED
  BY <1>1, <1>3, <1>4, <1>5, <1>6, OneGameIsTold

\* A lobby message, readable or not, tells everybody in the game.
LEMMA MessageTells ==
  ASSUME Truthful, NEW c \in Sockets, Message(c)
  PROVE  Truthful' /\ TellsTheGame
<1>1. Kept /\ Kept'
  BY MessageSeats DEF Truthful
<1>2. PICK g, game :
        /\ g \in GameIds /\ Live(g) /\ WellSeated(game)
        /\ game.sockets = games_by_id[g].sockets
        /\ Handled(g, game)
  <2>1. ASSUME NEW id, NEW ready \in BOOLEAN, NEW g \in GameIds, InGame(c, g),
               Handled(g, Ready(games_by_id[g], c, id, ready))
        PROVE  /\ Live(g) /\ WellSeated(Ready(games_by_id[g], c, id, ready))
               /\ Ready(games_by_id[g], c, id, ready).sockets
                    = games_by_id[g].sockets
    BY <1>1, <2>1, ReadySeats DEF InGame, Kept, SeatedGame
  <2>2. ASSUME NEW id, NEW target, NEW g \in GameIds, InGame(c, g),
               Handled(g, SwitchTeam(games_by_id[g], c, id, target))
        PROVE  /\ Live(g) /\ WellSeated(SwitchTeam(games_by_id[g], c, id, target))
               /\ SwitchTeam(games_by_id[g], c, id, target).sockets
                    = games_by_id[g].sockets
    BY <1>1, <2>2, SwitchTeamSeats DEF InGame, Kept, SeatedGame
  <2> QED
    BY <2>1, <2>2 DEF Message, MessageReady, MessageSwitchTeam
<1>3. Truthful'
  BY <1>1, <1>2, HandledTells
<1>4. TellsTheGame
  <2>1. /\ games_by_id'[g] = game /\ Live(g)' /\ game \in Game
        /\ UNCHANGED connections
        /\ inbox' = BroadcastLobby(inbox, game)
        /\ inbox \in [Sockets -> Inbox]
    BY <1>1, <1>2, NoGameAssumption
       DEF Handled, Kept, Sound, SoundGames, SoundClients, WellSeated,
           SoundGame, Live
  <2>2. g \in GameIds
    BY <1>2
  <2> QED
    BY <2>1, <2>2, BroadcastTells DEF TellsTheGame
<1> QED
  BY <1>3, <1>4

\* .open tells the newcomer its ids, and the lobby to everybody in it.
LEMMA EnterTells ==
  ASSUME Truthful, Kept', NEW c \in Sockets, NEW slots \in 1 .. 2,
         NEW g \in GameIds, NEW game \in Game,
         connections[c] = NotConnected,
         next_player_id + slots - 1 <= MaxPlayerId,
         c \in game.sockets,
         \A d \in game.sockets \ {c} : Live(g) /\ d \in games_by_id[g].sockets,
         Enter(c, slots, g, game)
  PROVE  Truthful' /\ TellsTheGame
<1> DEFINE box == [inbox EXCEPT ![c] = Welcome(NewIds(slots))]
<1>1. /\ inbox \in [Sockets -> Inbox] /\ next_player_id \in PlayerIds
      /\ connections \in [Sockets -> {NotConnected} \cup PerSocketData]
      /\ games_by_id \in [GameIds -> {NoGame} \cup Game]
  BY DEF Truthful, Kept, Sound, SoundClients, SoundGames
<1>2. NewIds(slots) \in SUBSET PlayerIds
  BY <1>1 DEF NewIds, PlayerIds
<1>3. box \in [Sockets -> Inbox]
  BY <1>1, <1>2, WelcomeType
<1>4. inbox' = BroadcastLobby(box, game)
  BY DEF Enter
<1>5. \A d \in Sockets \ {c} : box[d] = inbox[d]
  BY <1>1
<1> HIDE DEF box
<1>6. /\ Told(inbox', game)
      /\ \A d \in game.sockets : inbox'[d].lobby = LobbyUpdate(game)
      /\ \A d \in Sockets \ game.sockets : inbox'[d] = inbox[d]
  <2>1. \A d \in Sockets \ game.sockets : box[d] = inbox[d]
    BY <1>5
  <2> QED
    BY <1>3, <1>4, <2>1, BroadcastTells
<1>7. /\ games_by_id'[g] = game /\ Live(g)'
      /\ \A h \in GameIds \ {g} : games_by_id'[h] = games_by_id[h]
      /\ \A d \in Sockets \ {c} : connections'[d] = connections[d]
      /\ next_player_id' = next_player_id + slots
  BY <1>1, NoGameAssumption DEF Enter, Live
<1>8. TellsTheGame
  BY <1>6, <1>7 DEF TellsTheGame
<1>9. next_player_id' <= MaxPlayerId + 1
  BY <1>1, <1>7, BoundsAssumption DEF PlayerIds
<1>10. ASSUME NEW h \in GameIds \ {g}, Live(h),
              NEW d \in games_by_id[h].sockets
       PROVE  d \in Sockets \ game.sockets
  <2>1. /\ d \in Sockets /\ connections[d] # NotConnected
        /\ connections[d].game_id = h
    BY <1>10, SocketsNameTheirGame DEF Truthful
  <2>2. \A e \in game.sockets \ {c} : connections[e].game_id = g
    BY SocketsNameTheirGame DEF Truthful
  <2> QED
    BY <2>1, <2>2
<1>11. \A h \in GameIds \ {g} : Live(h) =>
         \A d \in games_by_id[h].sockets : inbox'[d].lobby = inbox[d].lobby
  BY <1>6, <1>10
<1> QED
  BY <1>6, <1>7, <1>8, <1>9, <1>11, OneGameIsTold

\* .open, joining a game or creating one.
LEMMA OpenTells ==
  ASSUME Truthful, NEW c \in Sockets, Open(c)
  PROVE  Truthful' /\ TellsTheGame
<1>1. PICK kind \in Kinds, slots \in 1 .. 2 :
        OpenJoining(c, kind, slots) \/ OpenCreating(c, kind, slots)
  BY DEF Open, MaxPlayersPerClient
<1>2. Kept /\ Kept'
  BY <1>1, OpenJoiningSeats, OpenCreatingSeats DEF Truthful
<1>3. /\ connections[c] = NotConnected
      /\ next_player_id + slots - 1 <= MaxPlayerId
  BY <1>1 DEF OpenJoining, OpenCreating, OpenGuard
<1>4. CASE OpenJoining(c, kind, slots)
  <2> DEFINE g == Min(Joinable(kind, slots))
             new == AddConnection(games_by_id[g], c, NewIds(slots))
  <2>1. g \in Joinable(kind, slots)
    <3>1. Joinable(kind, slots) \in SUBSET Nat
      BY <1>2 DEF Joinable, Kept, Sound, SoundGames, GameIds
    <3> QED
      BY <1>4, <3>1, MinOfNaturals DEF OpenJoining
  <2>2. g \in GameIds /\ Live(g)
    BY <1>2, <2>1 DEF Joinable, Kept, Sound, SoundGames
  <2>3. new.sockets = games_by_id[g].sockets \cup {c}
    BY <1>2, <2>2, SocketsNameTheirGame, AddConnectionSockets
  <2>4. Enter(c, slots, g, new)
    BY <1>4 DEF OpenJoining
  <2> HIDE DEF g
  <2>5. new \in Game
    <3>1. /\ WellSeated(games_by_id[g]) /\ ~ games_by_id[g].is_running
          /\ HasRoomFor(games_by_id[g].kind, games_by_id[g].players, slots)
      BY <1>2, <2>1, <2>2, SocketsNameTheirGame DEF Joinable, Accepts
    <3>2. WellSeated(new)
      BY <1>2, <2>2, <3>1, NewConnectionSeats, IdsAreFresh
    <3> QED
      BY <3>2 DEF WellSeated, SoundGame
  <2> HIDE DEF new
  <2> QED
    BY <1>2, <1>3, <2>2, <2>3, <2>4, <2>5, EnterTells
<1>5. CASE OpenCreating(c, kind, slots)
  <2> DEFINE g == next_game_id
             old == CreateGame(kind)
             new == AddConnection(old, c, NewIds(slots))
  <2>1. g \in GameIds
    BY <1>2, <1>5, BoundsAssumption
       DEF OpenCreating, Kept, Sound, SoundGames, GameIds
  <2>2. SoundGame(old) /\ old.kind = kind /\ ~ old.is_running
        /\ old.sockets = {} /\ Seated(old.players) = {}
    BY CreateGameIsSound DEF CreateGame
  <2>3. HasRoomFor(old.kind, old.players, slots)
    BY <1>5, <2>2, NewGameHasRoom DEF OpenCreating, OpenGuard
  <2>4. Enter(c, slots, g, new)
    BY <1>5 DEF OpenCreating
  <2> HIDE DEF old
  <2>5. /\ WellSeated(old) /\ IdsBelow(old.players, next_player_id)
    BY <2>2 DEF WellSeated, OneSeatEach, IdsBelow
  <2>6. WellSeated(new) /\ new.sockets = {c}
    BY <1>2, <2>2, <2>3, <2>5, NewConnectionSeats
  <2>7. new \in Game
    BY <2>6 DEF WellSeated, SoundGame
  <2> HIDE DEF g, new
  <2> QED
    BY <1>2, <1>3, <2>1, <2>4, <2>6, <2>7, EnterTells
<1> QED
  BY <1>1, <1>4, <1>5

\* .close tells those that stay in a lobby; in a match they know it started.
LEMMA CloseTells ==
  ASSUME Truthful, NEW c \in Sockets, Close(c)
  PROVE  Truthful' /\ TellsTheGame
<1>1. /\ Kept /\ Kept'
      /\ inbox \in [Sockets -> Inbox]
      /\ connections \in [Sockets -> {NotConnected} \cup PerSocketData]
      /\ games_by_id \in [GameIds -> {NoGame} \cup Game]
  BY CloseSeats DEF Truthful, Kept, Sound, SoundClients, SoundGames
<1>2. ASSUME NEW box \in [Sockets -> Inbox], Disconnect(c, box)
      PROVE  /\ inbox'[c].lobby = NoLobby
             /\ \A d \in Sockets \ {c} : /\ inbox'[d] = box[d]
                                         /\ connections'[d] = connections[d]
  BY <1>1, <1>2 DEF Disconnect, Welcome
<1>3. CASE CloseAfterGame(c)
  <2>1. /\ UNCHANGED <<games_by_id, next_player_id>>
        /\ Disconnect(c, inbox)
        /\ connections[c] # NotConnected
        /\ \A g \in GameIds : ~ InGame(c, g)
    BY <1>3 DEF CloseAfterGame
  <2>2. \A g \in GameIds : Live(g) =>
          \A d \in games_by_id[g].sockets : d \in Sockets \ {c}
    BY <1>1, <2>1 DEF Kept, SeatedGame
  <2>3. \A d \in Sockets \ {c} : /\ inbox'[d] = inbox[d]
                                 /\ connections'[d] = connections[d]
    BY <1>1, <1>2, <2>1
  <2>4. inbox'[c].lobby = NoLobby
    BY <1>1, <1>2, <2>1
  <2> QED
    BY <1>1, <2>1, <2>2, <2>3, <2>4 DEF Truthful, Told, TellsTheGame, Live
<1>4. ASSUME NEW g \in GameIds, InGame(c, g)
      PROVE  /\ Live(g)
             /\ \A h \in GameIds \ {g} : Live(h) =>
                  \A d \in games_by_id[h].sockets :
                    d \in Sockets \ games_by_id[g].sockets
             /\ c \in games_by_id[g].sockets
  BY <1>1, <1>4, SocketsNameTheirGame DEF InGame, Kept, SeatedGame
<1>5. CASE CloseLast(c)
  <2>1. PICK g \in GameIds :
          /\ InGame(c, g)
          /\ Destroy({g}, games_by_id)
          /\ Disconnect(c, inbox)
          /\ UNCHANGED next_player_id
    BY <1>5 DEF CloseLast
  <2>2. /\ ~ Live(g)'
        /\ \A h \in GameIds \ {g} : games_by_id'[h] = games_by_id[h]
    BY <2>1 DEF Destroy, Live
  <2>3. TellsTheGame
    BY <1>1, <1>2, <2>1 DEF TellsTheGame
  <2>4. \A h \in GameIds \ {g} : Live(h) =>
          \A d \in games_by_id[h].sockets : inbox'[d].lobby = inbox[d].lobby
    BY <1>1, <1>2, <1>4, <2>1
  <2>5. next_player_id' <= MaxPlayerId + 1
    BY <2>1 DEF Truthful
  <2> QED
    BY <1>1, <2>2, <2>3, <2>4, <2>5, OneGameIsTold
<1>6. CASE CloseOne(c)
  <2> DEFINE game(g) == RemoveConnection(games_by_id[g], c)
             box(g) == IF ~ game(g).is_over /\ ~ game(g).is_running
                       THEN BroadcastLobby(inbox, game(g)) ELSE inbox
  <2>1. PICK g \in GameIds :
          /\ InGame(c, g)
          /\ games_by_id' = [games_by_id EXCEPT ![g] = game(g)]
          /\ Disconnect(c, box(g))
          /\ UNCHANGED next_player_id
    BY <1>6 DEF CloseOne
  <2>2. PICK old : old = games_by_id[g]
    OBVIOUS
  <2>3. PICK new : new = game(g)
    OBVIOUS
  <2>4. Live(g) /\ old \in Game /\ SoundGame(old) /\ Told(inbox, old)
    BY <1>1, <1>4, <2>1, <2>2 DEF Truthful, Kept, SeatedGame, WellSeated, SoundGame
  <2>5. /\ new \in Game /\ ~ new.is_over
        /\ new.sockets = old.sockets \ {c}
        /\ new.is_running = old.is_running
    <3>1. new \in Game /\ ~ new.is_over
      BY <2>2, <2>3, <2>4, RemoveConnectionIsSound DEF SoundGame
    <3> QED
      BY <2>2, <2>3, <2>4, <3>1 DEF RemoveConnection, Game
  <2>6. /\ games_by_id'[g] = new /\ Live(g)'
        /\ \A h \in GameIds \ {g} : games_by_id'[h] = games_by_id[h]
    BY <1>1, <2>1, <2>3, <2>5, NoGameAssumption DEF Live
  <2> DEFINE sent == IF ~ new.is_running THEN BroadcastLobby(inbox, new)
                                         ELSE inbox
  <2>7. Disconnect(c, sent)
    BY <2>1, <2>3, <2>5
  <2> HIDE DEF game, box
  <2>8. sent \in [Sockets -> Inbox]
    BY <1>1, <2>5, BroadcastLobbyType
  <2>9. /\ \A d \in Sockets \ new.sockets : sent[d] = inbox[d]
        /\ Told(sent, new)
        /\ \A d \in new.sockets : \/ sent[d].lobby = inbox[d].lobby
                                  \/ sent[d].lobby = LobbyUpdate(new)
    <3>1. CASE ~ new.is_running
      BY <1>1, <2>5, <3>1, BroadcastTells
    <3>2. CASE new.is_running
      BY <2>4, <2>5, <3>2 DEF Told, Tells
    <3> QED
      BY <3>1, <3>2
  <2> HIDE DEF sent
  <2>10. /\ inbox'[c].lobby = NoLobby
         /\ \A d \in Sockets \ {c} : /\ inbox'[d] = sent[d]
                                     /\ connections'[d] = connections[d]
    BY <1>2, <2>7, <2>8
  <2>11. new.sockets \subseteq Sockets \ {c}
    BY <2>5 DEF Game
  <2>12. Told(inbox', new)
    BY <2>9, <2>10, <2>11 DEF Told
  <2>13. TellsTheGame
    BY <2>6, <2>9, <2>10, <2>11 DEF TellsTheGame
  <2>14. \A h \in GameIds \ {g} : Live(h) =>
          \A d \in games_by_id[h].sockets : inbox'[d].lobby = inbox[d].lobby
    BY <1>4, <2>1, <2>2, <2>5, <2>9, <2>10
  <2>15. next_player_id' <= MaxPlayerId + 1
    BY <2>1 DEF Truthful
  <2> QED
    BY <1>1, <2>6, <2>12, <2>13, <2>14, <2>15, OneGameIsTold
<1> QED
  BY <1>3, <1>5, <1>6 DEF Close

\* The timer tells nobody of a lobby.
LEMMA TickTells ==
  ASSUME Truthful, Tick
  PROVE  /\ Truthful' /\ UNCHANGED connections
         /\ \A c \in Sockets : inbox'[c].lobby = inbox[c].lobby
<1>1. Kept /\ Kept'
  BY TickSeats DEF Truthful
<1>2. PICK ending \in SUBSET {g \in LiveGames : games_by_id[g].is_running} :
        LET updated == [g \in GameIds |->
                          IF Live(g) THEN Update(games_by_id[g], g \in ending)
                                     ELSE NoGame]
            finished == {g \in LiveGames : updated[g].is_over}
        IN  /\ Destroy(finished, updated)
            /\ inbox' = [c \in Sockets |->
                           IF \E g \in ending : c \in games_by_id[g].sockets
                           THEN [inbox[c] EXCEPT !.ended = TRUE] ELSE inbox[c]]
            /\ UNCHANGED <<connections, next_player_id, next_game_id>>
  BY DEF Tick
<1>3. inbox \in [Sockets -> Inbox]
  BY <1>1 DEF Kept, Sound, SoundClients
<1>4. \A c \in Sockets : inbox'[c].lobby = inbox[c].lobby
  BY <1>2, <1>3 DEF Inbox
<1>5. ASSUME NEW g \in GameIds, Live(g)'
      PROVE  /\ Live(g)
             /\ games_by_id'[g].players = games_by_id[g].players
             /\ games_by_id'[g].sockets = games_by_id[g].sockets
             /\ games_by_id'[g].is_running = games_by_id[g].is_running
             /\ games_by_id'[g].kind = games_by_id[g].kind
  <2>1. Live(g) /\ games_by_id'[g] = Update(games_by_id[g], g \in ending)
    BY <1>2, <1>5 DEF Destroy, Live
  <2> DEFINE game == games_by_id[g]
  <2>2. SoundGame(game) /\ game \in Game
    BY <1>1, <2>1 DEF Kept, Sound, SoundGames, SoundGame
  <2>3. ~ games_by_id'[g].is_over
    BY <1>1, <1>5 DEF Kept, Sound, SoundGames, SoundGame
  <2> HIDE DEF game
  <2>4. CASE ~ game.is_running
    BY <2>1, <2>4 DEF Update, game
  <2>5. CASE game.is_running
    <3>1. Update(game, g \in ending)
            = [game EXCEPT !.sim = [@ EXCEPT !.over = (g \in ending)],
                           !.is_running = ~(g \in ending),
                           !.is_over = (g \in ending)]
      BY <2>5 DEF Update
    <3>2. games_by_id'[g] = Update(game, g \in ending)
      BY <2>1 DEF game
    <3>3. g \notin ending
      BY <2>2, <2>3, <3>1, <3>2 DEF Game
    <3> QED
      BY <2>1, <2>2, <2>5, <3>1, <3>2, <3>3 DEF Game, game
  <2> QED
    BY <2>4, <2>5
<1>6. ASSUME NEW g \in GameIds, Live(g)'
      PROVE  Told(inbox', games_by_id'[g])
  <2>1. LobbyUpdate(games_by_id'[g]) = LobbyUpdate(games_by_id[g])
    BY <1>5, <1>6 DEF LobbyUpdate
  <2>2. games_by_id[g].sockets \subseteq Sockets /\ Told(inbox, games_by_id[g])
    BY <1>5, <1>6, SocketsNameTheirGame DEF Truthful
  <2> QED
    BY <1>4, <1>5, <1>6, <2>1, <2>2 DEF Told, Tells
<1> QED
  BY <1>1, <1>2, <1>4, <1>6 DEF Truthful

\* Every callback of the server keeps Truthful.
LEMMA EveryStepTells ==
  ASSUME Truthful, [Next]_vars
  PROVE  Truthful'
<1>1. CASE UNCHANGED vars
  <2>1. UNCHANGED <<connections, games_by_id, next_player_id, inbox>> /\ Kept'
    BY <1>1 DEF vars, Truthful, Kept, Sound, SoundGames, SoundClients,
                KnownClient, SeatedGame, InGame, Live
  <2> QED
    BY <2>1 DEF Truthful, Told, Live
<1> QED
  BY <1>1, MessageTells, OpenTells, CloseTells, TickTells DEF Next

\* Before anybody has connected nobody was told anything.
LEMMA TruthfulAtFirst == Init => Truthful
<1> SUFFICES ASSUME Init PROVE Truthful
  OBVIOUS
<1>1. Kept
  BY KeptAtFirst
<1> QED
  BY <1>1, BoundsAssumption DEF Truthful, Init, Live, Welcome

-----------------------------------------------------------------------------
(* The channels. *)

\* The lobbies a client may be shown; nobody in one has an id out of bounds.
LobbyShown ==
  {NoLobby} \cup
  {lobby \in LobbyFrame : \A p \in lobby.players : p.id \in 1 .. MaxPlayerId}

\* The frames a client sends.
UpFrames ==
  [type : {"READY"}, id : 1 .. MaxPlayerId, ready : BOOLEAN,
   seen : SUBSET (PlayerIds \X ({NoTeam} \cup TeamIds))]
  \cup [type : {"SWITCH_TEAM"}, id : 1 .. MaxPlayerId, target : TeamIds]

\* The frames on their way down end with what the server told last, and none
\* outlives its connection.
ChannelsAreTrue ==
  /\ up \in [Sockets -> Seq(UpFrames)]
  /\ down \in [Sockets -> Seq(LobbyShown)]
  /\ view \in [Sockets -> LobbyShown]
  /\ \A c \in Sockets :
       /\ inbox[c].lobby \in LobbyShown
       /\ LastSent(c) = inbox[c].lobby
       /\ connections[c] = NotConnected => down[c] = <<>> /\ view[c] = NoLobby

\* The inductive invariant of the system.
Connected == Truthful /\ ChannelsAreTrue

\* A lobby whose players have ids in bounds may be shown.
LEMMA UpdatesAreShown ==
  ASSUME NEW game \in Game, NEW n \in Nat, n <= MaxPlayerId + 1,
         IdsBelow(game.players, n)
  PROVE  LobbyUpdate(game) \in LobbyShown
<1>1. \A s \in Seated(game.players) : game.players[s].id \in 1 .. MaxPlayerId
  <2>1. \A s \in Seated(game.players) : game.players[s].id \in PlayerIds
    BY DEF Game, Seating, Seated, PlayerConnection
  <2> QED
    BY <2>1, BoundsAssumption DEF IdsBelow, PlayerIds
<1>2. LobbyUpdate(game) \in LobbyFrame
  BY LobbyUpdateType
<1>3. \A p \in LobbyUpdate(game).players : p.id \in 1 .. MaxPlayerId
  BY <1>1 DEF LobbyUpdate
<1> QED
  BY <1>2, <1>3 DEF LobbyShown

IdsInBounds ==
  \A g \in GameIds : Live(g) => IdsBelow(games_by_id[g].players, next_player_id)

\* The ids of every game are below the next one.
LEMMA AllIdsAreFresh == Kept => IdsInBounds
<1> QED
  BY IdsAreFresh DEF IdsInBounds

\* Whatever a callback tells a socket of is fit to be shown.
LEMMA ToldIsShown ==
  ASSUME Truthful', TellsTheGame, ChannelsAreTrue
  PROVE  \A c \in Sockets : inbox'[c].lobby \in LobbyShown
<1>1. ASSUME NEW g \in GameIds, Live(g)'
      PROVE  LobbyUpdate(games_by_id'[g]) \in LobbyShown
  <2>1. /\ IdsBelow(games_by_id'[g].players, next_player_id')
        /\ games_by_id'[g] \in Game
        /\ next_player_id' \in Nat /\ next_player_id' <= MaxPlayerId + 1
    <3>1. Kept' => IdsInBounds'
      BY AllIdsAreFresh, PTL
    <3> QED
      BY <1>1, <3>1
         DEF Truthful, Kept, Sound, SoundGames, SoundClients, PlayerIds, Live,
             IdsInBounds
  <2> QED
    BY <2>1, UpdatesAreShown
<1> QED
  BY <1>1 DEF TellsTheGame, ChannelsAreTrue, LobbyShown

\* Where the callback leaves a client connected or lets it in, its channel
\* ends with what it was told.
LEMMA BroadcastKeepsChannel ==
  ASSUME Connected, Truthful', TellsTheGame, Broadcast,
         NEW c \in Sockets, view'[c] = view[c],
         connections'[c] = NotConnected => connections[c] = NotConnected
  PROVE  /\ down'[c] \in Seq(LobbyShown)
         /\ LastSent(c)' = inbox'[c].lobby
         /\ connections'[c] = NotConnected => down'[c] = <<>> /\ view'[c] = NoLobby
<1>1. inbox'[c].lobby \in LobbyShown
  BY ToldIsShown DEF Connected
<1>2. /\ down[c] \in Seq(LobbyShown)
      /\ LastSent(c) = inbox[c].lobby
      /\ connections[c] = NotConnected => down[c] = <<>> /\ view[c] = NoLobby
  BY DEF Connected, ChannelsAreTrue
<1>3. down'[c] = IF connections'[c] = NotConnected THEN <<>>
                 ELSE IF inbox'[c].lobby # inbox[c].lobby
                      THEN Append(down[c], inbox'[c].lobby)
                      ELSE down[c]
  BY DEF Broadcast
<1>4. CASE connections'[c] = NotConnected
  <2>1. down'[c] = <<>> /\ view'[c] = NoLobby /\ inbox'[c].lobby = NoLobby
    BY <1>2, <1>3, <1>4 DEF Truthful
  <2> QED
    BY <2>1 DEF LastSent
<1>5. CASE connections'[c] # NotConnected /\ inbox'[c].lobby # inbox[c].lobby
  <2> DEFINE sent == Append(down[c], inbox'[c].lobby)
  <2>1. down'[c] = sent
    BY <1>3, <1>5
  <2>2. /\ sent \in Seq(LobbyShown) /\ Len(sent) = Len(down[c]) + 1
        /\ sent[Len(sent)] = inbox'[c].lobby
    BY <1>1, <1>2, AppendProperties
  <2>3. sent # <<>>
    BY <1>2, <2>2, LenProperties, EmptySeq
  <2> HIDE DEF sent
  <2> QED
    BY <1>5, <2>1, <2>2, <2>3 DEF LastSent
<1>6. CASE connections'[c] # NotConnected /\ inbox'[c].lobby = inbox[c].lobby
  <2>1. down'[c] = down[c]
    BY <1>3, <1>6
  <2> QED
    BY <1>2, <1>6, <2>1 DEF LastSent
<1> QED
  BY <1>4, <1>5, <1>6

-----------------------------------------------------------------------------
(* The steps of the system. *)

\* A frame read is a lobby message of that client, or changes nothing.
LEMMA ReadIsMessage ==
  ASSUME Connected, NEW c \in Sockets, ServerReads(c)
  PROVE  Message(c) \/ UNCHANGED vars
<1> DEFINE frame == Head(up[c])
<1>1. frame \in UpFrames
  BY HeadTailProperties DEF ServerReads, Connected, ChannelsAreTrue
<1>2. Reads(c, frame)
  BY DEF ServerReads
<1> HIDE DEF frame
<1>3. /\ frame.id \in 1 .. MaxPlayerId
      /\ frame.type = "READY" => frame.ready \in BOOLEAN
      /\ frame.type = "SWITCH_TEAM" => frame.target \in 1 .. MaxTeams + 1
  BY <1>1, LimitsAssumption DEF UpFrames, TeamIds
<1> QED
  BY <1>2, <1>3 DEF Reads, Message

\* Every step of the system is a callback of the server or leaves it alone:
\* the clients drive it by its callbacks only.
LEMMA SystemStepIsServerStep ==
  ASSUME Connected, [SystemNext]_systemVars
  PROVE  [Next]_vars
<1>1. ASSUME NEW c \in Sockets,
             ClickReady(c) \/ ClickSwitch(c) \/ Receive(c)
      PROVE  UNCHANGED vars
  BY <1>1 DEF ClickReady, ClickSwitch, Receive, Send
<1>2. ASSUME NEW c \in Sockets, ServerReads(c)
      PROVE  Message(c) \/ UNCHANGED vars
  BY <1>2, ReadIsMessage
<1>3. ASSUME NEW c \in Sockets, Join(c) \/ Drop(c)
      PROVE  Open(c) \/ Close(c)
  BY <1>3 DEF Join, Drop
<1> QED
  BY <1>1, <1>2, <1>3 DEF SystemNext, Timer, systemVars, Next

\* What the callbacks do to the connections of those they do not concern.
LEMMA OthersStayConnected ==
  ASSUME Connected, NEW c \in Sockets
  PROVE  /\ Open(c) => \A d \in Sockets :
              connections'[d] = NotConnected => connections[d] = NotConnected
         /\ Message(c) => UNCHANGED connections
         /\ Close(c) => /\ connections'[c] = NotConnected
                        /\ \A d \in Sockets \ {c} : connections'[d] = connections[d]
<1>1. connections \in [Sockets -> {NotConnected} \cup PerSocketData]
  BY DEF Connected, Truthful, Kept, Sound, SoundClients
<1>2. ASSUME Open(c), NEW d \in Sockets, connections'[d] = NotConnected
      PROVE  connections[d] = NotConnected
  BY <1>1, <1>2 DEF Open, OpenJoining, OpenCreating, OpenGuard, Enter
<1>3. ASSUME Message(c)
      PROVE  UNCHANGED connections
  BY <1>3 DEF Message, MessageReady, MessageSwitchTeam, Handled
<1>4. ASSUME Close(c)
      PROVE  /\ connections'[c] = NotConnected
             /\ \A d \in Sockets \ {c} : connections'[d] = connections[d]
  <2>1. connections' = [connections EXCEPT ![c] = NotConnected]
    BY <1>4 DEF Close, CloseAfterGame, CloseLast, CloseOne, Disconnect
  <2> QED
    BY <1>1, <2>1
<1> QED
  BY <1>2, <1>3, <1>4

\* A client joins: everybody it changes the lobby of gets the new one.
LEMMA JoinKeepsChannels ==
  ASSUME Connected, NEW c \in Sockets, Join(c)
  PROVE  Connected'
<1>1. Truthful' /\ TellsTheGame
  BY OpenTells DEF Join, Connected
<1>2. ASSUME NEW d \in Sockets
      PROVE  /\ view'[d] = view[d]
             /\ connections'[d] = NotConnected => connections[d] = NotConnected
  BY <1>2, OthersStayConnected DEF Join
<1>3. ASSUME NEW d \in Sockets
      PROVE  /\ down'[d] \in Seq(LobbyShown)
             /\ LastSent(d)' = inbox'[d].lobby
             /\ connections'[d] = NotConnected
                  => down'[d] = <<>> /\ view'[d] = NoLobby
  BY <1>1, <1>2, BroadcastKeepsChannel DEF Join
<1>4. \A d \in Sockets : inbox'[d].lobby \in LobbyShown
  BY <1>1, ToldIsShown DEF Connected
<1>5. up' = up /\ view' = view /\ down' \in [Sockets -> Seq(LobbyShown)]
  BY <1>3 DEF Join, Broadcast
<1> QED
  BY <1>1, <1>3, <1>4, <1>5 DEF Connected, ChannelsAreTrue

\* The server reads a frame.
LEMMA ReadKeepsChannels ==
  ASSUME Connected, NEW c \in Sockets, ServerReads(c)
  PROVE  Connected'
<1>1. Truthful' /\ TellsTheGame /\ UNCHANGED connections
  <2>1. CASE Message(c)
    BY <2>1, MessageTells, OthersStayConnected DEF Connected
  <2>2. CASE UNCHANGED vars
    BY <2>2, EveryStepTells DEF Connected, TellsTheGame, vars
  <2> QED
    BY <2>1, <2>2, ReadIsMessage
<1>2. ASSUME NEW d \in Sockets
      PROVE  /\ down'[d] \in Seq(LobbyShown)
             /\ LastSent(d)' = inbox'[d].lobby
             /\ connections'[d] = NotConnected
                  => down'[d] = <<>> /\ view'[d] = NoLobby
  BY <1>1, <1>2, BroadcastKeepsChannel DEF ServerReads
<1>3. \A d \in Sockets : inbox'[d].lobby \in LobbyShown
  BY <1>1, ToldIsShown DEF Connected
<1>4. view' = view /\ down' \in [Sockets -> Seq(LobbyShown)]
  BY <1>2 DEF ServerReads, Broadcast
<1>5. up' \in [Sockets -> Seq(UpFrames)]
  <2>1. Tail(up[c]) \in Seq(UpFrames)
    BY HeadTailProperties DEF ServerReads, Connected, ChannelsAreTrue
  <2> QED
    BY <2>1 DEF ServerReads, Connected, ChannelsAreTrue
<1> QED
  BY <1>1, <1>2, <1>3, <1>4, <1>5 DEF Connected, ChannelsAreTrue

\* A client is gone, and its frames with it.
LEMMA DropKeepsChannels ==
  ASSUME Connected, NEW c \in Sockets, Drop(c)
  PROVE  Connected'
<1>1. Truthful' /\ TellsTheGame
  BY CloseTells DEF Drop, Connected
<1>2. /\ connections'[c] = NotConnected
      /\ \A d \in Sockets \ {c} : connections'[d] = connections[d]
  BY OthersStayConnected DEF Drop
<1>3. /\ view \in [Sockets -> LobbyShown]
      /\ view' = [view EXCEPT ![c] = NoLobby]
      /\ view' \in [Sockets -> LobbyShown]
      /\ up' \in [Sockets -> Seq(UpFrames)]
  BY EmptySeq DEF Drop, Connected, ChannelsAreTrue, LobbyShown
<1>4. ASSUME NEW d \in Sockets \ {c}
      PROVE  /\ down'[d] \in Seq(LobbyShown)
             /\ LastSent(d)' = inbox'[d].lobby
             /\ connections'[d] = NotConnected
                  => down'[d] = <<>> /\ view'[d] = NoLobby
  <2>1. view'[d] = view[d] /\ connections'[d] = connections[d] /\ Broadcast
    BY <1>2, <1>3 DEF Drop
  <2> QED
    BY <1>1, <2>1, BroadcastKeepsChannel
<1>5. /\ down'[c] = <<>> /\ view'[c] = NoLobby /\ inbox'[c].lobby = NoLobby
      /\ down'[c] \in Seq(LobbyShown)
  BY <1>1, <1>2, <1>3, EmptySeq DEF Drop, Broadcast, Truthful
<1>6. LastSent(c)' = inbox'[c].lobby
  BY <1>5 DEF LastSent
<1>7. \A d \in Sockets : inbox'[d].lobby \in LobbyShown
  BY <1>1, ToldIsShown DEF Connected
<1>8. down' \in [Sockets -> Seq(LobbyShown)]
  BY <1>4, <1>5 DEF Drop, Broadcast
<1> QED
  BY <1>1, <1>3, <1>4, <1>5, <1>6, <1>7, <1>8 DEF Connected, ChannelsAreTrue

\* A client sends a frame, and the server has not heard of it yet.
LEMMA SendKeepsChannels ==
  ASSUME Connected, NEW c \in Sockets, NEW frame \in UpFrames, Send(c, frame)
  PROVE  Connected'
<1>1. UNCHANGED vars /\ UNCHANGED <<down, view>>
  BY DEF Send
<1>2. Truthful'
  BY <1>1, EveryStepTells DEF Connected
<1>3. up' \in [Sockets -> Seq(UpFrames)]
  <2>1. Append(up[c], frame) \in Seq(UpFrames)
    BY AppendProperties DEF Connected, ChannelsAreTrue
  <2> QED
    BY <2>1 DEF Send, Connected, ChannelsAreTrue
<1> QED
  BY <1>1, <1>2, <1>3 DEF Connected, ChannelsAreTrue, LastSent, vars

\* A client reads the oldest frame on its way to it.
LEMMA ReceiveKeepsChannels ==
  ASSUME Connected, NEW c \in Sockets, Receive(c)
  PROVE  Connected'
<1> DEFINE s == down[c]
<1>1. UNCHANGED vars /\ UNCHANGED up
  BY DEF Receive
<1>2. Truthful'
  BY <1>1, EveryStepTells DEF Connected
<1>3. s \in Seq(LobbyShown) /\ s # <<>>
  BY DEF Connected, ChannelsAreTrue, Receive
<1>4. /\ Head(s) \in LobbyShown /\ Tail(s) \in Seq(LobbyShown)
      /\ Len(Tail(s)) = Len(s) - 1
      /\ \A i \in 1 .. Len(Tail(s)) : Tail(s)[i] = s[i + 1]
      /\ Len(s) \in Nat \ {0}
  BY <1>3, HeadTailProperties, EmptySeq
<1>5. ASSUME Tail(s) = <<>>
      PROVE  s[Len(s)] = Head(s)
  <2>1. Len(Tail(s)) = 0
    BY <1>5, EmptySeq
  <2>2. Len(s) = 1
    BY <1>4, <2>1
  <2>3. Head(s) = s[1]
    OBVIOUS
  <2> QED
    BY <2>2, <2>3
<1>6. Tail(s) # <<>> => Tail(s)[Len(Tail(s))] = s[Len(s)]
  <2>1. Tail(s) # <<>> => Len(Tail(s)) \in Nat \ {0}
    BY <1>4, EmptySeq
  <2> QED
    BY <1>4, <2>1
<1>7. /\ down' \in [Sockets -> Seq(LobbyShown)]
      /\ view' \in [Sockets -> LobbyShown]
      /\ down'[c] = Tail(s) /\ view'[c] = Head(s)
      /\ \A d \in Sockets \ {c} : down'[d] = down[d] /\ view'[d] = view[d]
  BY <1>4 DEF Connected, ChannelsAreTrue, Receive
<1>8. LastSent(c) = s[Len(s)] /\ LastSent(c)' = s[Len(s)]
  BY <1>3, <1>5, <1>6, <1>7 DEF LastSent
<1>9. connections[c] # NotConnected
  BY <1>3 DEF Connected, ChannelsAreTrue
<1> QED
  BY <1>1, <1>2, <1>7, <1>8, <1>9
     DEF Connected, ChannelsAreTrue, LastSent, vars

\* What a click sends names a player of the lobby the client sees.
LEMMA ClicksKeepChannels ==
  ASSUME Connected, NEW c \in Sockets, ClickReady(c) \/ ClickSwitch(c)
  PROVE  Connected'
<1>1. /\ view[c] \in LobbyFrame
      /\ \A p \in view[c].players : p.id \in 1 .. MaxPlayerId
  BY DEF ClickReady, ClickSwitch, InLobby, Connected, ChannelsAreTrue, LobbyShown
<1>2. CASE ClickReady(c)
  <2>1. PICK p \in view[c].players :
          Send(c, [type |-> "READY", id |-> p.id, ready |-> ~ p.is_ready,
                   seen |-> Placement(view[c])])
    BY <1>2 DEF ClickReady, OwnEntries
  <2>2. Placement(view[c]) \in SUBSET (PlayerIds \X ({NoTeam} \cup TeamIds))
    BY <1>1 DEF Placement, LobbyFrame
  <2>3. [type |-> "READY", id |-> p.id, ready |-> ~ p.is_ready,
         seen |-> Placement(view[c])] \in UpFrames
    BY <1>1, <2>1, <2>2 DEF UpFrames
  <2> QED
    BY <2>1, <2>3, SendKeepsChannels
<1>3. CASE ClickSwitch(c)
  <2>1. PICK g, p, target :
          /\ g \in GameIds /\ p \in view[c].players
          /\ InGame(c, g)
          /\ target \in TeamsOf(games_by_id[g].kind)
          /\ Send(c, [type |-> "SWITCH_TEAM", id |-> p.id, target |-> target])
    BY <1>3 DEF ClickSwitch, OwnEntries
  <2>2. target \in TeamIds
    <3>1. games_by_id[g].kind \in Kinds
      BY <2>1 DEF InGame, Live, Connected, Truthful, Kept, Sound, SoundGames,
                  SoundGame, Game
    <3>2. games_by_id[g].kind.team_count \in 0 .. MaxTeams
      BY <3>1, KindType DEF Kind
    <3> QED
      BY <2>1, <3>2, LimitsAssumption DEF TeamsOf, TeamIds
  <2>3. [type |-> "SWITCH_TEAM", id |-> p.id, target |-> target] \in UpFrames
    BY <1>1, <2>1, <2>2 DEF UpFrames
  <2> QED
    BY <2>1, <2>3, SendKeepsChannels
<1> QED
  BY <1>2, <1>3

\* The timer sends no lobby.
LEMMA TimerKeepsChannels ==
  ASSUME Connected, Timer
  PROVE  Connected'
<1>1. /\ Truthful' /\ UNCHANGED connections
      /\ \A c \in Sockets : inbox'[c].lobby = inbox[c].lobby
      /\ UNCHANGED <<up, down, view>>
  <2>1. Truthful /\ Tick
    BY DEF Timer, Connected
  <2>2. UNCHANGED <<up, down, view>>
    BY DEF Timer, channels
  <2> QED
    BY <2>1, <2>2, TickTells
<1> QED
  BY <1>1 DEF Connected, ChannelsAreTrue, LastSent

\* Before anybody has connected the channels are empty.
LEMMA ConnectedAtFirst == SystemInit => Connected
<1> SUFFICES ASSUME SystemInit PROVE Connected
  OBVIOUS
<1>1. Truthful
  BY TruthfulAtFirst DEF SystemInit
<1>2. \A c \in Sockets : /\ up[c] = <<>> /\ down[c] = <<>> /\ view[c] = NoLobby
                         /\ inbox[c].lobby = NoLobby
  BY DEF SystemInit, Init, Welcome
<1>3. /\ up \in [Sockets -> Seq(UpFrames)]
      /\ down \in [Sockets -> Seq(LobbyShown)]
      /\ view \in [Sockets -> LobbyShown]
  BY EmptySeq DEF SystemInit, LobbyShown
<1> QED
  BY <1>1, <1>2, <1>3 DEF Connected, ChannelsAreTrue, LastSent, LobbyShown

\* In every reachable state of the system, the clients and the frames on
\* their way included, the channels end with the lobby as the server told it.
THEOREM ConnectedIsInvariant == System => []Connected
<1>1. SystemInit => Connected
  BY ConnectedAtFirst
<1>2. Connected /\ [SystemNext]_systemVars => Connected'
  <2> SUFFICES ASSUME Connected, [SystemNext]_systemVars
               PROVE  Connected'
    OBVIOUS
  <2>1. CASE UNCHANGED systemVars
    <3>1. Truthful'
      BY <2>1, EveryStepTells DEF Connected, systemVars
    <3> QED
      BY <2>1, <3>1 DEF Connected, ChannelsAreTrue, LastSent, systemVars, vars,
                        channels
  <2> QED
    BY <2>1, TimerKeepsChannels, JoinKeepsChannels, DropKeepsChannels,
       ReadKeepsChannels, ClicksKeepChannels, ReceiveKeepsChannels
       DEF SystemNext
<1> QED
  BY <1>1, <1>2, PTL DEF System

\* The lobby screens and the connections only drive the server by its
\* callbacks: whatever is proved of the server holds of the whole system.
THEOREM SystemIsTheServer == System => Spec
<1>1. SystemInit => Init
  BY DEF SystemInit
<1>2. Connected /\ [SystemNext]_systemVars => [Next]_vars
  BY SystemStepIsServerStep
<1> QED
  BY <1>1, <1>2, ConnectedIsInvariant, PTL DEF System, Spec

\* Whatever is still on its way, the last LOBBY_UPDATE sent to each client of
\* a lobby shows it as it is; in a match it says the game has started.
THEOREM LastFramesAreTheTruth == System => []TheLastFrameIsTheTruth
<1>1. Connected => TheLastFrameIsTheTruth
  <2> SUFFICES ASSUME Connected, NEW g \in LiveGames,
                      NEW c \in games_by_id[g].sockets
               PROVE  Tells(LastSent(c), games_by_id[g])
    BY DEF TheLastFrameIsTheTruth
  <2>1. g \in GameIds /\ Live(g)
    BY DEF LiveGames
  <2>2. c \in Sockets
    BY <2>1, SocketsNameTheirGame DEF Connected, Truthful
  <2>3. LastSent(c) = inbox[c].lobby
    BY <2>2 DEF Connected, ChannelsAreTrue
  <2> QED
    BY <2>1, <2>3 DEF Connected, Truthful, Told
<1> QED
  BY <1>1, ConnectedIsInvariant, PTL

\* The system implements the promise, its clients and connections included.
THEOREM SystemImplementsPromise == System => KeepsPromise
<1> QED
  BY SystemIsTheServer, ServerImplementsPromise
=============================================================================
