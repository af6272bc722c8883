------------------------- MODULE ServerKeepsPromise -------------------------
(***************************************************************************)
(* GameServer implements MatchPromise.  A lobby or a match is the set of   *)
(* sockets of a game; a client has agreed when its game waits and all its  *)
(* players there are ready.                                                *)
(***************************************************************************)
EXTENDS GameServer

WaitingGames == {g \in LiveGames : ~games_by_id[g].is_running}
RunningGames == {g \in LiveGames : games_by_id[g].is_running}

HasAgreed(c) ==
  \E g \in WaitingGames :
    LET game == games_by_id[g]
    IN  /\ c \in game.sockets
        /\ \A s \in SeatsOf(game.players, c) : game.players[s].is_ready

Promise == INSTANCE MatchPromise WITH
  Clients <- Sockets,
  lobbies <- {games_by_id[g].sockets : g \in WaitingGames},
  matches <- {games_by_id[g].sockets : g \in RunningGames},
  agreed  <- {c \in Sockets : HasAgreed(c)}

\* Every callback of the server is a step of the promise or changes nothing
\* the promise speaks of.
KeepsPromise == Promise!Spec
=============================================================================
