---------------------------- MODULE SimContract -----------------------------
(***************************************************************************)
(* What a Game relies on of the simulation it holds (CoopGameSim or        *)
(* PvPGameSim of shared/): which players are in it, by team, and whether   *)
(* its phase is terminal (END, WON or GAME_OVER).  GameServer is built on  *)
(* these operators; PvPSim and CoopSim are checked to behave as they say.  *)
(***************************************************************************)
EXTENDS Naturals

NoTeam == 0

RosterWithout(roster, ids) == [t \in DOMAIN roster |-> roster[t] \ ids]

IsEmptyRoster(roster) == \A t \in DOMAIN roster : roster[t] = {}

\* removePlayer: a CoopGameSim left without players is GAME_OVER, a
\* PvPGameSim decides at its next step.
SimWithout(sim, ids, coop) ==
  LET roster == RosterWithout(sim.roster, ids)
  IN  [roster |-> roster,
       over |-> sim.over \/ (ids # {} /\ coop /\ IsEmptyRoster(roster))]

\* Somebody is left to play: two teams in PvP, one player in coop.
Contested(sim, coop) ==
  IF coop
  THEN ~IsEmptyRoster(sim.roster)
  ELSE \E t, u \in DOMAIN sim.roster :
         t # u /\ sim.roster[t] # {} /\ sim.roster[u] # {}

\* One step may bring any match to its end, must end one that is not
\* contested, and leaves one that is over as it is.
MayEndAs(sim, over, coop) == over \/ (~sim.over /\ Contested(sim, coop))
=============================================================================
