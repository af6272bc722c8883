------------------------------- MODULE PvPSim -------------------------------
(***************************************************************************)
(* One running PvP match: PvPGameSim of shared/include/shared/sim/         *)
(* game_sim.h and game_sim.cpp, with the players and bullets it steps.     *)
(*                                                                         *)
(* A step is one call of step(): the players shoot, the bullets fly, hits  *)
(* are taken, the teams are judged.  Between steps the server may remove   *)
(* players.  Positions are abstracted: a player may press SHOOT and be off *)
(* its cooldown at any step, and an active bullet may leave the screen,    *)
(* meet a player of the side it flies to, or go on.  It cannot meet the    *)
(* side it came from: it starts 20 units ahead of its owner, beyond the    *)
(* hit boxes of that side, and flies away.                                 *)
(***************************************************************************)
EXTENDS Integers, FiniteSets, FiniteSetsExt, SimContract

CONSTANTS
  Players,       \* the players start() is given
  Team,          \* their team id
  InitialLives,  \* INITIAL_LIVES
  MaxBullets,    \* MAX_BULLETS
  NoBullet       \* an inactive slot of bullets_pool_

Teams == {Team[p] : p \in Players}
Pool == 1 .. MaxBullets

ASSUME PvPAssumption ==
  /\ IsFiniteSet(Players)
  /\ Team \in [Players -> Nat \ {0}]
  /\ InitialLives \in Nat \ {0}
  /\ MaxBullets \in Nat
  /\ Cardinality(Teams) <= 2  \* MAX_TEAMS
  /\ NoBullet \notin Players

VARIABLES
  present,  \* the players still in teams_
  lives,
  points,   \* in units of POINTS_PER_HIT
  bullets,  \* bullets_pool_: the owner of each active bullet
  outcome,  \* of each team
  phase     \* phase_

vars == <<present, lives, points, bullets, outcome, phase>>

Active == {b \in Pool : bullets[b] # NoBullet}

\* start(): everyone alive, nothing in the air.
Init ==
  /\ present = Players
  /\ lives = [p \in Players |-> InitialLives]
  /\ points = [p \in Players |-> 0]
  /\ bullets = [b \in Pool |-> NoBullet]
  /\ outcome = [t \in Teams |-> "PLAYING"]
  /\ phase = "PLAYERS_FIGHT"

Alive == {p \in present : lives[p] > 0}

-----------------------------------------------------------------------------
(* The parts of a step. *)

\* spawnBullet for each shooter: its bullet takes a slot that was inactive,
\* no two the same.  With the pool full the rest of the shots are lost.
Fired(shooters) ==
  LET free == Pool \ Active
  IN  {pool \in [Pool -> Players \cup {NoBullet}] :
         /\ \A b \in Active : pool[b] = bullets[b]
         /\ \A b \in free : pool[b] \in shooters \cup {NoBullet}
         /\ \A p \in shooters : Cardinality({b \in free : pool[b] = p}) <= 1
         /\ Cardinality({b \in free : pool[b] # NoBullet})
              = Min({Cardinality(free), Cardinality(shooters)})
         \* the first inactive slots
         /\ \A b, d \in free : b < d /\ pool[d] # NoBullet => pool[b] # NoBullet}

\* Faulty: players without lives are hit on.
HitsOnTheDead(pool) ==
  {hit \in [Pool -> present \cup {NoBullet}] :
     \A b \in Pool : hit[b] # NoBullet =>
       pool[b] # NoBullet /\ Team[hit[b]] # Team[pool[b]]}

\* checkCollisions: each bullet that hits takes one life of one player of
\* another team.  Bullets are taken in turn and a player without lives is
\* passed over, so nobody is hit more often than it has lives.
Hits(pool) ==
  LET flying == {b \in Pool : pool[b] # NoBullet}
  IN  {hit \in [Pool -> present \cup {NoBullet}] :
         /\ \A b \in Pool : hit[b] # NoBullet =>
              b \in flying /\ Team[hit[b]] # Team[pool[b]]
         /\ \A p \in present :
              Cardinality({b \in flying : hit[b] = p}) <= lives[p]}

HitsOn(hit, p) == Cardinality({b \in Pool : hit[b] = p})

\* Faulty: a shooter shot down is not credited for the bullets it left.
HitsByTheLiving(hit, pool, p) ==
  IF p \in Alive
  THEN Cardinality({b \in Pool : hit[b] # NoBullet /\ pool[b] = p}) ELSE 0

\* Only owners still in the match are credited.
HitsBy(hit, pool, p) ==
  IF p \in present
  THEN Cardinality({b \in Pool : hit[b] # NoBullet /\ pool[b] = p}) ELSE 0

\* A bullet that hit is spent.
SpentOrGone(pool, hit, gone) ==
  [b \in Pool |-> IF b \in gone \/ hit[b] # NoBullet THEN NoBullet ELSE pool[b]]

StandingTeams(lv) == {Team[p] : p \in {q \in present : lv[q] > 0}}

\* Faulty: the team hit first decides, a draw is not considered.
JudgeWithoutDraw(standing) ==
  IF standing = {} \/ Cardinality(standing) = 1
  THEN [over |-> TRUE,
        outcome |-> [t \in Teams |->
                       IF standing = {} \/ t \in standing
                       THEN "WON" ELSE "LOST"]]
  ELSE [over |-> FALSE, outcome |-> outcome]

\* Faulty: only the last team is judged, and it has won.
JudgeOnlySurvivors(standing) ==
  IF Cardinality(standing) = 1
  THEN [over |-> TRUE,
        outcome |-> [t \in Teams |-> IF t \in standing THEN "WON" ELSE "LOST"]]
  ELSE [over |-> FALSE, outcome |-> outcome]

\* No team standing is a draw; the only one standing has won.
Judge(standing) ==
  IF standing = {}
  THEN [over |-> TRUE, outcome |-> [t \in Teams |-> "DREW"]]
  ELSE IF Cardinality(standing) = 1
  THEN [over |-> TRUE,
        outcome |-> [t \in Teams |-> IF t \in standing THEN "WON" ELSE "LOST"]]
  ELSE [over |-> FALSE, outcome |-> outcome]

-----------------------------------------------------------------------------
(* The operations. *)

Step ==
  /\ phase = "PLAYERS_FIGHT"
  /\ \E shooters \in SUBSET Alive :
     \E pool \in Fired(shooters) :
     \E gone \in SUBSET {b \in Pool : pool[b] # NoBullet} :
     \E hit \in Hits([b \in Pool |-> IF b \in gone THEN NoBullet ELSE pool[b]]) :
       /\ lives' = [p \in Players |->
                      IF p \in present THEN lives[p] - HitsOn(hit, p)
                                       ELSE lives[p]]
       /\ points' = [p \in Players |-> points[p] + HitsBy(hit, pool, p)]
       /\ bullets' = SpentOrGone(pool, hit, gone)
       /\ LET verdict == Judge(StandingTeams(lives'))
          IN  /\ outcome' = verdict.outcome
              /\ phase' = IF verdict.over THEN "END" ELSE phase
  /\ UNCHANGED present

\* removePlayer: the player's bullets fly on.
RemovePlayer(p) ==
  /\ p \in present
  /\ present' = present \ {p}
  /\ UNCHANGED <<lives, points, bullets, outcome, phase>>

Next == Step \/ \E p \in Players : RemovePlayer(p)

Spec == Init /\ [][Next]_vars

\* The server's timer steps every running match; nobody has to leave.
FairSpec == Spec /\ WF_vars(Step)

-----------------------------------------------------------------------------
(* Properties. *)

\* The type invariant.
TypeOK ==
  /\ present \subseteq Players
  /\ lives \in [Players -> 0 .. InitialLives]
  /\ points \in [Players -> Nat]
  /\ bullets \in [Pool -> Players \cup {NoBullet}]
  /\ outcome \in [Teams -> {"PLAYING", "WON", "LOST", "DREW"}]
  /\ phase \in {"PLAYERS_FIGHT", "END"}

LivesLost(players) ==
  MapThenSumSet(LAMBDA p : InitialLives - lives[p], players)

PointsOf(players) == MapThenSumSet(LAMBDA p : points[p], players)

\* A hit is never scored twice: the players of a team, those included that
\* left with the points they had, hold no more credits than the other teams
\* lost lives.  It is scored: while nobody of the team has left they hold as
\* many, whoever of the others has.  A bullet that stayed active after its
\* hit, or hit two players, would count twice; one whose owner is shot down
\* counts still, and one whose owner has left for nobody.
EveryLifeLostIsScored ==
  \A t \in Teams :
    LET side == {p \in Players : Team[p] = t}
        lost == LivesLost(Players \ side)
    IN  /\ PointsOf(side) <= lost
        /\ side \subseteq present => PointsOf(side) = lost

\* A match ends with the verdict its survivors deserve, judged after every
\* hit of the same step: two teams that shoot each other down together draw.
VerdictMatchesSurvivors ==
  [][phase # "END" /\ phase' = "END" =>
       LET survivors == {p \in present' : lives'[p] > 0}
       IN  \A t \in Teams :
             CASE outcome'[t] = "WON"  -> /\ survivors # {}
                                          /\ \A p \in survivors : Team[p] = t
               [] outcome'[t] = "LOST" -> /\ survivors # {}
                                          /\ \A p \in survivors : Team[p] # t
               [] OTHER                -> survivors = {}]_vars

Contract ==
  [roster |-> [t \in Teams |-> {p \in present : Team[p] = t}],
   over |-> phase = "END"]

\* Every step and every removal is one the server's model allows.
KeepsSimContract ==
  [][\/ /\ Contract'.roster = Contract.roster
        /\ MayEndAs(Contract, Contract'.over, FALSE)
     \/ \E p \in present : Contract' = SimWithout(Contract, {p}, FALSE)]_vars

\* A match in which at most one team still has a living player is judged
\* soon.  Among others the one-team match the handshake accepts ends at its
\* first step.
UncontestedMatchEnds == (Cardinality(StandingTeams(lives)) <= 1) ~> (phase = "END")
=============================================================================
