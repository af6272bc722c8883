------------------------------- MODULE CoopSim ------------------------------
(***************************************************************************)
(* One running coop match: CoopGameSim of shared/ with its enemies pool,   *)
(* its boss and the bullet pool they share.                                *)
(*                                                                         *)
(* Abstractions.  The grid of enemies is the number alive.  Positions,     *)
(* cooldowns and the boss's movement phases decide when someone fires and  *)
(* what a bullet meets; here both are free, within what the geometry       *)
(* allows: a bullet going up meets enemies or the boss, one going down     *)
(* meets players (the burst of the boss starts on its lower edge and moves *)
(* 15 units in its first step, out of the boss's hit box).  A descent is a *)
(* countdown of EntranceSteps.  An inactive slot keeps the type of its     *)
(* last bullet, as in the code; its owner is read by nobody.               *)
(***************************************************************************)
EXTENDS Integers, FiniteSets, FiniteSetsExt, SimContract

CONSTANTS
  Players,             \* the players start() is given
  InitialLives,        \* INITIAL_LIVES of a player
  Enemies,             \* the enemies init() marks alive
  BossLife,            \* max_health
  EntranceSteps,       \* steps a descent takes
  MaxBullets,          \* MAX_BULLETS
  SpreadShots,         \* spread_shot_bullets_count
  MaxSuccessiveShots,  \* MAX_SUCCESSIVE_SHOTS_BULLETS
  Nobody               \* not a player

Pool == 1 .. MaxBullets

ASSUME CoopAssumption ==
  /\ IsFiniteSet(Players) /\ Players # {}
  /\ Nobody \notin Players /\ "foe" \notin Players \cup {Nobody}
  /\ {InitialLives, Enemies, BossLife, EntranceSteps, MaxBullets, SpreadShots,
      MaxSuccessiveShots} \subseteq Nat \ {0}

VARIABLES
  phase,    \* phase_
  present,  \* the players still in players_
  lives,
  points,   \* in units of POINTS_PER_HIT
  enemies,  \* enemies alive
  counted,  \* alive_enemies_count
  descent,  \* steps left of the current entrance
  boss,     \* its health, shooting_pattern and phase2_bullets_shot
  bullets   \* bullets_pool_

vars == <<phase, present, lives, points, enemies, counted, descent, boss,
          bullets>>

Inactive(type) == [flies |-> "no", type |-> type, owner |-> Nobody]
IsActive(bullet) == bullet.flies # "no"
Free(pool) == {b \in Pool : ~IsActive(pool[b])}
Alive == {p \in present : lives[p] > 0}
Terminal == {"WON", "GAME_OVER"}

\* start(), BossSimState::init() and the value-initialised bullet pool.
Init ==
  /\ phase = "ENEMIES_ENTRANCE"
  /\ present = Players
  /\ lives = [p \in Players |-> InitialLives]
  /\ points = [p \in Players |-> 0]
  /\ enemies = Enemies
  /\ counted = 0
  /\ descent = EntranceSteps
  /\ boss = [health |-> BossLife, pattern |-> "SPREAD_SHOT", shots |-> 0]
  /\ bullets = [b \in Pool |-> Inactive("ENEMY")]

-----------------------------------------------------------------------------
(* Firing: every spawn function takes the first inactive slots. *)

FirstFree(pool, n) ==
  {b \in Free(pool) : Cardinality({d \in Free(pool) : d < b}) < n}

\* PlayerSimState::spawnBullet, once per shooter.
FiredByPlayers(shooters) ==
  LET taken == FirstFree(bullets, Cardinality(shooters))
  IN  {[b \in Pool |-> IF b \in taken
                       THEN [flies |-> "up", type |-> "PLAYER", owner |-> by[b]]
                       ELSE bullets[b]]
         : by \in {f \in [taken -> shooters] :
                     \A b, d \in taken : b # d => f[b] # f[d]}}

Hostile == [flies |-> "down", type |-> "ENEMY", owner |-> Nobody]

\* EnemySimState::spawnBullet of n enemies, and the fan of the boss.
FiredDown(pool, n) ==
  [b \in Pool |-> IF b \in FirstFree(pool, n) THEN Hostile ELSE pool[b]]

\* One shot of the boss's burst: position and velocity are set, the type of
\* the slot's last bullet stays.
FiredBurst(pool) ==
  [b \in Pool |-> IF b \in FirstFree(pool, 1)
                  THEN [pool[b] EXCEPT !.flies = "down"] ELSE pool[b]]

\* BossSimState::spawnBullets.
BossShoots(pool) ==
  IF boss.pattern = "SPREAD_SHOT"
  THEN [pool |-> FiredDown(pool, SpreadShots),
        boss |-> [boss EXCEPT !.pattern = "SUCCESSIVE_SHOTS"]]
  ELSE [pool |-> FiredBurst(pool),
        boss |-> IF boss.shots + 1 = MaxSuccessiveShots
                 THEN [boss EXCEPT !.pattern = "SPREAD_SHOT", !.shots = 0]
                 ELSE [boss EXCEPT !.shots = @ + 1]]

\* A step of the boss: it waits for a cooldown or shoots.
BossSteps(pool) == {[pool |-> pool, boss |-> boss], BossShoots(pool)}

-----------------------------------------------------------------------------
(* Bullets. *)

Deactivated(pool, gone) ==
  [b \in Pool |-> IF b \in gone THEN Inactive(pool[b].type) ELSE pool[b]]

\* BulletSimState::step of every active bullet: some leave the screen.
Flown(pool) ==
  {Deactivated(pool, gone) : gone \in SUBSET (Pool \ Free(pool))}

\* Faulty: the last life is not the end of a player.
AimsAtTheDead(pool, foes) ==
  LET aim == [b \in Pool |->
               IF pool[b].flies = "up" /\ pool[b].type = "PLAYER" THEN {"foe"}
               ELSE IF IsActive(pool[b]) /\ pool[b].type = "ENEMY" THEN present
               ELSE {}]
  IN  {hit \in [Pool -> present \cup {"foe", Nobody}] :
         /\ \A b \in Pool : hit[b] # Nobody => hit[b] \in aim[b]
         /\ Cardinality({b \in Pool : hit[b] = "foe"}) <= foes}

\* checkCollisions: what each bullet hits.  Bullets of type PLAYER hit foes,
\* the others players with lives left; each hits at most once.
Hits(pool, foes) ==
  LET aim == [b \in Pool |->
               IF pool[b].flies = "up" /\ pool[b].type = "PLAYER" THEN {"foe"}
               ELSE IF IsActive(pool[b]) /\ pool[b].type = "ENEMY" THEN Alive
               ELSE {}]
  IN  {hit \in [Pool -> present \cup {"foe", Nobody}] :
         /\ \A b \in Pool : hit[b] # Nobody => hit[b] \in aim[b]
         /\ Cardinality({b \in Pool : hit[b] = "foe"}) <= foes
         /\ \A p \in Alive : Cardinality({b \in Pool : hit[b] = p}) <= lives[p]}

FoesHit(hit) == Cardinality({b \in Pool : hit[b] = "foe"})

\* Faulty: a player shot down loses the hits of its bullets in flight.
CreditTheLiving(hit, pool, p) ==
  IF p \in Alive
  THEN Cardinality({b \in Pool : hit[b] = "foe" /\ pool[b].owner = p}) ELSE 0

\* A hit is credited to its owner as long as it is in the match.
Credit(hit, pool, p) ==
  IF p \in present
  THEN Cardinality({b \in Pool : hit[b] = "foe" /\ pool[b].owner = p}) ELSE 0

TakeHits(hit, pool) ==
  /\ lives' = [p \in Players |->
                 IF p \in present
                 THEN lives[p] - Cardinality({b \in Pool : hit[b] = p})
                 ELSE lives[p]]
  /\ points' = [p \in Players |-> points[p] + Credit(hit, pool, p)]
  /\ bullets' = Deactivated(pool, {b \in Pool : hit[b] # Nobody})

-----------------------------------------------------------------------------
(* The operations. *)

\* Faulty: losing the last player does not undo a win of the same step.
WinStands(next) ==
  phase' = IF next # "WON" /\ \A p \in present : lives'[p] = 0
           THEN "GAME_OVER" ELSE next

\* Faulty: the end of step() does not count the dead.
SettleAnyway(next) == phase' = next

\* The end of step(): with nobody left alive the match is lost, even one
\* that was won in the same step.
Settle(next) ==
  phase' = IF \A p \in present : lives'[p] = 0 THEN "GAME_OVER" ELSE next

EnemiesEntrance ==
  /\ phase = "ENEMIES_ENTRANCE"
  /\ descent' = descent - 1
  /\ UNCHANGED <<present, lives, points, enemies, counted, boss, bullets>>
  /\ Settle(IF descent = 1 THEN "FIGHT_ENEMIES" ELSE phase)

\* Faulty: the boss is called in with enemies left.
DefeatedEarly(left) == left <= 1

\* allEnemiesDefeated: of the count taken before this step's hits.
AllEnemiesDefeated(left) == counted' = 0

\* The shots of an enemy step: at most one of each enemy alive.
EnemiesStep(pool) == {FiredDown(pool, n) : n \in 0 .. enemies}

\* reachedPlayer: only an enemy alive can.
ReachedPlayer(left) == IF left > 0 THEN BOOLEAN ELSE {FALSE}

FightEnemies ==
  /\ phase = "FIGHT_ENEMIES"
  /\ counted' = enemies
  /\ \E shooters \in SUBSET Alive :
     \E fired \in FiredByPlayers(shooters) :
     \E stepped \in EnemiesStep(fired) :
     \E pool \in Flown(stepped) :
     \E hit \in Hits(pool, enemies) :
       /\ TakeHits(hit, pool)
       /\ enemies' = enemies - FoesHit(hit)
  /\ LET defeated == AllEnemiesDefeated(enemies')
     IN  \E reached \in ReachedPlayer(enemies') :
           /\ descent' = IF defeated THEN EntranceSteps ELSE descent
           /\ Settle(IF reached THEN "GAME_OVER"
                     ELSE IF defeated THEN "BOSS_ENTRANCE" ELSE phase)
  /\ UNCHANGED <<present, boss>>

BossEntrance ==
  /\ phase = "BOSS_ENTRANCE"
  /\ descent' = descent - 1
  /\ bullets' \in Flown(bullets)
  /\ UNCHANGED <<present, lives, points, enemies, counted, boss>>
  /\ Settle(IF descent = 1 THEN "FIGHT_BOSS" ELSE phase)

FightBoss ==
  /\ phase = "FIGHT_BOSS"
  /\ \E shooters \in SUBSET Alive :
     \E fired \in FiredByPlayers(shooters) :
     \E stepped \in BossSteps(fired) :
     \E pool \in Flown(stepped.pool) :
     \E hit \in Hits(pool, MaxBullets) :
       /\ TakeHits(hit, pool)
       /\ boss' = [stepped.boss EXCEPT !.health = @ - FoesHit(hit)]
  /\ Settle(IF boss'.health <= 0 THEN "WON" ELSE phase)
  /\ UNCHANGED <<present, enemies, counted, descent>>

Step == EnemiesEntrance \/ FightEnemies \/ BossEntrance \/ FightBoss

\* Faulty: whenever the last player leaves, the match is lost.
RemoveFromAnyPhase(p) ==
  /\ p \in present
  /\ present' = present \ {p}
  /\ phase' = IF present' = {} THEN "GAME_OVER" ELSE phase
  /\ UNCHANGED <<lives, points, enemies, counted, descent, boss, bullets>>

\* Faulty: nobody notices that the last player left.
RemoveUnnoticed(p) ==
  /\ p \in present
  /\ present' = present \ {p}
  /\ UNCHANGED <<phase, lives, points, enemies, counted, descent, boss, bullets>>

\* removePlayer: the last one to leave an unfinished match ends it.
RemovePlayer(p) ==
  /\ p \in present
  /\ present' = present \ {p}
  /\ phase' = IF phase \notin Terminal /\ present' = {} THEN "GAME_OVER"
              ELSE phase
  /\ UNCHANGED <<lives, points, enemies, counted, descent, boss, bullets>>

Next == Step \/ \E p \in Players : RemovePlayer(p)

Spec == Init /\ [][Next]_vars

\* The timer steps a running match; nobody has to leave or to shoot.
FairSpec == Spec /\ WF_vars(Step)

-----------------------------------------------------------------------------
(* Properties. *)

\* The type invariant.
TypeOK ==
  /\ phase \in {"ENEMIES_ENTRANCE", "FIGHT_ENEMIES", "BOSS_ENTRANCE",
                "FIGHT_BOSS"} \cup Terminal
  /\ present \subseteq Players
  /\ lives \in [Players -> 0 .. InitialLives]
  /\ points \in [Players -> Nat]
  /\ enemies \in 0 .. Enemies
  /\ counted \in 0 .. Enemies
  /\ descent \in 0 .. EntranceSteps
  /\ boss \in [health : Int, pattern : {"SPREAD_SHOT", "SUCCESSIVE_SHOTS"},
               shots : 0 .. MaxSuccessiveShots - 1]
  /\ bullets \in [Pool -> [flies : {"no", "up", "down"},
                           type : {"ENEMY", "PLAYER"},
                           owner : Players \cup {Nobody}]]

\* A hit is never scored twice: the players, those included that left with the
\* points they had, hold no more credits than enemies were killed and points
\* of health the boss lost.  It is scored: while nobody has left they hold as
\* many, also for the bullets of players shot down before they hit.
EveryHitIsScored ==
  LET credits == MapThenSumSet(LAMBDA p : points[p], Players)
      hits == (Enemies - enemies) + (BossLife - boss.health)
  IN  /\ credits <= hits
      /\ present = Players => credits = hits

\* The boss comes when no enemy is left, and a match is won against both.
\* checkCollisions tests only one kind of foe per phase, so an enemy alive in
\* a later phase could not be shot any more.
BossComesAfterTheLastEnemy ==
  phase \in {"BOSS_ENTRANCE", "FIGHT_BOSS", "WON"} => enemies = 0

\* A match is won by somebody: with the boss dead and a player alive, even
\* when the last bullets of both sides hit in the same step.
WonBySurvivors ==
  [][phase # "WON" /\ phase' = "WON" =>
       /\ boss'.health <= 0
       /\ \E p \in present' : lives'[p] > 0]_vars

\* Leaving does not change how a match ended.
VerdictIsFinal == [][(phase \in Terminal) => UNCHANGED phase]_vars

Contract ==
  [roster |-> [t \in {NoTeam} |-> present], over |-> phase \in Terminal]

\* Every step and every removal is one the server's model allows.
KeepsSimContract ==
  [][\/ /\ Contract'.roster = Contract.roster
        /\ MayEndAs(Contract, Contract'.over, TRUE)
     \/ \E p \in present : Contract' = SimWithout(Contract, {p}, TRUE)]_vars

\* A match everybody of which is dead or gone is over soon.
DeadEnd == Alive = {} ~> phase \in Terminal

\* boss_sim.h: the boss fires "a burst of straight-down bullets".  What goes
\* down is meant for the players.
BulletsGoingDownAreHostile ==
  \A b \in Pool : bullets[b].flies = "down" => bullets[b].type = "ENEMY"
=============================================================================
