---------------------------- MODULE CoopSimProofs ----------------------------
(***************************************************************************)
(* A coop match, for every number of players, lives, enemies and bullets   *)
(* and every boss.                                                         *)
(***************************************************************************)
EXTENDS CoopSim, FiniteSetTheorems, WellFoundedInduction, TLAPS

-----------------------------------------------------------------------------
(* Sums.  MapThenSumSet is defined by recursion over sets; the sum is the  *)
(* number of points below a function, which the theorems on cardinality    *)
(* speak about.                                                            *)

\* A nonempty set of subsets of a finite set has a minimal one.
LEMMA MinimalSubset ==
  ASSUME NEW S, IsFiniteSet(S), NEW Bad \in SUBSET (SUBSET S), Bad # {}
  PROVE  \E s \in Bad : \A t \in Bad : t \subseteq s => t = s
<1>1. Bad \subseteq FiniteSubsetsOf(S)
  BY FS_Subset DEF FiniteSubsetsOf
<1>2. PICK s \in Bad : \A t \in Bad : ~ (<<t, s>> \in StrictSubsetOrdering(S))
  BY <1>1, FS_StrictSubsetOrderingWellFounded, WFMin
<1>3. ASSUME NEW t \in Bad, t \subseteq s, t # s
      PROVE  FALSE
  <2>1. <<t, s>> \in StrictSubsetOrdering(S)
    BY <1>3 DEF StrictSubsetOrdering
  <2> QED
    BY <1>2, <2>1, Zenon
<1> QED
  BY <1>3

\* The sum of f over S, as the number of points below the graph of f.
Below(f, S) == UNION {{p} \X (1 .. f[p]) : p \in S}
Total(f, S) == Cardinality(Below(f, S))

\* The area below a function is finite.
LEMMA BelowIsFinite ==
  ASSUME NEW S, IsFiniteSet(S), NEW f \in [S -> Nat], NEW s \in SUBSET S
  PROVE  IsFiniteSet(Below(f, s)) /\ Total(f, s) \in Nat
<1> DEFINE col == [p \in s |-> {p} \X (1 .. f[p])]
<1>1. IsFiniteSet(s)
  BY FS_Subset
<1>2. {col[p] : p \in s} = {{p} \X (1 .. f[p]) : p \in s}
  OBVIOUS
<1>3. IsFiniteSet({col[p] : p \in s})
  <2>1. col \in [s -> {col[p] : p \in s}]
    OBVIOUS
  <2> HIDE DEF col
  <2>2. col \in Surjection(s, {col[p] : p \in s})
    BY <2>1 DEF Surjection
  <2> QED
    BY <1>1, <2>2, FS_Surjection DEF ExistsSurjection
<1>4. ASSUME NEW p \in s
      PROVE  IsFiniteSet({p} \X (1 .. f[p]))
  <2>1. f[p] \in Nat /\ IsFiniteSet({p})
    BY FS_Singleton
  <2>2. IsFiniteSet(1 .. f[p])
    BY <2>1, FS_Interval
  <2> QED
    BY <2>1, <2>2, FS_Product
<1>5. IsFiniteSet(Below(f, s))
  BY <1>2, <1>3, <1>4, FS_UNION DEF Below
<1> QED
  BY <1>5, FS_CardinalityType DEF Total

\* An element adds its value to the sum of the others.
LEMMA TotalStep ==
  ASSUME NEW S, IsFiniteSet(S), NEW f \in [S -> Nat], NEW s \in SUBSET S,
         NEW x \in s
  PROVE  Total(f, s) = f[x] + Total(f, s \ {x})
<1> DEFINE col == {x} \X (1 .. f[x])
           rest == Below(f, s \ {x})
<1>1. IsFiniteSet(rest) /\ Cardinality(rest) \in Nat
  BY BelowIsFinite DEF Total
<1>2. IsFiniteSet(col) /\ Cardinality(col) = f[x]
  <2>1. f[x] \in Nat /\ IsFiniteSet(1 .. f[x]) /\ Cardinality(1 .. f[x]) = f[x]
    BY FS_Interval
  <2> DEFINE stack == [n \in 1 .. f[x] |-> <<x, n>>]
  <2>2. /\ stack \in [1 .. f[x] -> col]
        /\ \A n, m \in 1 .. f[x] : stack[n] = stack[m] => n = m
        /\ \A e \in col : \E n \in 1 .. f[x] : stack[n] = e
    OBVIOUS
  <2> HIDE DEF stack, col
  <2>3. stack \in Bijection(1 .. f[x], col)
    BY <2>2 DEF Bijection, Injection, Surjection, IsInjective
  <2> QED
    BY <2>1, <2>3, FS_Bijection DEF ExistsBijection
<1>3. Below(f, s) = col \cup rest /\ col \cap rest = {}
  BY DEF Below
<1> QED
  <2>1. Cardinality(col \cap rest) = 0
    BY <1>3, FS_EmptySet
  <2> HIDE DEF col, rest
  <2>2. Cardinality(col \cup rest)
          = Cardinality(col) + Cardinality(rest) - Cardinality(col \cap rest)
    BY <1>1, <1>2, FS_Union
  <2> QED
    BY <1>1, <1>2, <1>3, <2>1, <2>2 DEF Total, rest

\* Nothing sums up to nothing.
LEMMA TotalOfNone ==
  ASSUME NEW f PROVE Total(f, {}) = 0
<1>1. Below(f, {}) = {}
  BY DEF Below
<1> QED
  BY <1>1, FS_EmptySet DEF Total

\* The recursion of MapThenSumSet over S.
Folds(iter, f, S) ==
  iter = [s \in SUBSET S |->
            IF s = {} THEN 0
            ELSE f[CHOOSE x \in s : TRUE] + iter[s \ {CHOOSE x \in s : TRUE}]]

\* There is a function with this recursion, and every one of them sums f.
LEMMA TotalFolds ==
  ASSUME NEW S, IsFiniteSet(S), NEW f \in [S -> Nat]
  PROVE  /\ Folds([s \in SUBSET S |-> Total(f, s)], f, S)
         /\ \A iter : Folds(iter, f, S) => iter[S] = Total(f, S)
<1>1. \A s \in SUBSET S : s # {} => (CHOOSE x \in s : TRUE) \in s
  OBVIOUS
<1>2. ASSUME NEW s \in SUBSET S, NEW x \in s
      PROVE  Total(f, s) = f[x] + Total(f, s \ {x})
  BY TotalStep
<1>3. Total(f, {}) = 0
  BY TotalOfNone
<1>4. Folds([s \in SUBSET S |-> Total(f, s)], f, S)
  <2> DEFINE pick(s) == CHOOSE x \in s : TRUE
             w == [s \in SUBSET S |-> Total(f, s)]
  <2>1. \A s \in SUBSET S : s # {} => pick(s) \in s
    BY <1>1
  <2> HIDE DEF pick
  <2>2. \A s \in SUBSET S :
          w[s] = IF s = {} THEN 0 ELSE f[pick(s)] + w[s \ {pick(s)}]
    BY <1>2, <1>3, <2>1
  <2>3. w = [s \in SUBSET S |->
               IF s = {} THEN 0 ELSE f[pick(s)] + w[s \ {pick(s)}]]
    BY <2>2
  <2> QED
    BY <2>3 DEF Folds, pick
<1>5. ASSUME NEW iter, Folds(iter, f, S) PROVE iter[S] = Total(f, S)
  <2> DEFINE Bad == {s \in SUBSET S : iter[s] # Total(f, s)}
             pick(s) == CHOOSE x \in s : TRUE
  <2>1. SUFFICES ASSUME Bad # {} PROVE FALSE
    OBVIOUS
  <2>2. PICK s \in Bad : \A t \in Bad : t \subseteq s => t = s
    <3>1. Bad \in SUBSET (SUBSET S)
      OBVIOUS
    <3> HIDE DEF Bad
    <3> QED
      BY <2>1, <3>1, MinimalSubset
  <2>3. \A t \in SUBSET S : t # {} => pick(t) \in t
    BY <1>1
  <2>4. \A t \in SUBSET S : iter[t] = IF t = {} THEN 0
                                       ELSE f[pick(t)] + iter[t \ {pick(t)}]
    BY <1>5 DEF Folds
  <2> HIDE DEF pick
  <2>5. s # {}
    BY <1>3, <2>2, <2>4
  <2>6. s \ {pick(s)} \notin Bad /\ s \ {pick(s)} \in SUBSET S
    BY <2>2, <2>3, <2>5
  <2>7. iter[s \ {pick(s)}] = Total(f, s \ {pick(s)})
    BY <2>6
  <2> QED
    BY <1>2, <2>2, <2>3, <2>4, <2>5, <2>7
<1> QED
  BY <1>4, <1>5

\* How many of the things of B have their owner in s.
Share(B, own, s) == Cardinality({b \in B : own[b] \in s})

\* Each thing has one owner: shares add up.
LEMMA SharesAdd ==
  ASSUME NEW B, IsFiniteSet(B), NEW own, NEW s, NEW x \in s
  PROVE  /\ Share(B, own, s) = Share(B, own, {x}) + Share(B, own, s \ {x})
         /\ Share(B, own, {x}) \in Nat /\ Share(B, own, s \ {x}) \in Nat
         /\ Share(B, own, {}) = 0
<1> DEFINE Owned(t) == {b \in B : own[b] \in t}
<1>1. IsFiniteSet(Owned({x})) /\ IsFiniteSet(Owned(s \ {x}))
  BY FS_Subset
<1>2. /\ Owned(s) = Owned({x}) \cup Owned(s \ {x})
      /\ Owned({x}) \cap Owned(s \ {x}) = {}
      /\ Owned({}) = {}
  OBVIOUS
<1>3. \A t : Share(B, own, t) = Cardinality(Owned(t))
  BY DEF Share
<1> HIDE DEF Owned
<1>4. /\ Cardinality(Owned({x})) \in Nat /\ Cardinality(Owned(s \ {x})) \in Nat
      /\ Cardinality(Owned({x}) \cup Owned(s \ {x}))
           = Cardinality(Owned({x})) + Cardinality(Owned(s \ {x}))
             - Cardinality(Owned({x}) \cap Owned(s \ {x}))
  BY <1>1, FS_Union, FS_CardinalityType
<1>5. /\ Cardinality(Owned({x}) \cap Owned(s \ {x})) = 0
      /\ Cardinality(Owned({})) = 0
  BY <1>2, FS_EmptySet
<1>6. Cardinality(Owned(s)) = Cardinality(Owned({x}) \cup Owned(s \ {x}))
  BY <1>2
<1> QED
  BY <1>3, <1>4, <1>5, <1>6

\* Each player of S goes from f to g by its share.
Gains(f, g, S, B, own) == \A p \in S : g[p] = f[p] + Share(B, own, {p})

\* What the players of s gain together is their share.
LEMMA TotalGrows ==
  ASSUME NEW S, IsFiniteSet(S), NEW f \in [S -> Nat], NEW g \in [S -> Nat],
         NEW B, IsFiniteSet(B), NEW own, Gains(f, g, S, B, own)
  PROVE  \A s \in SUBSET S : Total(g, s) = Total(f, s) + Share(B, own, s)
<1> DEFINE Bad == {s \in SUBSET S :
                     Total(g, s) # Total(f, s) + Share(B, own, s)}
<1>1. SUFFICES ASSUME Bad # {} PROVE FALSE
  OBVIOUS
<1>2. PICK s \in Bad : \A t \in Bad : t \subseteq s => t = s
  <2>1. Bad \in SUBSET (SUBSET S)
    OBVIOUS
  <2> HIDE DEF Bad
  <2> QED
    BY <1>1, <2>1, MinimalSubset
<1>3. s \in SUBSET S /\ Total(g, s) # Total(f, s) + Share(B, own, s)
  BY <1>2
<1>4. s # {}
  <2> SUFFICES ASSUME s = {} PROVE FALSE
    OBVIOUS
  <2>1. {b \in B : own[b] \in s} = {}
    OBVIOUS
  <2>2. Share(B, own, s) = 0
    BY <2>1, FS_EmptySet DEF Share
  <2> QED
    BY <1>3, <2>2, TotalOfNone
<1>5. PICK x \in s : TRUE
  BY <1>4
<1>6. /\ s \ {x} \in SUBSET S
      /\ Total(g, s \ {x}) = Total(f, s \ {x}) + Share(B, own, s \ {x})
  BY <1>2, <1>5
<1>7. /\ Total(g, s) = g[x] + Total(g, s \ {x})
      /\ Total(f, s) = f[x] + Total(f, s \ {x})
  BY <1>3, <1>5, TotalStep
<1>8. /\ Total(f, s \ {x}) \in Nat /\ Total(g, s \ {x}) \in Nat
      /\ f[x] \in Nat /\ g[x] \in Nat
      /\ g[x] = f[x] + Share(B, own, {x})
  BY <1>3, <1>5, BelowIsFinite DEF Gains
<1> HIDE DEF Bad
<1>9. /\ Share(B, own, s) = Share(B, own, {x}) + Share(B, own, s \ {x})
      /\ Share(B, own, {x}) \in Nat /\ Share(B, own, s \ {x}) \in Nat
  BY <1>5, SharesAdd
<1> QED
  BY <1>3, <1>6, <1>7, <1>8, <1>9

-----------------------------------------------------------------------------
(* What the property sums up. *)

\* The credits of all players.
LEMMA PointsAreTotal ==
  ASSUME points \in [Players -> Nat]
  PROVE  MapThenSumSet(LAMBDA p : points[p], Players) = Total(points, Players)
<1> DEFINE Is(iter) == Folds(iter, points, Players)
           it == CHOOSE iter : Is(iter)
           sum == [s \in SUBSET Players |-> Total(points, s)]
<1>1. IsFiniteSet(Players)
  BY CoopAssumption
<1>2. MapThenSumSet(LAMBDA p : points[p], Players) = it[Players]
  BY DEF MapThenSumSet, MapThenFoldSet, Folds
<1> HIDE DEF Is
<1>3. Is(sum)
  BY <1>1, TotalFolds DEF Is
<1>4. Is(it)
  BY <1>3
<1> HIDE DEF it
<1> QED
  BY <1>1, <1>2, <1>4, TotalFolds DEF Is

PointsTotal ==
  MapThenSumSet(LAMBDA p : points[p], Players) = Total(points, Players)

\* The sum of the property is a total, in every state of the right types.
LEMMA PointsAreTotals == TypeOK => PointsTotal
<1> QED
  BY PointsAreTotal DEF PointsTotal, TypeOK

-----------------------------------------------------------------------------
(* Bullets. *)

Bullet ==
  [flies : {"no", "up", "down"}, type : {"ENEMY", "PLAYER"},
   owner : Players \cup {Nobody}]

\* A pool in which a bullet that goes up has its owner.
Owned(pool) ==
  /\ pool \in [Pool -> Bullet]
  /\ \A b \in Pool : pool[b].flies = "up" => pool[b].owner \in Players

\* Every set of bullets is finite.
LEMMA PoolIsFinite ==
  ASSUME NEW B \in SUBSET Pool
  PROVE  IsFiniteSet(B) /\ Cardinality(B) \in Nat
<1>1. IsFiniteSet(Pool)
  BY CoopAssumption, FS_Interval DEF Pool
<1> QED
  BY <1>1, FS_Subset, FS_CardinalityType

\* Spawning and removing bullets keeps the pool.
LEMMA BulletsStayOwned ==
  ASSUME NEW pool, Owned(pool)
  PROVE  /\ \A n : Owned(FiredDown(pool, n))
         /\ Owned(FiredBurst(pool))
         /\ \A gone : Owned(Deactivated(pool, gone))
         /\ \A flown \in Flown(pool) : Owned(flown)
<1>1. \A n : Owned(FiredDown(pool, n))
  BY DEF Owned, FiredDown, Hostile, Bullet
<1>2. Owned(FiredBurst(pool))
  <2>1. \A q \in Bullet : [q EXCEPT !.flies = "down"] \in Bullet
    BY DEF Bullet
  <2>2. \A q \in Bullet : [q EXCEPT !.flies = "down"].flies = "down"
    BY DEF Bullet
  <2> QED
    BY <2>1, <2>2 DEF Owned, FiredBurst
<1>3. \A gone : Owned(Deactivated(pool, gone))
  BY DEF Owned, Deactivated, Inactive, Bullet
<1> QED
  BY <1>1, <1>2, <1>3 DEF Flown

\* The players' shots are theirs.
LEMMA ShotsAreOwned ==
  ASSUME Owned(bullets), NEW shooters \in SUBSET Players,
         NEW fired \in FiredByPlayers(shooters)
  PROVE  Owned(fired)
<1> DEFINE taken == FirstFree(bullets, Cardinality(shooters))
<1>1. PICK by \in [taken -> shooters] :
        fired = [b \in Pool |->
                   IF b \in taken
                   THEN [flies |-> "up", type |-> "PLAYER", owner |-> by[b]]
                   ELSE bullets[b]]
  BY DEF FiredByPlayers
<1> HIDE DEF taken
<1> QED
  BY <1>1 DEF Owned, Bullet

\* The boss shoots or waits; neither costs it health.
LEMMA BossStepsType ==
  ASSUME TypeOK, NEW pool, Owned(pool), NEW stepped \in BossSteps(pool)
  PROVE  /\ Owned(stepped.pool)
         /\ stepped.boss \in [health : Int,
                              pattern : {"SPREAD_SHOT", "SUCCESSIVE_SHOTS"},
                              shots : 0 .. MaxSuccessiveShots - 1]
         /\ stepped.boss.health = boss.health
<1>1. /\ boss \in [health : Int, pattern : {"SPREAD_SHOT", "SUCCESSIVE_SHOTS"},
                   shots : 0 .. MaxSuccessiveShots - 1]
      /\ MaxSuccessiveShots \in Nat \ {0}
  BY CoopAssumption DEF TypeOK
<1>2. stepped = [pool |-> pool, boss |-> boss] \/ stepped = BossShoots(pool)
  BY DEF BossSteps
<1>3. CASE stepped = [pool |-> pool, boss |-> boss]
  BY <1>1, <1>3
<1>4. CASE stepped = BossShoots(pool) /\ boss.pattern = "SPREAD_SHOT"
  <2>1. stepped = [pool |-> FiredDown(pool, SpreadShots),
                   boss |-> [boss EXCEPT !.pattern = "SUCCESSIVE_SHOTS"]]
    BY <1>4 DEF BossShoots
  <2> QED
    BY <1>1, <2>1, BulletsStayOwned
<1>5. CASE stepped = BossShoots(pool) /\ boss.pattern # "SPREAD_SHOT"
  <2>1. CASE boss.shots + 1 = MaxSuccessiveShots
    <3>1. stepped = [pool |-> FiredBurst(pool),
                     boss |-> [boss EXCEPT !.pattern = "SPREAD_SHOT",
                                           !.shots = 0]]
      BY <1>5, <2>1 DEF BossShoots
    <3>2. 0 \in 0 .. MaxSuccessiveShots - 1
      BY <1>1
    <3> QED
      BY <1>1, <3>1, <3>2, BulletsStayOwned
  <2>2. CASE boss.shots + 1 # MaxSuccessiveShots
    <3>1. stepped = [pool |-> FiredBurst(pool),
                     boss |-> [boss EXCEPT !.shots = @ + 1]]
      BY <1>5, <2>2 DEF BossShoots
    <3>2. boss.shots + 1 \in 0 .. MaxSuccessiveShots - 1
      <4>1. boss.shots \in 0 .. MaxSuccessiveShots - 1
        BY <1>1
      <4> QED
        BY <1>1, <2>2, <4>1
    <3> QED
      BY <1>1, <3>1, <3>2, BulletsStayOwned
  <2> QED
    BY <2>1, <2>2
<1> QED
  BY <1>2, <1>3, <1>4, <1>5

-----------------------------------------------------------------------------
(* Hits. *)

\* No more foes are hit than there are, and by bullets with an owner; no
\* player loses lives it does not have.
LEMMA HitsAreFair ==
  ASSUME TypeOK, NEW pool, Owned(pool), NEW foes \in Nat,
         NEW hit \in Hits(pool, foes)
  PROVE  /\ FoesHit(hit) \in 0 .. foes
         /\ \A b \in Pool : hit[b] = "foe" => pool[b].owner \in Players
         /\ \A p \in present :
              Cardinality({b \in Pool : hit[b] = p}) \in 0 .. lives[p]
<1> DEFINE aim == [b \in Pool |->
             IF pool[b].flies = "up" /\ pool[b].type = "PLAYER" THEN {"foe"}
             ELSE IF IsActive(pool[b]) /\ pool[b].type = "ENEMY" THEN Alive
             ELSE {}]
<1>1. /\ hit \in [Pool -> present \cup {"foe", Nobody}]
      /\ \A b \in Pool : hit[b] # Nobody => hit[b] \in aim[b]
      /\ Cardinality({b \in Pool : hit[b] = "foe"}) <= foes
      /\ \A p \in Alive : Cardinality({b \in Pool : hit[b] = p}) <= lives[p]
  BY DEF Hits
<1>2. /\ present \subseteq Players /\ Alive \subseteq present
      /\ "foe" \notin Players /\ "foe" # Nobody /\ Nobody \notin Players
  BY CoopAssumption DEF TypeOK, Alive
<1>3. FoesHit(hit) \in 0 .. foes
  BY <1>1, PoolIsFinite DEF FoesHit
<1>4. ASSUME NEW b \in Pool, hit[b] = "foe" PROVE pool[b].owner \in Players
  <2>1. "foe" \in aim[b]
    BY <1>1, <1>2, <1>4
  <2>2. pool[b].flies = "up"
    BY <1>2, <2>1
  <2> QED
    BY <2>2 DEF Owned
<1>5. ASSUME NEW p \in present
      PROVE  Cardinality({b \in Pool : hit[b] = p}) \in 0 .. lives[p]
  <2>1. CASE p \in Alive
    BY <1>1, <2>1, PoolIsFinite
  <2>2. CASE p \notin Alive
    <3>1. {b \in Pool : hit[b] = p} = {}
      BY <1>1, <1>2, <2>2
    <3>2. lives[p] \in Nat
      BY <1>2 DEF TypeOK
    <3> QED
      BY <3>1, <3>2, FS_EmptySet
  <2> QED
    BY <2>1, <2>2
<1> QED
  BY <1>3, <1>4, <1>5

\* Taking the hits keeps the types of what they change.
LEMMA TakeHitsType ==
  ASSUME TypeOK, NEW pool, Owned(pool), NEW foes \in Nat,
         NEW hit \in Hits(pool, foes), TakeHits(hit, pool)
  PROVE  /\ lives' \in [Players -> 0 .. InitialLives]
         /\ points' \in [Players -> Nat]
         /\ Owned(bullets')
<1>1. lives' \in [Players -> 0 .. InitialLives]
  <2>1. \A p \in Players :
          /\ lives[p] \in 0 .. InitialLives
          /\ p \in present =>
               Cardinality({b \in Pool : hit[b] = p}) \in 0 .. lives[p]
    BY HitsAreFair DEF TypeOK
  <2>2. \A p \in Players :
          (IF p \in present
           THEN lives[p] - Cardinality({b \in Pool : hit[b] = p})
           ELSE lives[p]) \in 0 .. InitialLives
    BY <2>1, CoopAssumption
  <2> QED
    BY <2>2 DEF TakeHits
<1>2. points' \in [Players -> Nat]
  <2>1. \A p \in Players : Credit(hit, pool, p) \in Nat
    BY PoolIsFinite DEF Credit
  <2> QED
    BY <2>1 DEF TakeHits, TypeOK
<1>3. Owned(bullets')
  BY BulletsStayOwned DEF TakeHits
<1> QED
  BY <1>1, <1>2, <1>3

\* The hits on foes are credited once at most, and while all are there in full.
LEMMA TakeHitsScores ==
  ASSUME TypeOK, NEW pool, Owned(pool), NEW foes \in Nat,
         NEW hit \in Hits(pool, foes), TakeHits(hit, pool)
  PROVE  /\ Total(points, Players) \in Nat /\ Total(points', Players) \in Nat
         /\ Total(points', Players) <= Total(points, Players) + FoesHit(hit)
         /\ present = Players =>
              Total(points', Players) = Total(points, Players) + FoesHit(hit)
<1> PICK B : B = {b \in Pool : hit[b] = "foe" /\ pool[b].owner \in present}
  OBVIOUS
<1> PICK own : own = [b \in Pool |-> pool[b].owner]
  OBVIOUS
<1>1. IsFiniteSet(B) /\ IsFiniteSet(Players)
  BY PoolIsFinite, CoopAssumption
<1>2. points \in [Players -> Nat] /\ points' \in [Players -> Nat]
  BY TakeHitsType DEF TypeOK
<1>3. Gains(points, points', Players, B, own)
  <2>1. ASSUME NEW p \in Players, p \in present
        PROVE  {b \in B : own[b] \in {p}}
                 = {b \in Pool : hit[b] = "foe" /\ pool[b].owner = p}
    BY <2>1
  <2>2. ASSUME NEW p \in Players, p \notin present
        PROVE  Share(B, own, {p}) = 0
    <3>1. {b \in B : own[b] \in {p}} = {}
      BY <2>2
    <3> QED
      BY <3>1, FS_EmptySet DEF Share
  <2>3. \A p \in Players : points'[p] = points[p] + Credit(hit, pool, p)
    BY DEF TakeHits
  <2>4. \A p \in Players : Credit(hit, pool, p) = Share(B, own, {p})
    BY <2>1, <2>2 DEF Credit, Share
  <2> QED
    BY <2>3, <2>4 DEF Gains
<1>4. /\ Share(B, own, Players) \in Nat /\ FoesHit(hit) \in Nat
      /\ Share(B, own, Players) <= FoesHit(hit)
      /\ present = Players => Share(B, own, Players) = FoesHit(hit)
  <2> DEFINE credited == {b \in B : own[b] \in Players}
             all == {b \in Pool : hit[b] = "foe"}
  <2>1. IsFiniteSet(all) /\ credited \in SUBSET all
    BY PoolIsFinite
  <2>2. present = Players => credited = all
    <3>1. \A b \in all : pool[b].owner \in Players
      BY HitsAreFair
    <3> QED
      BY <3>1
  <2>3. /\ Share(B, own, Players) = Cardinality(credited)
        /\ FoesHit(hit) = Cardinality(all)
    BY DEF Share, FoesHit
  <2> HIDE DEF credited, all
  <2>4. /\ IsFiniteSet(credited)
        /\ Cardinality(credited) <= Cardinality(all)
        /\ Cardinality(credited) \in Nat /\ Cardinality(all) \in Nat
    BY <2>1, FS_Subset, FS_CardinalityType
  <2> QED
    BY <2>2, <2>3, <2>4
<1>5. \A s \in SUBSET Players :
        Total(points', s) = Total(points, s) + Share(B, own, s)
  BY <1>1, <1>2, <1>3, TotalGrows
<1>6. Total(points, Players) \in Nat
  BY <1>1, <1>2, BelowIsFinite
<1>7. Total(points', Players) = Total(points, Players) + Share(B, own, Players)
  BY <1>5
<1> QED
  BY <1>4, <1>6, <1>7

-----------------------------------------------------------------------------
(* The invariant. *)

\* The types, the hits scored, and what keeps them: a bullet going up has its
\* owner, an entrance that goes on has steps left, and the boss has the field
\* for itself.
Inv ==
  /\ TypeOK
  /\ Owned(bullets)
  /\ phase \in {"ENEMIES_ENTRANCE", "BOSS_ENTRANCE"} => descent >= 1
  /\ BossComesAfterTheLastEnemy
  /\ EveryHitIsScored

\* A step that changes neither points nor foes.
LEMMA NothingScored ==
  ASSUME Inv, TypeOK', UNCHANGED <<points, enemies, boss>>,
         present' = Players => present = Players
  PROVE  EveryHitIsScored'
<1>1. PointsTotal /\ PointsTotal'
  <2>1. TypeOK' => PointsTotal'
    BY PointsAreTotals, PTL
  <2> QED
    BY <2>1, PointsAreTotals DEF Inv
<1> QED
  BY <1>1 DEF Inv, EveryHitIsScored, PointsTotal

\* Hits on foes.
LEMMA HitsScored ==
  ASSUME Inv, TypeOK', NEW pool, Owned(pool), NEW foes \in Nat,
         NEW hit \in Hits(pool, foes), TakeHits(hit, pool), present' = present,
         \/ enemies' = enemies - FoesHit(hit) /\ boss' = boss
         \/ enemies' = enemies /\ boss'.health = boss.health - FoesHit(hit)
  PROVE  EveryHitIsScored'
<1>1. PointsTotal /\ PointsTotal'
  <2>1. TypeOK' => PointsTotal'
    BY PointsAreTotals, PTL
  <2> QED
    BY <2>1, PointsAreTotals DEF Inv
<1> DEFINE hits == (Enemies - enemies) + (BossLife - boss.health)
           hitsNow == (Enemies - enemies') + (BossLife - boss'.health)
<1>2. /\ Total(points, Players) <= hits
      /\ present = Players => Total(points, Players) = hits
  BY <1>1 DEF Inv, EveryHitIsScored, PointsTotal
<1>3. /\ Total(points, Players) \in Nat /\ Total(points', Players) \in Nat
      /\ Total(points', Players) <= Total(points, Players) + FoesHit(hit)
      /\ present = Players =>
           Total(points', Players) = Total(points, Players) + FoesHit(hit)
  BY TakeHitsScores DEF Inv
<1>4. FoesHit(hit) \in Nat /\ enemies \in Int /\ boss.health \in Int
  BY HitsAreFair DEF Inv, TypeOK
<1>5. Enemies \in Int /\ BossLife \in Int
  BY CoopAssumption
<1>6. hitsNow = hits + FoesHit(hit) /\ hits \in Int
  BY <1>4, <1>5
<1> HIDE DEF hits
<1>7. /\ Total(points', Players) <= hitsNow
      /\ present = Players => Total(points', Players) = hitsNow
  BY <1>2, <1>3, <1>4, <1>6
<1> QED
  BY <1>1, <1>7 DEF PointsTotal, EveryHitIsScored

\* While the enemies come down only their countdown runs.
LEMMA EnemiesEntranceKeeps == Inv /\ EnemiesEntrance => Inv'
<1> SUFFICES ASSUME Inv, EnemiesEntrance PROVE Inv'
  OBVIOUS
<1>1. /\ phase = "ENEMIES_ENTRANCE" /\ descent \in 1 .. EntranceSteps
      /\ descent' = descent - 1
      /\ UNCHANGED <<present, lives, points, enemies, counted, boss, bullets>>
  BY CoopAssumption DEF EnemiesEntrance, Inv, TypeOK
<1>2. \/ phase' = "GAME_OVER"
      \/ phase' = "FIGHT_ENEMIES"
      \/ phase' = "ENEMIES_ENTRANCE" /\ descent # 1
  BY <1>1 DEF EnemiesEntrance, Settle
<1>3. descent' \in 0 .. EntranceSteps /\ (descent # 1 => descent' >= 1)
  BY <1>1, CoopAssumption
<1>4. TypeOK'
  BY <1>1, <1>2, <1>3 DEF Inv, TypeOK, Terminal
<1>5. EveryHitIsScored'
  BY <1>1, <1>4, NothingScored
<1> QED
  BY <1>1, <1>2, <1>3, <1>4, <1>5 DEF Inv, Owned, BossComesAfterTheLastEnemy

\* While the boss comes down bullets fly, and nothing is hit.
LEMMA BossEntranceKeeps == Inv /\ BossEntrance => Inv'
<1> SUFFICES ASSUME Inv, BossEntrance PROVE Inv'
  OBVIOUS
<1>1. /\ phase = "BOSS_ENTRANCE" /\ descent \in 1 .. EntranceSteps
      /\ descent' = descent - 1
      /\ UNCHANGED <<present, lives, points, enemies, counted, boss>>
  BY CoopAssumption DEF BossEntrance, Inv, TypeOK
<1>2. \/ phase' = "GAME_OVER"
      \/ phase' = "FIGHT_BOSS"
      \/ phase' = "BOSS_ENTRANCE" /\ descent # 1
  BY <1>1 DEF BossEntrance, Settle
<1>3. descent' \in 0 .. EntranceSteps /\ (descent # 1 => descent' >= 1)
  BY <1>1, CoopAssumption
<1>4. Owned(bullets')
  BY BulletsStayOwned DEF BossEntrance, Inv
<1>5. TypeOK'
  BY <1>1, <1>2, <1>3, <1>4 DEF Inv, TypeOK, Terminal, Owned, Bullet
<1>6. EveryHitIsScored'
  BY <1>1, <1>5, NothingScored
<1>7. enemies' = 0
  BY <1>1 DEF Inv, BossComesAfterTheLastEnemy
<1> QED
  BY <1>2, <1>3, <1>4, <1>5, <1>6, <1>7
  DEF Inv, Owned, BossComesAfterTheLastEnemy

\* A step of the fight with the enemies: the boss is only called in by a step
\* that began without them.
LEMMA FightEnemiesKeeps == Inv /\ FightEnemies => Inv'
<1> SUFFICES ASSUME Inv, FightEnemies PROVE Inv'
  OBVIOUS
<1>1. PICK shooters, fired, stepped, pool, hit :
        /\ shooters \in SUBSET Alive
        /\ fired \in FiredByPlayers(shooters)
        /\ stepped \in EnemiesStep(fired)
        /\ pool \in Flown(stepped)
        /\ hit \in Hits(pool, enemies)
        /\ TakeHits(hit, pool)
        /\ enemies' = enemies - FoesHit(hit)
  BY DEF FightEnemies
<1>2. shooters \in SUBSET Players
  BY <1>1 DEF Alive, Inv, TypeOK
<1>3. Owned(pool)
  <2>1. Owned(fired)
    BY <1>1, <1>2, ShotsAreOwned DEF Inv
  <2>2. Owned(stepped)
    BY <1>1, <2>1, BulletsStayOwned DEF EnemiesStep
  <2> QED
    BY <1>1, <2>2, BulletsStayOwned
<1>4. /\ enemies \in 0 .. Enemies /\ Enemies \in Nat
      /\ enemies \in Nat /\ EntranceSteps \in Nat \ {0}
  BY CoopAssumption DEF Inv, TypeOK
<1>5. /\ lives' \in [Players -> 0 .. InitialLives]
      /\ points' \in [Players -> Nat]
      /\ Owned(bullets')
  BY <1>1, <1>3, <1>4, TakeHitsType DEF Inv
<1>6. FoesHit(hit) \in 0 .. enemies
  BY <1>1, <1>3, <1>4, HitsAreFair DEF Inv
<1>7. enemies' \in 0 .. Enemies /\ (enemies = 0 => enemies' = 0)
  BY <1>1, <1>4, <1>6
<1>8. /\ counted' = enemies /\ UNCHANGED <<present, boss>>
      /\ phase = "FIGHT_ENEMIES"
      /\ \/ /\ phase' \in {"GAME_OVER", "FIGHT_ENEMIES"}
            /\ descent' \in {descent, EntranceSteps}
         \/ phase' = "BOSS_ENTRANCE" /\ counted' = 0 /\ descent' = EntranceSteps
  BY DEF FightEnemies, Settle, AllEnemiesDefeated
<1>9. descent' \in 0 .. EntranceSteps
  BY <1>4, <1>8 DEF Inv, TypeOK
<1>10. TypeOK'
  BY <1>4, <1>5, <1>7, <1>8, <1>9 DEF Inv, TypeOK, Terminal, Owned, Bullet
<1>11. EveryHitIsScored'
  BY <1>1, <1>3, <1>4, <1>8, <1>10, HitsScored
<1> QED
  BY <1>4, <1>5, <1>7, <1>8, <1>10, <1>11 DEF Inv, BossComesAfterTheLastEnemy

\* A step of the fight with the boss.
LEMMA FightBossKeeps == Inv /\ FightBoss => Inv'
<1> SUFFICES ASSUME Inv, FightBoss PROVE Inv'
  OBVIOUS
<1>1. PICK shooters, fired, stepped, pool, hit :
        /\ shooters \in SUBSET Alive
        /\ fired \in FiredByPlayers(shooters)
        /\ stepped \in BossSteps(fired)
        /\ pool \in Flown(stepped.pool)
        /\ hit \in Hits(pool, MaxBullets)
        /\ TakeHits(hit, pool)
        /\ boss' = [stepped.boss EXCEPT !.health = @ - FoesHit(hit)]
  BY DEF FightBoss
<1>2. shooters \in SUBSET Players
  BY <1>1 DEF Alive, Inv, TypeOK
<1>3. Owned(fired)
  BY <1>1, <1>2, ShotsAreOwned DEF Inv
<1>4. /\ Owned(stepped.pool)
      /\ stepped.boss \in [health : Int,
                           pattern : {"SPREAD_SHOT", "SUCCESSIVE_SHOTS"},
                           shots : 0 .. MaxSuccessiveShots - 1]
      /\ stepped.boss.health = boss.health
  BY <1>1, <1>3, BossStepsType DEF Inv
<1>5. Owned(pool)
  BY <1>1, <1>4, BulletsStayOwned
<1>6. MaxBullets \in Nat
  BY CoopAssumption
<1>7. /\ lives' \in [Players -> 0 .. InitialLives]
      /\ points' \in [Players -> Nat]
      /\ Owned(bullets')
  BY <1>1, <1>5, <1>6, TakeHitsType DEF Inv
<1>8. FoesHit(hit) \in Int
  BY <1>1, <1>5, <1>6, HitsAreFair DEF Inv
<1>9. /\ boss' \in [health : Int, pattern : {"SPREAD_SHOT", "SUCCESSIVE_SHOTS"},
                    shots : 0 .. MaxSuccessiveShots - 1]
      /\ boss'.health = boss.health - FoesHit(hit)
  <2>1. stepped.boss.health - FoesHit(hit) \in Int
    BY <1>4, <1>8
  <2> QED
    BY <1>1, <1>4, <2>1
<1>10. /\ UNCHANGED <<present, enemies, counted, descent>>
       /\ phase = "FIGHT_BOSS" /\ phase' \in {"GAME_OVER", "WON", "FIGHT_BOSS"}
  BY DEF FightBoss, Settle
<1>11. TypeOK'
  BY <1>7, <1>9, <1>10 DEF Inv, TypeOK, Terminal, Owned, Bullet
<1>12. EveryHitIsScored'
  BY <1>1, <1>5, <1>6, <1>9, <1>10, <1>11, HitsScored
<1> QED
  BY <1>7, <1>10, <1>11, <1>12 DEF Inv, BossComesAfterTheLastEnemy

\* Leaving takes nothing from those who stay.
LEMMA RemovePlayerKeeps == Inv /\ (\E p \in Players : RemovePlayer(p)) => Inv'
<1> SUFFICES ASSUME Inv, NEW p \in Players, RemovePlayer(p) PROVE Inv'
  OBVIOUS
<1>1. /\ present' = present \ {p} /\ p \in present
      /\ phase' \in {phase, "GAME_OVER"}
      /\ UNCHANGED <<lives, points, enemies, counted, descent, boss, bullets>>
  BY DEF RemovePlayer
<1>2. TypeOK'
  BY <1>1 DEF Inv, TypeOK, Terminal
<1>3. EveryHitIsScored'
  BY <1>1, <1>2, NothingScored
<1> QED
  BY <1>1, <1>2, <1>3 DEF Inv, Owned, BossComesAfterTheLastEnemy

\* start() scores nothing.
LEMMA InvAtFirst == Init => Inv
<1> SUFFICES ASSUME Init PROVE Inv
  OBVIOUS
<1>1. /\ {InitialLives, Enemies, BossLife, EntranceSteps, MaxBullets,
          SpreadShots, MaxSuccessiveShots} \subseteq Nat \ {0}
  BY CoopAssumption
<1>2. /\ lives \in [Players -> 0 .. InitialLives]
      /\ points \in [Players -> Nat]
      /\ Owned(bullets)
  BY <1>1 DEF Init, Owned, Bullet, Inactive
<1>3. TypeOK
  BY <1>1, <1>2 DEF Init, TypeOK, Terminal, Owned, Bullet
<1>4. Total(points, Players) = 0
  <2>1. \A p \in Players : 1 .. points[p] = {}
    BY DEF Init
  <2>2. Below(points, Players) = {}
    BY <2>1 DEF Below
  <2> QED
    BY <2>2, FS_EmptySet DEF Total
<1>5. EveryHitIsScored
  <2>1. MapThenSumSet(LAMBDA p : points[p], Players) = 0
    BY <1>3, <1>4, PointsAreTotals DEF PointsTotal
  <2>2. (Enemies - enemies) + (BossLife - boss.health) = 0
    BY <1>1 DEF Init
  <2> QED
    BY <2>1, <2>2 DEF EveryHitIsScored
<1> QED
  BY <1>1, <1>2, <1>3, <1>5 DEF Inv, Init, BossComesAfterTheLastEnemy

\* The invariant holds in every match.
LEMMA InvHolds == Spec => []Inv
<1>1. Inv /\ UNCHANGED vars => Inv'
  <2> SUFFICES ASSUME Inv, UNCHANGED vars PROVE Inv'
    OBVIOUS
  <2>1. TypeOK'
    BY DEF Inv, TypeOK, vars
  <2>2. EveryHitIsScored'
    BY <2>1, NothingScored DEF vars
  <2> QED
    BY <2>1, <2>2 DEF Inv, vars, Owned, BossComesAfterTheLastEnemy
<1>2. Inv /\ [Next]_vars => Inv'
  BY <1>1, EnemiesEntranceKeeps, FightEnemiesKeeps, BossEntranceKeeps,
     FightBossKeeps, RemovePlayerKeeps DEF Next, Step
<1> QED
  BY <1>2, InvAtFirst, PTL DEF Spec

-----------------------------------------------------------------------------
(* The theorems. *)

\* TypeOK: every variable stays within its type.
THEOREM TypeCorrect == Spec => []TypeOK
<1>1. Inv => TypeOK
  BY DEF Inv
<1> QED
  BY <1>1, InvHolds, PTL

\* EveryHitIsScored: never more credits, those of the players that left
\* included, than enemies killed and points of health the boss lost; as many
\* while nobody has left, also when the owner of a bullet died before it hit.
THEOREM HitsAreScoredOnce == Spec => []EveryHitIsScored
<1>1. Inv => EveryHitIsScored
  BY DEF Inv
<1> QED
  BY <1>1, InvHolds, PTL

\* BossComesAfterTheLastEnemy: the count of enemies that calls in the boss is
\* a step old, and late is safe: none is left behind.
THEOREM BossComesLast == Spec => []BossComesAfterTheLastEnemy
<1>1. Inv => BossComesAfterTheLastEnemy
  BY DEF Inv
<1> QED
  BY <1>1, InvHolds, PTL

\* How a step ends: who is in the match stays, and unless it is lost somebody
\* is alive after all the hits; it is won only with the boss dead.
LEMMA HowStepsEnd ==
  ASSUME Step
  PROVE  /\ present' = present
         /\ phase \notin Terminal
         /\ phase' # "GAME_OVER" => \E p \in present : lives'[p] # 0
         /\ phase' = "WON" => boss'.health <= 0
<1>1. CASE EnemiesEntrance
  BY <1>1 DEF EnemiesEntrance, Settle, Terminal
<1>2. CASE FightEnemies
  BY <1>2 DEF FightEnemies, Settle, Terminal
<1>3. CASE BossEntrance
  BY <1>3 DEF BossEntrance, Settle, Terminal
<1>4. CASE FightBoss
  BY <1>4 DEF FightBoss, Settle, Terminal
<1> QED
  BY <1>1, <1>2, <1>3, <1>4 DEF Step

\* WonBySurvivors: the last bullets of both sides may hit in one step; then
\* the match is lost.
THEOREM MatchesAreWonBySurvivors == Spec => WonBySurvivors
<1> DEFINE Survived == phase # "WON" /\ phase' = "WON" =>
                         /\ boss'.health <= 0
                         /\ \E p \in present' : lives'[p] > 0
<1>1. TypeOK /\ TypeOK' /\ [Next]_vars => [Survived]_vars
  <2> SUFFICES ASSUME TypeOK, TypeOK', Next, phase # "WON", phase' = "WON"
               PROVE  boss'.health <= 0 /\ \E p \in present' : lives'[p] > 0
    OBVIOUS
  <2>1. Step
    BY DEF Next, RemovePlayer
  <2>2. PICK p \in present' : lives'[p] # 0
    BY <2>1, HowStepsEnd
  <2>3. p \in Players /\ lives'[p] \in Nat
    BY <2>2, CoopAssumption DEF TypeOK
  <2> QED
    BY <2>1, <2>2, <2>3, HowStepsEnd
<1> QED
  BY <1>1, TypeCorrect, PTL DEF Spec, WonBySurvivors

\* VerdictIsFinal: a match that is over stays as it ended, whoever leaves.
THEOREM VerdictsAreFinal == Spec => VerdictIsFinal
<1>1. [Next]_vars => [(phase \in Terminal) => UNCHANGED phase]_vars
  BY HowStepsEnd DEF Next, RemovePlayer
<1> QED
  BY <1>1, PTL DEF Spec, VerdictIsFinal

\* KeepsSimContract: the server's model of a simulation allows all a coop
\* match does, the end by the last one leaving included.
THEOREM CoopSimKeepsItsContract == Spec => KeepsSimContract
<1> DEFINE Allowed ==
             \/ /\ Contract'.roster = Contract.roster
                /\ MayEndAs(Contract, Contract'.over, TRUE)
             \/ \E p \in present : Contract' = SimWithout(Contract, {p}, TRUE)
<1>1. [Next]_vars => [Allowed]_vars
  <2> SUFFICES ASSUME Next PROVE Allowed
    OBVIOUS
  <2>1. CASE Step
    <3>1. /\ present' = present /\ phase \notin Terminal
          /\ phase' \notin Terminal => present # {}
      BY <2>1, HowStepsEnd DEF Terminal
    <3>2. Contract'.roster = Contract.roster
      BY <3>1 DEF Contract
    <3>3. ~ Contract.over /\ (Contract'.over <=> phase' \in Terminal)
      BY <3>1 DEF Contract
    <3>4. present # {} => Contested(Contract, TRUE)
      BY DEF Contested, IsEmptyRoster, Contract
    <3> QED
      BY <3>1, <3>2, <3>3, <3>4 DEF MayEndAs
  <2>2. ASSUME NEW p \in Players, RemovePlayer(p) PROVE Allowed
    <3>1. /\ p \in present /\ present' = present \ {p}
          /\ phase' = IF phase \notin Terminal /\ present' = {} THEN "GAME_OVER"
                      ELSE phase
      BY <2>2 DEF RemovePlayer
    <3>2. RosterWithout(Contract.roster, {p}) = [t \in {NoTeam} |-> present']
      BY <3>1 DEF RosterWithout, Contract
    <3>3. IsEmptyRoster(RosterWithout(Contract.roster, {p})) <=> present' = {}
      BY <3>2 DEF IsEmptyRoster
    <3>4. (phase' \in Terminal) = (phase \in Terminal \/ present' = {})
      BY <3>1 DEF Terminal
    <3>5. SimWithout(Contract, {p}, TRUE)
            = [roster |-> [t \in {NoTeam} |-> present'],
               over |-> phase \in Terminal \/ present' = {}]
      BY <3>2, <3>3 DEF SimWithout, Contract
    <3>6. Contract' = [roster |-> [t \in {NoTeam} |-> present'],
                       over |-> phase' \in Terminal]
      BY DEF Contract
    <3> QED
      BY <3>1, <3>4, <3>5, <3>6
  <2> QED
    BY <2>1, <2>2 DEF Next
<1> QED
  BY <1>1, PTL DEF Spec, KeepsSimContract
=============================================================================
