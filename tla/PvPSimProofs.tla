----------------------------- MODULE PvPSimProofs ----------------------------
(***************************************************************************)
(* A PvP match, for every roster of at most two teams, every number of     *)
(* lives and every size of the bullet pool.                                *)
(***************************************************************************)
EXTENDS PvPSim, FiniteSetTheorems, WellFoundedInduction, TLAPS

-----------------------------------------------------------------------------
(* Sums.  MapThenSumSet is defined by recursion over sets; the sum is the  *)
(* number of points below a function, which the theorems on cardinality    *)
(* speak about.                                                            *)

\* A nonempty set of subsets of a finite set has a minimal one.
LEMMA MinimalSubset ==
  ASSUME NEW S, IsFiniteSet(S), NEW Bad \in SUBSET (SUBSET S), Bad # {}
  PROVE  \E s \in Bad : \A t \in Bad : t \subseteq s => t = s
<1>1. Bad \subseteq FiniteSubsetsOf(S)
  BY FS_Subset DEF FiniteSubsetsOf
<1>2. PICK s \in Bad : \A t \in Bad : ~ (<<t, s>> \in StrictSubsetOrdering(S))
  BY <1>1, FS_StrictSubsetOrderingWellFounded, WFMin
<1>3. ASSUME NEW t \in Bad, t \subseteq s, t # s
      PROVE  FALSE
  <2>1. <<t, s>> \in StrictSubsetOrdering(S)
    BY <1>3 DEF StrictSubsetOrdering
  <2> QED
    BY <1>2, <2>1, Zenon
<1> QED
  BY <1>3

\* The sum of f over S, as the number of points below the graph of f.
Below(f, S) == UNION {{p} \X (1 .. f[p]) : p \in S}
Total(f, S) == Cardinality(Below(f, S))

\* The area below a function is finite.
LEMMA BelowIsFinite ==
  ASSUME NEW S, IsFiniteSet(S), NEW f \in [S -> Nat], NEW s \in SUBSET S
  PROVE  IsFiniteSet(Below(f, s)) /\ Total(f, s) \in Nat
<1> DEFINE col == [p \in s |-> {p} \X (1 .. f[p])]
<1>1. IsFiniteSet(s)
  BY FS_Subset
<1>2. {col[p] : p \in s} = {{p} \X (1 .. f[p]) : p \in s}
  OBVIOUS
<1>3. IsFiniteSet({col[p] : p \in s})
  <2>1. col \in [s -> {col[p] : p \in s}]
    OBVIOUS
  <2> HIDE DEF col
  <2>2. col \in Surjection(s, {col[p] : p \in s})
    BY <2>1 DEF Surjection
  <2> QED
    BY <1>1, <2>2, FS_Surjection DEF ExistsSurjection
<1>4. ASSUME NEW p \in s
      PROVE  IsFiniteSet({p} \X (1 .. f[p]))
  <2>1. f[p] \in Nat /\ IsFiniteSet({p})
    BY FS_Singleton
  <2>2. IsFiniteSet(1 .. f[p])
    BY <2>1, FS_Interval
  <2> QED
    BY <2>1, <2>2, FS_Product
<1>5. IsFiniteSet(Below(f, s))
  BY <1>2, <1>3, <1>4, FS_UNION DEF Below
<1> QED
  BY <1>5, FS_CardinalityType DEF Total

\* An element adds its value to the sum of the others.
LEMMA TotalStep ==
  ASSUME NEW S, IsFiniteSet(S), NEW f \in [S -> Nat], NEW s \in SUBSET S,
         NEW x \in s
  PROVE  Total(f, s) = f[x] + Total(f, s \ {x})
<1> DEFINE col == {x} \X (1 .. f[x])
           rest == Below(f, s \ {x})
<1>1. IsFiniteSet(rest) /\ Cardinality(rest) \in Nat
  BY BelowIsFinite DEF Total
<1>2. IsFiniteSet(col) /\ Cardinality(col) = f[x]
  <2>1. f[x] \in Nat /\ IsFiniteSet(1 .. f[x]) /\ Cardinality(1 .. f[x]) = f[x]
    BY FS_Interval
  <2> DEFINE stack == [n \in 1 .. f[x] |-> <<x, n>>]
  <2>2. /\ stack \in [1 .. f[x] -> col]
        /\ \A n, m \in 1 .. f[x] : stack[n] = stack[m] => n = m
        /\ \A e \in col : \E n \in 1 .. f[x] : stack[n] = e
    OBVIOUS
  <2> HIDE DEF stack, col
  <2>3. stack \in Bijection(1 .. f[x], col)
    BY <2>2 DEF Bijection, Injection, Surjection, IsInjective
  <2> QED
    BY <2>1, <2>3, FS_Bijection DEF ExistsBijection
<1>3. Below(f, s) = col \cup rest /\ col \cap rest = {}
  BY DEF Below
<1> QED
  <2>1. Cardinality(col \cap rest) = 0
    BY <1>3, FS_EmptySet
  <2> HIDE DEF col, rest
  <2>2. Cardinality(col \cup rest)
          = Cardinality(col) + Cardinality(rest) - Cardinality(col \cap rest)
    BY <1>1, <1>2, FS_Union
  <2> QED
    BY <1>1, <1>2, <1>3, <2>1, <2>2 DEF Total, rest

\* Nothing sums up to nothing.
LEMMA TotalOfNone ==
  ASSUME NEW f PROVE Total(f, {}) = 0
<1>1. Below(f, {}) = {}
  BY DEF Below
<1> QED
  BY <1>1, FS_EmptySet DEF Total

\* The recursion of MapThenSumSet over S.
Folds(iter, f, S) ==
  iter = [s \in SUBSET S |->
            IF s = {} THEN 0
            ELSE f[CHOOSE x \in s : TRUE] + iter[s \ {CHOOSE x \in s : TRUE}]]

\* There is a function with this recursion, and every one of them sums f.
LEMMA TotalFolds ==
  ASSUME NEW S, IsFiniteSet(S), NEW f \in [S -> Nat]
  PROVE  /\ Folds([s \in SUBSET S |-> Total(f, s)], f, S)
         /\ \A iter : Folds(iter, f, S) => iter[S] = Total(f, S)
<1>1. \A s \in SUBSET S : s # {} => (CHOOSE x \in s : TRUE) \in s
  OBVIOUS
<1>2. ASSUME NEW s \in SUBSET S, NEW x \in s
      PROVE  Total(f, s) = f[x] + Total(f, s \ {x})
  BY TotalStep
<1>3. Total(f, {}) = 0
  BY TotalOfNone
<1>4. Folds([s \in SUBSET S |-> Total(f, s)], f, S)
  <2> DEFINE pick(s) == CHOOSE x \in s : TRUE
             w == [s \in SUBSET S |-> Total(f, s)]
  <2>1. \A s \in SUBSET S : s # {} => pick(s) \in s
    BY <1>1
  <2> HIDE DEF pick
  <2>2. \A s \in SUBSET S :
          w[s] = IF s = {} THEN 0 ELSE f[pick(s)] + w[s \ {pick(s)}]
    BY <1>2, <1>3, <2>1
  <2>3. w = [s \in SUBSET S |->
               IF s = {} THEN 0 ELSE f[pick(s)] + w[s \ {pick(s)}]]
    BY <2>2
  <2> QED
    BY <2>3 DEF Folds, pick
<1>5. ASSUME NEW iter, Folds(iter, f, S) PROVE iter[S] = Total(f, S)
  <2> DEFINE Bad == {s \in SUBSET S : iter[s] # Total(f, s)}
             pick(s) == CHOOSE x \in s : TRUE
  <2>1. SUFFICES ASSUME Bad # {} PROVE FALSE
    OBVIOUS
  <2>2. PICK s \in Bad : \A t \in Bad : t \subseteq s => t = s
    <3>1. Bad \in SUBSET (SUBSET S)
      OBVIOUS
    <3> HIDE DEF Bad
    <3> QED
      BY <2>1, <3>1, MinimalSubset
  <2>3. \A t \in SUBSET S : t # {} => pick(t) \in t
    BY <1>1
  <2>4. \A t \in SUBSET S : iter[t] = IF t = {} THEN 0
                                       ELSE f[pick(t)] + iter[t \ {pick(t)}]
    BY <1>5 DEF Folds
  <2> HIDE DEF pick
  <2>5. s # {}
    BY <1>3, <2>2, <2>4
  <2>6. s \ {pick(s)} \notin Bad /\ s \ {pick(s)} \in SUBSET S
    BY <2>2, <2>3, <2>5
  <2>7. iter[s \ {pick(s)}] = Total(f, s \ {pick(s)})
    BY <2>6
  <2> QED
    BY <1>2, <2>2, <2>3, <2>4, <2>5, <2>7
<1> QED
  BY <1>4, <1>5

\* How many of the things of B have their owner in s.
Share(B, own, s) == Cardinality({b \in B : own[b] \in s})

\* Each thing has one owner: shares add up.
LEMMA SharesAdd ==
  ASSUME NEW B, IsFiniteSet(B), NEW own, NEW s, NEW x \in s
  PROVE  /\ Share(B, own, s) = Share(B, own, {x}) + Share(B, own, s \ {x})
         /\ Share(B, own, {x}) \in Nat /\ Share(B, own, s \ {x}) \in Nat
         /\ Share(B, own, {}) = 0
<1> DEFINE Owned(t) == {b \in B : own[b] \in t}
<1>1. IsFiniteSet(Owned({x})) /\ IsFiniteSet(Owned(s \ {x}))
  BY FS_Subset
<1>2. /\ Owned(s) = Owned({x}) \cup Owned(s \ {x})
      /\ Owned({x}) \cap Owned(s \ {x}) = {}
      /\ Owned({}) = {}
  OBVIOUS
<1>3. \A t : Share(B, own, t) = Cardinality(Owned(t))
  BY DEF Share
<1> HIDE DEF Owned
<1>4. /\ Cardinality(Owned({x})) \in Nat /\ Cardinality(Owned(s \ {x})) \in Nat
      /\ Cardinality(Owned({x}) \cup Owned(s \ {x}))
           = Cardinality(Owned({x})) + Cardinality(Owned(s \ {x}))
             - Cardinality(Owned({x}) \cap Owned(s \ {x}))
  BY <1>1, FS_Union, FS_CardinalityType
<1>5. /\ Cardinality(Owned({x}) \cap Owned(s \ {x})) = 0
      /\ Cardinality(Owned({})) = 0
  BY <1>2, FS_EmptySet
<1>6. Cardinality(Owned(s)) = Cardinality(Owned({x}) \cup Owned(s \ {x}))
  BY <1>2
<1> QED
  BY <1>3, <1>4, <1>5, <1>6

\* Each player of S goes from f to g by its share.
Gains(f, g, S, B, own) == \A p \in S : g[p] = f[p] + Share(B, own, {p})

\* What the players of s gain together is their share.
LEMMA TotalGrows ==
  ASSUME NEW S, IsFiniteSet(S), NEW f \in [S -> Nat], NEW g \in [S -> Nat],
         NEW B, IsFiniteSet(B), NEW own, Gains(f, g, S, B, own)
  PROVE  \A s \in SUBSET S : Total(g, s) = Total(f, s) + Share(B, own, s)
<1> DEFINE Bad == {s \in SUBSET S :
                     Total(g, s) # Total(f, s) + Share(B, own, s)}
<1>1. SUFFICES ASSUME Bad # {} PROVE FALSE
  OBVIOUS
<1>2. PICK s \in Bad : \A t \in Bad : t \subseteq s => t = s
  <2>1. Bad \in SUBSET (SUBSET S)
    OBVIOUS
  <2> HIDE DEF Bad
  <2> QED
    BY <1>1, <2>1, MinimalSubset
<1>3. s \in SUBSET S /\ Total(g, s) # Total(f, s) + Share(B, own, s)
  BY <1>2
<1>4. s # {}
  <2> SUFFICES ASSUME s = {} PROVE FALSE
    OBVIOUS
  <2>1. {b \in B : own[b] \in s} = {}
    OBVIOUS
  <2>2. Share(B, own, s) = 0
    BY <2>1, FS_EmptySet DEF Share
  <2> QED
    BY <1>3, <2>2, TotalOfNone
<1>5. PICK x \in s : TRUE
  BY <1>4
<1>6. /\ s \ {x} \in SUBSET S
      /\ Total(g, s \ {x}) = Total(f, s \ {x}) + Share(B, own, s \ {x})
  BY <1>2, <1>5
<1>7. /\ Total(g, s) = g[x] + Total(g, s \ {x})
      /\ Total(f, s) = f[x] + Total(f, s \ {x})
  BY <1>3, <1>5, TotalStep
<1>8. /\ Total(f, s \ {x}) \in Nat /\ Total(g, s \ {x}) \in Nat
      /\ f[x] \in Nat /\ g[x] \in Nat
      /\ g[x] = f[x] + Share(B, own, {x})
  BY <1>3, <1>5, BelowIsFinite DEF Gains
<1> HIDE DEF Bad
<1>9. /\ Share(B, own, s) = Share(B, own, {x}) + Share(B, own, s \ {x})
      /\ Share(B, own, {x}) \in Nat /\ Share(B, own, s \ {x}) \in Nat
  BY <1>5, SharesAdd
<1> QED
  BY <1>3, <1>6, <1>7, <1>8, <1>9

-----------------------------------------------------------------------------
(* What the properties sum up. *)

\* The points of a side.
LEMMA PointsAreTotal ==
  ASSUME NEW side \in SUBSET Players, NEW f \in [Players -> Nat],
         \A p \in Players : f[p] = points[p]
  PROVE  PointsOf(side) = Total(f, side)
<1> DEFINE pick(s) == CHOOSE x \in s : TRUE
           h == [p \in side |-> f[p]]
           Is(iter) ==
             iter = [s \in SUBSET side |->
                       IF s = {} THEN 0
                       ELSE points[pick(s)] + iter[s \ {pick(s)}]]
           it == CHOOSE iter : Is(iter)
           sum == [s \in SUBSET side |-> Total(h, s)]
<1>1. IsFiniteSet(side)
  BY PvPAssumption, FS_Subset
<1>2. PointsOf(side) = it[side]
  BY DEF PointsOf, MapThenSumSet, MapThenFoldSet
<1>3. h \in [side -> Nat] /\ Total(h, side) = Total(f, side)
  BY DEF Total, Below
<1>4. \A s \in SUBSET side : s # {} => pick(s) \in side
  OBVIOUS
<1>5. \A iter : Folds(iter, h, side) <=>
        iter = [s \in SUBSET side |->
                  IF s = {} THEN 0 ELSE h[pick(s)] + iter[s \ {pick(s)}]]
  BY DEF Folds
<1> HIDE DEF pick
<1>6. \A s \in SUBSET side :
        s # {} => h[pick(s)] = points[pick(s)]
  BY <1>4
<1> HIDE DEF h
<1>7. \A iter : Folds(iter, h, side) <=> Is(iter)
  <2> SUFFICES ASSUME NEW iter PROVE Folds(iter, h, side) <=> Is(iter)
    OBVIOUS
  <2>1. \A s \in SUBSET side :
          (IF s = {} THEN 0 ELSE h[pick(s)] + iter[s \ {pick(s)}])
            = (IF s = {} THEN 0 ELSE points[pick(s)] + iter[s \ {pick(s)}])
    BY <1>6
  <2>2. [s \in SUBSET side |->
           IF s = {} THEN 0 ELSE h[pick(s)] + iter[s \ {pick(s)}]]
          = [s \in SUBSET side |->
               IF s = {} THEN 0
               ELSE points[pick(s)] + iter[s \ {pick(s)}]]
    BY <2>1
  <2> QED
    BY <1>5, <2>2
<1> HIDE DEF Is
<1>8. Folds(sum, h, side)
  BY <1>1, <1>3, TotalFolds
<1>9. Is(it)
  BY <1>7, <1>8
<1> HIDE DEF it, sum
<1>10. it[side] = Total(h, side)
  BY <1>1, <1>3, <1>7, <1>9, TotalFolds
<1> QED
  BY <1>2, <1>3, <1>10

\* The lives lost by a side.
LEMMA LivesLostAreTotal ==
  ASSUME NEW side \in SUBSET Players, NEW f \in [Players -> Nat],
         \A p \in Players : f[p] = InitialLives - lives[p]
  PROVE  LivesLost(side) = Total(f, side)
<1> DEFINE pick(s) == CHOOSE x \in s : TRUE
           h == [p \in side |-> f[p]]
           Is(iter) ==
             iter = [s \in SUBSET side |->
                       IF s = {} THEN 0
                       ELSE (InitialLives - lives[pick(s)]) + iter[s \ {pick(s)}]]
           it == CHOOSE iter : Is(iter)
           sum == [s \in SUBSET side |-> Total(h, s)]
<1>1. IsFiniteSet(side)
  BY PvPAssumption, FS_Subset
<1>2. LivesLost(side) = it[side]
  BY DEF LivesLost, MapThenSumSet, MapThenFoldSet
<1>3. h \in [side -> Nat] /\ Total(h, side) = Total(f, side)
  BY DEF Total, Below
<1>4. \A s \in SUBSET side : s # {} => pick(s) \in side
  OBVIOUS
<1>5. \A iter : Folds(iter, h, side) <=>
        iter = [s \in SUBSET side |->
                  IF s = {} THEN 0 ELSE h[pick(s)] + iter[s \ {pick(s)}]]
  BY DEF Folds
<1> HIDE DEF pick
<1>6. \A s \in SUBSET side :
        s # {} => h[pick(s)] = (InitialLives - lives[pick(s)])
  BY <1>4
<1> HIDE DEF h
<1>7. \A iter : Folds(iter, h, side) <=> Is(iter)
  <2> SUFFICES ASSUME NEW iter PROVE Folds(iter, h, side) <=> Is(iter)
    OBVIOUS
  <2>1. \A s \in SUBSET side :
          (IF s = {} THEN 0 ELSE h[pick(s)] + iter[s \ {pick(s)}])
            = (IF s = {} THEN 0 ELSE (InitialLives - lives[pick(s)]) + iter[s \ {pick(s)}])
    BY <1>6
  <2>2. [s \in SUBSET side |->
           IF s = {} THEN 0 ELSE h[pick(s)] + iter[s \ {pick(s)}]]
          = [s \in SUBSET side |->
               IF s = {} THEN 0
               ELSE (InitialLives - lives[pick(s)]) + iter[s \ {pick(s)}]]
    BY <2>1
  <2> QED
    BY <1>5, <2>2
<1> HIDE DEF Is
<1>8. Folds(sum, h, side)
  BY <1>1, <1>3, TotalFolds
<1>9. Is(it)
  BY <1>7, <1>8
<1> HIDE DEF it, sum
<1>10. it[side] = Total(h, side)
  BY <1>1, <1>3, <1>7, <1>9, TotalFolds
<1> QED
  BY <1>2, <1>3, <1>10

\* The lives each player has lost.
Lost == [p \in Players |-> InitialLives - lives[p]]

SumsAreTotals ==
  \A side \in SUBSET Players : /\ PointsOf(side) = Total(points, side)
                               /\ LivesLost(side) = Total(Lost, side)

\* The sums of the properties are totals, in every state of the right types.
LEMMA Totals == TypeOK => SumsAreTotals
<1> SUFFICES ASSUME TypeOK, NEW side \in SUBSET Players
             PROVE  /\ PointsOf(side) = Total(points, side)
                    /\ LivesLost(side) = Total(Lost, side)
  BY DEF SumsAreTotals
<1>1. points \in [Players -> Nat] /\ Lost \in [Players -> Nat]
  BY PvPAssumption DEF TypeOK, Lost
<1>2. \A p \in Players : Lost[p] = InitialLives - lives[p]
  BY DEF Lost
<1> QED
  BY <1>1, <1>2, PointsAreTotal, LivesLostAreTotal

-----------------------------------------------------------------------------
(* The parts of a step. *)

\* Every set of bullets is finite.
LEMMA PoolIsFinite ==
  ASSUME NEW B \in SUBSET Pool
  PROVE  IsFiniteSet(B) /\ Cardinality(B) \in Nat
<1>1. IsFiniteSet(Pool)
  BY PvPAssumption, FS_Interval DEF Pool
<1> QED
  BY <1>1, FS_Subset, FS_CardinalityType

\* What a step does, named.
Stepped(pool, gone, hit) ==
  /\ pool \in [Pool -> Players \cup {NoBullet}]
  /\ gone \in SUBSET {b \in Pool : pool[b] # NoBullet}
  /\ hit \in Hits([b \in Pool |-> IF b \in gone THEN NoBullet ELSE pool[b]])
  /\ lives' = [p \in Players |->
                 IF p \in present THEN lives[p] - HitsOn(hit, p) ELSE lives[p]]
  /\ points' = [p \in Players |-> points[p] + HitsBy(hit, pool, p)]
  /\ bullets' = SpentOrGone(pool, hit, gone)
  /\ outcome' = Judge(StandingTeams(lives')).outcome
  /\ phase' = IF Judge(StandingTeams(lives')).over THEN "END" ELSE phase
  /\ phase = "PLAYERS_FIGHT" /\ present' = present

\* Every step is one of these.
LEMMA StepIsStepped ==
  ASSUME Step
  PROVE  \E pool, gone, hit : Stepped(pool, gone, hit)
<1>1. PICK shooters, pool, gone, hit :
        /\ pool \in Fired(shooters)
        /\ gone \in SUBSET {b \in Pool : pool[b] # NoBullet}
        /\ hit \in Hits([b \in Pool |-> IF b \in gone THEN NoBullet ELSE pool[b]])
        /\ lives' = [p \in Players |->
                       IF p \in present THEN lives[p] - HitsOn(hit, p)
                                        ELSE lives[p]]
        /\ points' = [p \in Players |-> points[p] + HitsBy(hit, pool, p)]
        /\ bullets' = SpentOrGone(pool, hit, gone)
        /\ outcome' = Judge(StandingTeams(lives')).outcome
        /\ phase' = IF Judge(StandingTeams(lives')).over THEN "END" ELSE phase
  BY DEF Step
<1>2. pool \in [Pool -> Players \cup {NoBullet}]
  BY <1>1 DEF Fired
<1> QED
  BY <1>1, <1>2 DEF Step, Stepped

\* Each hit has a victim and an owner, of different teams, and takes no more
\* lives than there are.
LEMMA HitsAreFair ==
  ASSUME TypeOK, NEW pool, NEW gone, NEW hit, Stepped(pool, gone, hit)
  PROVE  /\ \A b \in Pool : hit[b] \in present \cup {NoBullet}
         /\ \A b \in Pool : hit[b] # NoBullet =>
              /\ hit[b] \in Players /\ pool[b] \in Players
              /\ Team[hit[b]] # Team[pool[b]]
         /\ \A p \in present : HitsOn(hit, p) \in 0 .. lives[p]
<1> DEFINE kept == [b \in Pool |-> IF b \in gone THEN NoBullet ELSE pool[b]]
           flying == {b \in Pool : kept[b] # NoBullet}
<1>1. /\ hit \in [Pool -> present \cup {NoBullet}]
      /\ \A b \in Pool : hit[b] # NoBullet =>
           b \in flying /\ Team[hit[b]] # Team[kept[b]]
      /\ \A p \in present : Cardinality({b \in flying : hit[b] = p}) <= lives[p]
  BY DEF Stepped, Hits
<1>2. \A b \in flying : kept[b] = pool[b] /\ pool[b] \in Players
  BY DEF Stepped
<1>3. ASSUME NEW p \in present PROVE HitsOn(hit, p) \in 0 .. lives[p]
  <2>1. p # NoBullet /\ lives[p] \in Nat
    BY PvPAssumption DEF TypeOK
  <2>2. {b \in Pool : hit[b] = p} = {b \in flying : hit[b] = p}
    BY <1>1, <2>1
  <2>3. HitsOn(hit, p) \in Nat
    BY PoolIsFinite DEF HitsOn
  <2> QED
    BY <1>1, <2>1, <2>2, <2>3 DEF HitsOn
<1> QED
  BY <1>1, <1>2, <1>3 DEF TypeOK

\* A verdict is an outcome of each team, or none yet.
LEMMA JudgeType ==
  ASSUME NEW standing, outcome \in [Teams -> {"PLAYING", "WON", "LOST", "DREW"}]
  PROVE  /\ Judge(standing).outcome \in [Teams -> {"PLAYING", "WON", "LOST", "DREW"}]
         /\ Judge(standing).over \in BOOLEAN
BY DEF Judge

\* The pool of a step stays a pool.
LEMMA StepKeepsTypes ==
  ASSUME TypeOK, Step
  PROVE  TypeOK'
<1>1. PICK pool, gone, hit : Stepped(pool, gone, hit)
  BY StepIsStepped
<1>2. lives' \in [Players -> 0 .. InitialLives]
  <2>1. \A p \in Players :
          /\ lives[p] \in 0 .. InitialLives
          /\ p \in present => HitsOn(hit, p) \in 0 .. lives[p]
    BY <1>1, HitsAreFair DEF TypeOK
  <2>2. \A p \in Players : lives'[p] \in 0 .. InitialLives
    BY <1>1, <2>1, PvPAssumption DEF Stepped
  <2> QED
    BY <1>1, <2>2 DEF Stepped
<1>3. points' \in [Players -> Nat]
  <2>1. \A p \in Players : HitsBy(hit, pool, p) \in Nat
    BY PoolIsFinite DEF HitsBy
  <2> QED
    BY <1>1, <2>1 DEF Stepped, TypeOK
<1>4. bullets' \in [Pool -> Players \cup {NoBullet}]
  BY <1>1 DEF Stepped, SpentOrGone
<1>5. /\ outcome' \in [Teams -> {"PLAYING", "WON", "LOST", "DREW"}]
      /\ phase' \in {"PLAYERS_FIGHT", "END"}
      /\ present' \subseteq Players
  BY <1>1, JudgeType DEF Stepped, TypeOK
<1> QED
  BY <1>2, <1>3, <1>4, <1>5 DEF TypeOK

\* TypeOK: a hit never takes a life that is not there, and no operation
\* leaves the types of game_sim.h.
THEOREM TypeCorrect == Spec => []TypeOK
<1>1. Init => TypeOK
  BY PvPAssumption DEF Init, TypeOK
<1>2. TypeOK /\ [Next]_vars => TypeOK'
  <2> SUFFICES ASSUME TypeOK, [Next]_vars PROVE TypeOK'
    OBVIOUS
  <2>1. CASE Step
    BY <2>1, StepKeepsTypes
  <2>2. ASSUME NEW p \in Players, RemovePlayer(p) PROVE TypeOK'
    BY <2>2 DEF RemovePlayer, TypeOK
  <2>3. CASE UNCHANGED vars
    BY <2>3 DEF vars, TypeOK
  <2> QED
    BY <2>1, <2>2, <2>3 DEF Next
<1> QED
  BY <1>1, <1>2, PTL DEF Spec

-----------------------------------------------------------------------------
(* Scores. *)

\* There are at most two teams: who is not of one is of the other.
LEMMA TwoTeams ==
  ASSUME NEW t \in Teams, NEW p \in Players, NEW q \in Players,
         Team[p] # Team[q]
  PROVE  Team[p] = t <=> Team[q] # t
<1>1. IsFiniteSet(Teams)
  <2> DEFINE f == [r \in Players |-> Team[r]]
  <2>1. f \in Surjection(Players, Teams)
    BY DEF Surjection, Teams
  <2> HIDE DEF f
  <2> QED
    BY <2>1, PvPAssumption, FS_Surjection DEF ExistsSurjection
<1>2. Team[p] \in Teams /\ Team[q] \in Teams
  BY DEF Teams
<1>3. ASSUME Team[p] # t, Team[q] # t PROVE FALSE
  <2> DEFINE pair == {Team[p], Team[q]}
             three == pair \cup {t}
  <2>1. IsFiniteSet(pair) /\ Cardinality(pair) = 2
    <3>1. IsFiniteSet({Team[p]}) /\ Cardinality({Team[p]}) = 1
      BY FS_Singleton
    <3>2. pair = {Team[p]} \cup {Team[q]} /\ Team[q] \notin {Team[p]}
      OBVIOUS
    <3> HIDE DEF pair
    <3>3. /\ IsFiniteSet({Team[p]} \cup {Team[q]})
          /\ Cardinality({Team[p]} \cup {Team[q]}) = Cardinality({Team[p]}) + 1
      BY <3>1, <3>2, FS_AddElement
    <3> QED
      BY <3>1, <3>2, <3>3
  <2>2. t \notin pair
    BY <1>3
  <2>3. three \in SUBSET Teams
    BY <1>2
  <2> HIDE DEF pair
  <2>4. Cardinality(three) = 3
    BY <2>1, <2>2, FS_AddElement
  <2>5. Cardinality(three) <= Cardinality(Teams)
    BY <1>1, <2>3, FS_Subset
  <2>6. Cardinality(Teams) \in Nat
    BY <1>1, FS_CardinalityType
  <2> HIDE DEF three
  <2> QED
    BY <2>4, <2>5, <2>6, PvPAssumption
<1> QED
  BY <1>3

\* The points of a side are bounded by the lives the others lost; this and the
\* types are inductive.
Scored == TypeOK /\ EveryLifeLostIsScored

\* A step adds to a side no more points than lives to what the others lost, and
\* as many while nobody of the side has left.
LEMMA StepScores ==
  ASSUME Scored, Step
  PROVE  EveryLifeLostIsScored'
<1> SUFFICES ASSUME NEW t \in Teams
             PROVE  LET side == {p \in Players : Team[p] = t}
                        lost == LivesLost(Players \ side)'
                    IN  /\ PointsOf(side)' <= lost
                        /\ side \subseteq present' => PointsOf(side)' = lost
  BY DEF EveryLifeLostIsScored
<1> DEFINE side == {p \in Players : Team[p] = t}
           others == Players \ side
<1>1. PICK pool, gone, hit : Stepped(pool, gone, hit)
  BY StepIsStepped
<1> PICK B : B = {b \in Pool : hit[b] # NoBullet}
  OBVIOUS
<1> PICK C : C = {b \in B : pool[b] \in present}  \* those credited
  OBVIOUS
<1>2. TypeOK /\ TypeOK' /\ present' = present
  BY <1>1, StepKeepsTypes DEF Scored, Stepped
<1>3. /\ points \in [Players -> Nat] /\ points' \in [Players -> Nat]
      /\ Lost \in [Players -> Nat] /\ Lost' \in [Players -> Nat]
  BY <1>2, PvPAssumption DEF TypeOK, Lost
<1>4. IsFiniteSet(B) /\ IsFiniteSet(C) /\ IsFiniteSet(Players)
  BY PoolIsFinite, PvPAssumption
<1>5. \A b \in B : /\ hit[b] \in present
                   /\ hit[b] \in Players /\ pool[b] \in Players
                   /\ Team[hit[b]] # Team[pool[b]]
  BY <1>1, <1>2, HitsAreFair
<1>6. \A p \in Players :
        points'[p] = points[p] + Share(C, pool, {p})
  <2>1. ASSUME NEW p \in Players, p \in present
        PROVE  {b \in C : pool[b] \in {p}}
                 = {b \in Pool : hit[b] # NoBullet /\ pool[b] = p}
    BY <2>1
  <2>2. ASSUME NEW p \in Players, p \notin present
        PROVE  Share(C, pool, {p}) = 0
    <3>1. {b \in C : pool[b] \in {p}} = {}
      BY <2>2
    <3> QED
      BY <3>1, FS_EmptySet DEF Share
  <2>3. \A p \in Players : HitsBy(hit, pool, p) = Share(C, pool, {p})
    BY <2>1, <2>2 DEF HitsBy, Share
  <2> QED
    BY <1>1, <2>3 DEF Stepped
<1>7. \A p \in Players :
        Lost'[p] = Lost[p] + Share(B, hit, {p})
  <2> SUFFICES ASSUME NEW p \in Players
               PROVE  Lost'[p] = Lost[p] + Share(B, hit, {p})
    OBVIOUS
  <2>1. {b \in B : hit[b] \in {p}} = {b \in Pool : hit[b] = p}
    BY PvPAssumption
  <2>2. Share(B, hit, {p}) = HitsOn(hit, p)
    BY <2>1 DEF HitsOn, Share
  <2>3. lives'[p] = lives[p] - HitsOn(hit, p)
    <3>1. CASE p \in present
      BY <1>1, <3>1 DEF Stepped
    <3>2. CASE p \notin present  \* nobody hits who has left
      <4>1. {b \in B : hit[b] \in {p}} = {}
        BY <1>5, <3>2
      <4>2. HitsOn(hit, p) = 0
        BY <2>2, <4>1, FS_EmptySet DEF Share
      <4>3. lives'[p] = lives[p] /\ lives[p] \in Nat
        BY <1>1, <1>2, <3>2 DEF Stepped, TypeOK
      <4> QED
        BY <4>2, <4>3
    <3> QED
      BY <3>1, <3>2
  <2>4. HitsOn(hit, p) \in Nat /\ lives[p] \in Nat
    BY <1>2, PoolIsFinite DEF HitsOn, TypeOK
  <2> QED
    BY <2>2, <2>3, <2>4, PvPAssumption DEF Lost
<1> DEFINE new == Share(C, pool, side)
           fallen == Share(B, hit, others)
<1>8. /\ {b \in C : pool[b] \in side} \in SUBSET {b \in B : hit[b] \in others}
      /\ side \subseteq present =>
           {b \in C : pool[b] \in side} = {b \in B : hit[b] \in others}
  <2>1. \A b \in B : Team[pool[b]] = t <=> Team[hit[b]] # t
    BY <1>5, TwoTeams
  <2> QED
    BY <1>5, <2>1
<1>9. /\ new \in Nat /\ fallen \in Nat /\ new <= fallen
      /\ side \subseteq present => new = fallen
  <2>1. IsFiniteSet({b \in B : hit[b] \in others})
    BY <1>4, FS_Subset
  <2> QED
    BY <1>8, <2>1, FS_Subset, FS_CardinalityType DEF Share
<1>10. \A s \in SUBSET Players :
         Total(points', s) = Total(points, s) + Share(C, pool, s)
  <2>1. Gains(points, points', Players, C, pool)
    BY <1>6 DEF Gains
  <2> HIDE DEF side, others, new, fallen
  <2> QED
    BY <1>3, <1>4, <2>1, TotalGrows
<1>11. \A s \in SUBSET Players :
         Total(Lost', s) = Total(Lost, s) + Share(B, hit, s)
  <2>1. Gains(Lost, Lost', Players, B, hit)
    BY <1>7 DEF Gains
  <2> HIDE DEF side, others, new, fallen
  <2> QED
    BY <1>3, <1>4, <2>1, TotalGrows
<1>12. SumsAreTotals /\ SumsAreTotals'
  <2>1. TypeOK' => SumsAreTotals'
    BY Totals, PTL
  <2> QED
    BY <1>2, <2>1, Totals
<1>13. /\ PointsOf(side) <= LivesLost(others)
       /\ side \subseteq present => PointsOf(side) = LivesLost(others)
  BY DEF Scored, EveryLifeLostIsScored
<1>14. /\ PointsOf(side) = Total(points, side)
       /\ LivesLost(others) = Total(Lost, others)
       /\ PointsOf(side)' = Total(points', side)
       /\ LivesLost(others)' = Total(Lost', others)
  BY <1>12 DEF SumsAreTotals
<1>15. /\ Total(points', side) = Total(points, side) + new
       /\ Total(Lost', others) = Total(Lost, others) + fallen
       /\ Total(points, side) \in Nat /\ Total(Lost, others) \in Nat
  <2>1. side \in SUBSET Players /\ others \in SUBSET Players
    OBVIOUS
  <2> HIDE DEF side, others
  <2>2. Total(points, side) \in Nat /\ Total(Lost, others) \in Nat
    BY <1>3, <1>4, <2>1, BelowIsFinite
  <2> QED
    BY <1>10, <1>11, <2>1, <2>2
<1>16. /\ PointsOf(side)' <= LivesLost(others)'
       /\ side \subseteq present => PointsOf(side)' = LivesLost(others)'
  <2> HIDE DEF side, others, new, fallen
  <2> QED
    BY <1>9, <1>13, <1>14, <1>15
<1> QED
  BY <1>2, <1>16

\* Where no life and no point changes, a departure only weakens the claim.
LEMMA LeavingScoresNothing ==
  ASSUME Scored, TypeOK', UNCHANGED <<lives, points>>, present' \subseteq present
  PROVE  Scored'
<1>1. SumsAreTotals /\ SumsAreTotals'
  <2>1. TypeOK' => SumsAreTotals'
    BY Totals, PTL
  <2> QED
    BY <2>1, Totals DEF Scored
<1>2. Lost' = Lost
  BY DEF Lost
<1> SUFFICES ASSUME NEW t \in Teams
             PROVE  LET side == {p \in Players : Team[p] = t}
                        lost == LivesLost(Players \ side)'
                    IN  /\ PointsOf(side)' <= lost
                        /\ side \subseteq present' => PointsOf(side)' = lost
  BY DEF Scored, EveryLifeLostIsScored
<1> DEFINE side == {p \in Players : Team[p] = t}
<1>3. side \in SUBSET Players /\ Players \ side \in SUBSET Players
  OBVIOUS
<1>4. /\ PointsOf(side) <= LivesLost(Players \ side)
      /\ side \subseteq present => PointsOf(side) = LivesLost(Players \ side)
  BY DEF Scored, EveryLifeLostIsScored
<1>5. /\ PointsOf(side)' = PointsOf(side)
      /\ LivesLost(Players \ side)' = LivesLost(Players \ side)
  <2> HIDE DEF side
  <2> QED
    BY <1>1, <1>2, <1>3 DEF SumsAreTotals
<1> QED
  BY <1>4, <1>5

\* Nobody has scored before the first step.
LEMMA ScoredAtFirst == Init => Scored
<1> SUFFICES ASSUME Init PROVE Scored
  OBVIOUS
<1>1. TypeOK
  BY PvPAssumption DEF Init, TypeOK
<1>2. \A p \in Players : points[p] = 0 /\ Lost[p] = 0
  BY PvPAssumption DEF Init, Lost
<1>3. ASSUME NEW side \in SUBSET Players
      PROVE  Total(points, side) = 0 /\ Total(Lost, side) = 0
  <2>1. \A p \in side : 1 .. points[p] = {} /\ 1 .. Lost[p] = {}
    BY <1>2
  <2>2. Below(points, side) = {} /\ Below(Lost, side) = {}
    BY <2>1 DEF Below
  <2> QED
    BY <2>2, FS_EmptySet DEF Total
<1>4. \A side \in SUBSET Players : PointsOf(side) = 0 /\ LivesLost(side) = 0
  BY <1>1, <1>3, Totals DEF SumsAreTotals
<1> QED
  BY <1>1, <1>4 DEF Scored, EveryLifeLostIsScored

\* EveryLifeLostIsScored: the points of a team, those of the players that left
\* included, are never more than the lives the other team lost, and as many
\* while nobody of the team has left; a hit scores for an owner shot down first.
THEOREM HitsAreScoredOnce == Spec => []EveryLifeLostIsScored
<1>1. Init => Scored
  BY ScoredAtFirst
<1>2. Scored /\ [Next]_vars => Scored'
  <2> SUFFICES ASSUME Scored, [Next]_vars PROVE Scored'
    OBVIOUS
  <2>1. CASE Step
    BY <2>1, StepKeepsTypes, StepScores DEF Scored
  <2>2. ASSUME NEW p \in Players, RemovePlayer(p) PROVE Scored'
    BY <2>2, LeavingScoresNothing DEF RemovePlayer, Scored, TypeOK
  <2>3. CASE UNCHANGED vars
    BY <2>3, LeavingScoresNothing DEF vars, Scored, TypeOK
  <2> QED
    BY <2>1, <2>2, <2>3 DEF Next
<1> QED
  BY <1>1, <1>2, PTL DEF Spec, Scored

-----------------------------------------------------------------------------
(* Verdicts. *)

\* The teams still standing after a step are finitely many.
LEMMA StandingIsFinite ==
  ASSUME TypeOK, NEW lv
  PROVE  IsFiniteSet(StandingTeams(lv)) /\ StandingTeams(lv) \subseteq Teams
<1> DEFINE up == {q \in present : lv[q] > 0}
           f == [p \in up |-> Team[p]]
<1>1. up \subseteq Players /\ IsFiniteSet(up)
  BY PvPAssumption, FS_Subset DEF TypeOK
<1>2. f \in Surjection(up, StandingTeams(lv))
  BY DEF Surjection, StandingTeams
<1>3. StandingTeams(lv) \subseteq Teams
  BY <1>1 DEF StandingTeams, Teams
<1> HIDE DEF f, up
<1> QED
  BY <1>1, <1>2, <1>3, FS_Surjection DEF ExistsSurjection

\* A verdict follows the teams that stand; without one, two of them do.
LEMMA JudgeIsRight ==
  ASSUME NEW standing, IsFiniteSet(standing), standing \subseteq Teams
  PROVE  /\ Judge(standing).over =>
              \A t \in Teams :
                \/ /\ Judge(standing).outcome[t] = "WON"
                   /\ standing = {t}
                \/ /\ Judge(standing).outcome[t] = "LOST"
                   /\ standing # {} /\ t \notin standing
                \/ /\ Judge(standing).outcome[t] = "DREW"
                   /\ standing = {}
         /\ ~ Judge(standing).over =>
              \E t, u \in standing : t # u
         /\ Judge(standing).over \in BOOLEAN
<1>1. Cardinality(standing) = 1 => \E u : standing = {u}
  BY FS_Singleton
<1>2. Cardinality(standing) # 1 /\ standing # {} => \E t, u \in standing : t # u
  <2> SUFFICES ASSUME standing # {}, \A t, u \in standing : t = u
               PROVE  Cardinality(standing) = 1
    OBVIOUS
  <2>1. PICK t \in standing : standing = {t}
    OBVIOUS
  <2> QED
    BY <2>1, FS_Singleton
<1>3. CASE standing = {}
  BY <1>3 DEF Judge
<1>4. CASE standing # {} /\ Cardinality(standing) = 1
  BY <1>1, <1>4 DEF Judge
<1>5. CASE standing # {} /\ Cardinality(standing) # 1
  BY <1>2, <1>5 DEF Judge
<1> QED
  BY <1>3, <1>4, <1>5

\* VerdictMatchesSurvivors: whoever stands after all the hits of the last step
\* has won, and nobody standing is a draw.
THEOREM VerdictsMatchSurvivors == Spec => VerdictMatchesSurvivors
<1> DEFINE Survivors == {p \in present : lives[p] > 0}
           Verdict == phase # "END" /\ phase' = "END" =>
             LET survivors == {p \in present' : lives'[p] > 0}
             IN  \A t \in Teams :
                   CASE outcome'[t] = "WON"  -> /\ survivors # {}
                                                /\ \A p \in survivors : Team[p] = t
                     [] outcome'[t] = "LOST" -> /\ survivors # {}
                                                /\ \A p \in survivors : Team[p] # t
                     [] OTHER                -> survivors = {}
<1>1. TypeOK /\ [Next]_vars => [Verdict]_vars
  <2> SUFFICES ASSUME TypeOK, Next, phase # "END", phase' = "END", NEW t \in Teams
               PROVE  LET survivors == {p \in present' : lives'[p] > 0}
                      IN  CASE outcome'[t] = "WON"  -> /\ survivors # {}
                                                       /\ \A p \in survivors : Team[p] = t
                            [] outcome'[t] = "LOST" -> /\ survivors # {}
                                                       /\ \A p \in survivors : Team[p] # t
                            [] OTHER                -> survivors = {}
    OBVIOUS
  <2>1. Step
    BY DEF Next, RemovePlayer
  <2>2. PICK pool, gone, hit : Stepped(pool, gone, hit)
    BY <2>1, StepIsStepped
  <2> DEFINE survivors == {p \in present' : lives'[p] > 0}
             standing == StandingTeams(lives')
  <2>3. standing = {Team[p] : p \in survivors}
    BY <2>2 DEF Stepped, StandingTeams
  <2>4. Judge(standing).over /\ outcome' = Judge(standing).outcome
    BY <2>2 DEF Stepped
  <2> HIDE DEF standing
  <2>5. \/ outcome'[t] = "WON" /\ standing = {t}
        \/ outcome'[t] = "LOST" /\ standing # {} /\ t \notin standing
        \/ outcome'[t] = "DREW" /\ standing = {}
    <3>1. IsFiniteSet(standing) /\ standing \subseteq Teams
      BY StandingIsFinite DEF standing
    <3> QED
      BY <2>4, <3>1, JudgeIsRight
  <2>6. /\ standing = {t} => /\ survivors # {}
                             /\ \A p \in survivors : Team[p] = t
        /\ standing # {} /\ t \notin standing => /\ survivors # {}
                                                 /\ \A p \in survivors : Team[p] # t
        /\ standing = {} => survivors = {}
    BY <2>3
  <2> HIDE DEF survivors
  <2>7. CASE outcome'[t] = "WON"
    BY <2>5, <2>6, <2>7 DEF survivors
  <2>8. CASE outcome'[t] = "LOST"
    BY <2>5, <2>6, <2>8 DEF survivors
  <2>9. CASE outcome'[t] = "DREW"
    BY <2>5, <2>6, <2>9 DEF survivors
  <2> QED
    BY <2>5, <2>7, <2>8, <2>9
<1> QED
  BY <1>1, TypeCorrect, PTL DEF Spec, VerdictMatchesSurvivors

\* KeepsSimContract: the server's model of a simulation, which knows only who
\* is in it and whether it is over, allows all a PvP match does.
THEOREM PvPSimKeepsItsContract == Spec => KeepsSimContract
<1> DEFINE Allowed ==
             \/ /\ Contract'.roster = Contract.roster
                /\ MayEndAs(Contract, Contract'.over, FALSE)
             \/ \E p \in present : Contract' = SimWithout(Contract, {p}, FALSE)
<1>1. TypeOK /\ [Next]_vars => [Allowed]_vars
  <2> SUFFICES ASSUME TypeOK, Next PROVE Allowed
    OBVIOUS
  <2>1. CASE Step
    <3>1. PICK pool, gone, hit : Stepped(pool, gone, hit)
      BY <2>1, StepIsStepped
    <3> DEFINE standing == StandingTeams(lives')
    <3>2. /\ present' = present /\ phase = "PLAYERS_FIGHT"
          /\ phase' = IF Judge(standing).over THEN "END" ELSE phase
      BY <3>1 DEF Stepped
    <3>3. Contract'.roster = Contract.roster
      BY <3>2 DEF Contract
    <3>4. ASSUME phase' # "END" PROVE Contested(Contract, FALSE)
      <4>1. IsFiniteSet(standing) /\ standing \subseteq Teams
        BY StandingIsFinite
      <4>2. ~ Judge(standing).over
        BY <3>2, <3>4
      <4> HIDE DEF standing
      <4>3. PICK t, u \in standing : t # u
        BY <4>1, <4>2, JudgeIsRight
      <4>4. \A v \in standing : \E p \in present : Team[p] = v
        BY DEF standing, StandingTeams
      <4>5. /\ DOMAIN Contract.roster = Teams
            /\ \A v \in Teams : Contract.roster[v] = {p \in present : Team[p] = v}
        BY DEF Contract
      <4>6. Contract.roster[t] # {} /\ Contract.roster[u] # {}
        BY <4>1, <4>4, <4>5
      <4> QED
        BY <4>1, <4>3, <4>5, <4>6 DEF Contested
    <3>5. ~ Contract.over /\ (Contract'.over <=> phase' = "END")
      BY <3>2 DEF Contract
    <3> QED
      BY <3>3, <3>4, <3>5 DEF MayEndAs
  <2>2. ASSUME NEW p \in Players, RemovePlayer(p) PROVE Allowed
    <3>1. p \in present /\ present' = present \ {p} /\ phase' = phase
      BY <2>2 DEF RemovePlayer
    <3>2. Contract' = [roster |-> [t \in Teams |-> {q \in present' : Team[q] = t}],
                       over |-> phase' = "END"]
      BY DEF Contract
    <3>3. [t \in Teams |-> {q \in present' : Team[q] = t}]
            = RosterWithout(Contract.roster, {p})
      BY <3>1 DEF RosterWithout, Contract
    <3>4. SimWithout(Contract, {p}, FALSE)
            = [roster |-> RosterWithout(Contract.roster, {p}),
               over |-> phase = "END"]
      BY DEF SimWithout, Contract
    <3> QED
      BY <3>1, <3>2, <3>3, <3>4
  <2> QED
    BY <2>1, <2>2 DEF Next
<1> QED
  BY <1>1, TypeCorrect, PTL DEF Spec, KeepsSimContract
=============================================================================
