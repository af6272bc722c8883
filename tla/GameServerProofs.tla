-------------------------- MODULE GameServerProofs --------------------------
(***************************************************************************)
(* Invariants and action properties of the server, for every set of        *)
(* sockets, every number of teams and players and every bound, in four     *)
(* parts: the seats of one match; Sound, the inductive invariant of types, *)
(* slots and open lists; Kept, the inductive invariant of who sits where;  *)
(* and what a start of a match may do.                                     *)
(***************************************************************************)
EXTENDS GameServer, FiniteSetTheorems, WellFoundedInduction, TLAPS

-----------------------------------------------------------------------------
(***************************************************************************)
(* Part 1: the seats of one match, for every number and size of teams.     *)
(***************************************************************************)

\* A nonempty set of naturals has a least element, which Min picks.
LEMMA MinOfNaturals ==
  ASSUME NEW S \in SUBSET Nat, S # {}
  PROVE  /\ Min(S) \in S
         /\ \A n \in S : Min(S) <= n
<1>1. PICK m \in S : \A n \in S : ~ <<n, m>> \in OpToRel(<, Nat)
  BY NatLessThanWellFounded, WFMin
<1>2. \A n \in Nat : n < m => <<n, m>> \in OpToRel(<, Nat)
  BY DEF OpToRel
<1>3. \A n \in S : ~ (n < m)
  BY <1>1, <1>2, Zenon
<1>4. \A n \in S : m <= n
  BY <1>3
<1> QED
  BY <1>4 DEF Min

\* The two ids of a duo are the least and the greatest of theirs.
LEMMA MinMaxOfIds ==
  ASSUME NEW n \in Nat, NEW k \in 1 .. 2
  PROVE  /\ Min(n .. n + k - 1) = n
         /\ Max(n .. n + k - 1) = n + k - 1
<1> DEFINE S == n .. n + k - 1
<1>1. n \in S /\ \A i \in S : n <= i
  OBVIOUS
<1>2. n + k - 1 \in S /\ \A i \in S : n + k - 1 >= i
  OBVIOUS
<1>3. Min(S) = n
  BY <1>1 DEF Min
<1>4. Max(S) = n + k - 1
  BY <1>2 DEF Max
<1> QED
  BY <1>3, <1>4

\* The slots of a team lie in the seating.
LEMMA TeamSlots ==
  ASSUME NEW t \in TeamIds
  PROVE  /\ TeamSlotRange(t) \subseteq Slots
         /\ (t - 1) * MaxPlayersPerTeam \in Nat
         /\ t * MaxPlayersPerTeam = (t - 1) * MaxPlayersPerTeam + MaxPlayersPerTeam
         /\ TeamSlotRange(t) =
              (t - 1) * MaxPlayersPerTeam
                .. (t - 1) * MaxPlayersPerTeam + MaxPlayersPerTeam - 1
<1> USE LimitsAssumption DEF TeamIds
<1>1. /\ (t - 1) * MaxPlayersPerTeam \in Nat
      /\ t * MaxPlayersPerTeam = (t - 1) * MaxPlayersPerTeam + MaxPlayersPerTeam
  OBVIOUS
<1>2. t * MaxPlayersPerTeam <= MaxTeams * MaxPlayersPerTeam
  OBVIOUS
<1>3. MaxPlayersPerGame \in Nat /\ MaxTeams * MaxPlayersPerTeam <= MaxPlayersPerGame
  BY DEF MaxPlayersPerGame
<1>4. TeamSlotRange(t) \subseteq Slots
  BY <1>1, <1>2, <1>3 DEF TeamSlotRange, Slots
<1>5. TeamSlotRange(t) =
        (t - 1) * MaxPlayersPerTeam
          .. (t - 1) * MaxPlayersPerTeam + MaxPlayersPerTeam - 1
  <2> DEFINE begin == (t - 1) * MaxPlayersPerTeam
             end == t * MaxPlayersPerTeam
  <2>1. TeamSlotRange(t) = begin .. end - 1
    BY DEF TeamSlotRange
  <2>2. begin \in Nat /\ end = begin + MaxPlayersPerTeam
    BY <1>1
  <2> HIDE DEF begin, end
  <2>3. TeamSlotRange(t) = begin .. begin + MaxPlayersPerTeam - 1
    BY <2>1, <2>2
  <2> QED
    BY <2>3 DEF begin
<1> QED
  BY <1>1, <1>4, <1>5

\* What % computes of a multiple plus a rest.
LEMMA RestOfMultiple ==
  ASSUME NEW m \in Nat \ {0}, NEW q \in Nat, NEW r \in 0 .. m - 1
  PROVE  (q * m + r) % m = r
<1> DEFINE x == q * m + r
           d == x \div m
<1>1. x \in Nat
  OBVIOUS
<1>2. /\ d \in Int
      /\ x % m \in 0 .. m - 1
      /\ x = m * d + (x % m)
  BY <1>1
<1> HIDE DEF d
<1>3. CASE d = q
  BY <1>2, <1>3
<1>4. CASE d < q
  <2>1. m * d + m <= q * m
    BY <1>2, <1>4
  <2> QED
    BY <2>1, <1>2
<1>5. CASE q < d
  <2>1. q * m + m <= m * d
    BY <1>2, <1>5
  <2> QED
    BY <2>1, <1>2
<1> QED
  BY <1>2, <1>3, <1>4, <1>5

\* A slot belongs to one team only, and its rank is its distance from the
\* first slot of that team.
LEMMA RankOfSlot ==
  ASSUME NEW t \in TeamIds, NEW s \in TeamSlotRange(t)
  PROVE  /\ RankInTeam(s) = s - (t - 1) * MaxPlayersPerTeam
         /\ \A u \in TeamIds : s \in TeamSlotRange(u) => u = t
<1> USE LimitsAssumption DEF TeamIds
<1>1. RankInTeam(s) = s - (t - 1) * MaxPlayersPerTeam
  <2> DEFINE r == s - (t - 1) * MaxPlayersPerTeam
  <2>1. r \in 0 .. MaxPlayersPerTeam - 1 /\ s = (t - 1) * MaxPlayersPerTeam + r
    BY TeamSlots DEF TeamSlotRange
  <2> QED
    BY <2>1, RestOfMultiple, t - 1 \in Nat DEF RankInTeam
<1>2. ASSUME NEW u \in TeamIds, s \in TeamSlotRange(u)
      PROVE  u = t
  <2>1. CASE u < t
    <3>1. u * MaxPlayersPerTeam <= (t - 1) * MaxPlayersPerTeam
      BY <2>1
    <3> QED
      BY <3>1, <1>2, TeamSlots DEF TeamSlotRange
  <2>2. CASE t < u
    <3>1. t * MaxPlayersPerTeam <= (u - 1) * MaxPlayersPerTeam
      BY <2>2
    <3> QED
      BY <3>1, <1>2, TeamSlots DEF TeamSlotRange
  <2> QED
    BY <2>1, <2>2
<1> QED
  BY <1>1, <1>2

-----------------------------------------------------------------------------
(* Counting seats. *)

\* How many naturals an interval holds.
LEMMA CountInterval ==
  ASSUME NEW a \in Nat, NEW n \in Nat
  PROVE  IsFiniteSet(a .. a + n - 1) /\ Cardinality(a .. a + n - 1) = n
<1> DEFINE b == a + n - 1
<1>1. b \in Int
  OBVIOUS
<1>2. /\ IsFiniteSet(a .. b)
      /\ Cardinality(a .. b) = IF a > b THEN 0 ELSE b - a + 1
  BY <1>1, FS_Interval
<1> QED
  BY <1>2

\* Adding an element to a finite set adds one to its size.
LEMMA CountAdded ==
  ASSUME NEW S, IsFiniteSet(S), NEW x
  PROVE  /\ Cardinality(S) \in Nat
         /\ Cardinality(S \cup {x}) \in Nat
         /\ Cardinality(S \cup {x}) <= Cardinality(S) + 1
<1>1. /\ IsFiniteSet(S \cup {x})
      /\ Cardinality(S \cup {x}) =
           IF x \in S THEN Cardinality(S) ELSE Cardinality(S) + 1
  BY FS_AddElement
<1>2. Cardinality(S) \in Nat /\ Cardinality(S \cup {x}) \in Nat
  BY <1>1, FS_CardinalityType
<1> QED
  BY <1>1, <1>2

\* The slots of a seating are finitely many, and so are those of a team.
LEMMA SlotsAreFinite ==
  /\ MaxPlayersPerGame \in Nat
  /\ IsFiniteSet(Slots)
  /\ Slots \subseteq Nat
<1>1. MaxPlayersPerGame \in Nat
  BY LimitsAssumption DEF MaxPlayersPerGame
<1> QED
  BY <1>1, FS_Interval DEF Slots

\* So are the taken ones, of a team and in all.
LEMMA SeatsAreFinite ==
  ASSUME NEW players, NEW t
  PROVE  /\ IsFiniteSet(Seated(players))
         /\ Cardinality(Seated(players)) \in Nat
         /\ IsFiniteSet(OfTeam(players, t))
         /\ CountPlayersOfTeam(players, t) \in Nat
<1>1. IsFiniteSet(Seated(players))
  BY SlotsAreFinite, FS_Subset DEF Seated
<1>2. IsFiniteSet(OfTeam(players, t))
  BY <1>1, FS_Subset DEF OfTeam
<1> QED
  BY <1>1, <1>2, FS_CardinalityType DEF CountPlayersOfTeam

\* The first free slot of a team that is not full has a rank below the team
\* size, because players of that very team sit in all the slots before it.
LEMMA FirstFreeSlot ==
  ASSUME NEW kind \in Kind, IsPvP(kind),
         NEW players \in Seating, SeatedByTeam(kind, players),
         NEW t \in TeamsOf(kind),
         CountPlayersOfTeam(players, t) < kind.team_size,
         TeamSlotRange(t) \ Seated(players) # {}
  PROVE  LET f == Min(TeamSlotRange(t) \ Seated(players))
         IN  /\ f \in Slots \ Seated(players)
             /\ f \in TeamSlotRange(t)
             /\ RankInTeam(f) < kind.team_size
<1> DEFINE free == TeamSlotRange(t) \ Seated(players)
           f == Min(free)
           begin == (t - 1) * MaxPlayersPerTeam
           before == begin .. f - 1
<1>1. t \in TeamIds
  BY LimitsAssumption DEF TeamsOf, TeamIds, Kind
<1>2. /\ begin \in Nat
      /\ TeamSlotRange(t) \subseteq Slots
      /\ TeamSlotRange(t) = begin .. begin + MaxPlayersPerTeam - 1
  BY <1>1, TeamSlots
<1>3. f \in free /\ \A s \in free : f <= s
  BY <1>2, SlotsAreFinite, MinOfNaturals
<1> HIDE DEF f, begin
<1>4. f \in TeamSlotRange(t) /\ f \in Nat /\ begin <= f
  BY <1>2, <1>3, SlotsAreFinite
<1>5. before \subseteq OfTeam(players, t)
  <2> SUFFICES ASSUME NEW s \in before PROVE s \in OfTeam(players, t)
    OBVIOUS
  <2>1. s \in TeamSlotRange(t)
    BY <1>2, <1>4, LimitsAssumption
  <2>2. s \in Seated(players)
    BY <2>1, <1>2, <1>3, <1>4
  <2>3. players[s].team_id \in TeamIds /\ s \in TeamSlotRange(players[s].team_id)
    BY <2>2, LimitsAssumption DEF SeatedByTeam, TeamsOf, TeamIds, Kind
  <2>4. players[s].team_id = t
    BY <2>1, <2>3, <1>1, RankOfSlot
  <2> QED
    BY <2>2, <2>4 DEF OfTeam
<1>6. f - begin <= CountPlayersOfTeam(players, t)
  <2>1. Cardinality(before) = f - begin
    BY <1>2, <1>4, FS_Interval
  <2>2. Cardinality(before) <= Cardinality(OfTeam(players, t))
    BY <1>5, SeatsAreFinite, FS_Subset
  <2> QED
    BY <2>1, <2>2 DEF CountPlayersOfTeam
<1>7. RankInTeam(f) < kind.team_size
  <2>1. RankInTeam(f) = f - begin
    BY <1>1, <1>4, RankOfSlot DEF begin
  <2> QED
    BY <2>1, <1>2, <1>4, <1>6, SeatsAreFinite DEF Kind
<1> QED
  BY <1>2, <1>3, <1>4, <1>7 DEF f

\* The slots players of a match can sit in, and how many they are.
Places(kind) ==
  {s \in Slots : \E t \in TeamsOf(kind) :
                   s \in TeamSlotRange(t) /\ RankInTeam(s) < kind.team_size}

\* The places of t teams of n players are t times n.
LEMMA CountPlaces ==
  ASSUME NEW kind \in Kind
  PROVE  /\ IsFiniteSet(Places(kind))
         /\ kind.team_count * kind.team_size <= Cardinality(Places(kind))
<1> DEFINE ranks == 0 .. kind.team_size - 1
           grid == TeamsOf(kind) \X ranks
           slot(t, r) == (t - 1) * MaxPlayersPerTeam + r
           place == [tr \in grid |-> slot(tr[1], tr[2])]
<1>1. /\ kind.team_count \in Nat /\ kind.team_count <= MaxTeams
      /\ kind.team_size \in Nat /\ kind.team_size <= MaxPlayersPerTeam
      /\ TeamsOf(kind) \subseteq TeamIds
  BY LimitsAssumption DEF Kind, TeamsOf, TeamIds
<1>2. ASSUME NEW t \in TeamsOf(kind), NEW r \in ranks
      PROVE  /\ slot(t, r) \in TeamSlotRange(t)
             /\ RankInTeam(slot(t, r)) = r
             /\ slot(t, r) \in Places(kind)
  <2>1. t \in TeamIds /\ r \in 0 .. MaxPlayersPerTeam - 1
    BY <1>1, LimitsAssumption
  <2>2. slot(t, r) \in TeamSlotRange(t)
    <3> DEFINE begin == (t - 1) * MaxPlayersPerTeam
    <3>1. begin \in Nat /\ TeamSlotRange(t) = begin .. begin + MaxPlayersPerTeam - 1
      BY <2>1, TeamSlots
    <3> HIDE DEF begin
    <3>2. begin + r \in TeamSlotRange(t)
      BY <2>1, <3>1, LimitsAssumption
    <3> QED
      BY <3>2 DEF begin
  <2>3. RankInTeam(slot(t, r)) = r
    <3>1. t - 1 \in Nat
      BY <2>1 DEF TeamIds
    <3> QED
      BY <3>1, <2>1, RestOfMultiple, LimitsAssumption DEF RankInTeam
  <2>4. slot(t, r) \in Slots /\ r < kind.team_size
    BY <1>1, <2>1, <2>2, TeamSlots
  <2> QED
    BY <2>2, <2>3, <2>4 DEF Places
<1> HIDE DEF slot
<1>3. \A t, u \in TeamsOf(kind), r, q \in ranks :
        slot(t, r) = slot(u, q) => t = u /\ r = q
  BY <1>1, <1>2, RankOfSlot
<1>4. place \in Injection(grid, Places(kind))
  <2>1. place \in [grid -> Places(kind)]
    BY <1>2
  <2>2. \A a, b \in grid : place[a] = place[b] => a = b
    BY <1>3
  <2> QED
    BY <2>1, <2>2 DEF Injection, IsInjective
<1>5. IsFiniteSet(Places(kind))
  BY SlotsAreFinite, FS_Subset DEF Places
<1>6. /\ IsFiniteSet(grid)
      /\ Cardinality(grid) = kind.team_count * kind.team_size
  <2>1. IsFiniteSet(TeamsOf(kind)) /\ Cardinality(TeamsOf(kind)) = kind.team_count
    <3>1. 1 .. kind.team_count = 1 .. 1 + kind.team_count - 1
      BY <1>1
    <3> QED
      BY <1>1, <3>1, CountInterval DEF TeamsOf
  <2>2. IsFiniteSet(ranks) /\ Cardinality(ranks) = kind.team_size
    <3>1. 0 .. kind.team_size - 1 = 0 .. 0 + kind.team_size - 1
      BY <1>1
    <3> QED
      BY <1>1, <3>1, CountInterval
  <2> QED
    BY <2>1, <2>2, FS_Product
<1> QED
  BY <1>4, <1>5, <1>6, FS_Injection

\* While the match has free seats, some team has one: were all teams full,
\* every place would be taken.
LEMMA SomeTeamHasRoom ==
  ASSUME NEW kind \in Kind, IsPvP(kind),
         NEW players \in Seating, SeatedByTeam(kind, players),
         AvailableSlots(kind, players) >= 1
  PROVE  TeamsWithRoomFor(kind, players, 1) # {}
<1>1. Seated(players) \subseteq Places(kind)
  BY DEF SeatedByTeam, Places, Seated
<1>2. {s \in Seated(players) : players[s].team_id \in TeamsOf(kind)}
        = Seated(players)
  BY DEF SeatedByTeam
<1>3. Cardinality(Seated(players)) < Cardinality(Places(kind))
  <2> DEFINE places == kind.team_count * kind.team_size
  <2>1. places \in Nat
    BY LimitsAssumption DEF Kind
  <2>2. places - Cardinality(Seated(players)) >= 1
    BY <1>2 DEF AvailableSlots
  <2>3. places <= Cardinality(Places(kind)) /\ Cardinality(Places(kind)) \in Nat
    BY CountPlaces, FS_CardinalityType
  <2> HIDE DEF places
  <2> QED
    BY <2>1, <2>2, <2>3, SeatsAreFinite
<1>4. PICK p \in Places(kind) : p \notin Seated(players)
  BY <1>1, <1>3, SeatsAreFinite, Places(kind) = Seated(players) \/
       \E q \in Places(kind) : q \notin Seated(players)
<1>5. PICK t \in TeamsOf(kind) :
        p \in TeamSlotRange(t) /\ RankInTeam(p) < kind.team_size
  BY DEF Places
<1> DEFINE begin == (t - 1) * MaxPlayersPerTeam
           own == begin .. begin + kind.team_size - 1
<1>6. /\ t \in TeamIds
      /\ begin \in Nat
      /\ TeamSlotRange(t) = begin .. begin + MaxPlayersPerTeam - 1
      /\ kind.team_size \in Nat
  <2>1. t \in TeamIds
    BY LimitsAssumption DEF TeamsOf, TeamIds, Kind
  <2> QED
    BY <2>1, TeamSlots, LimitsAssumption DEF Kind
<1>7. \A s \in TeamSlotRange(t) : RankInTeam(s) = s - begin
  BY <1>6, RankOfSlot
<1> HIDE DEF begin
<1>8. p \in own
  BY <1>5, <1>6, <1>7, LimitsAssumption
<1>9. OfTeam(players, t) \subseteq own \ {p}
  BY <1>4, <1>6, <1>7, LimitsAssumption DEF OfTeam, SeatedByTeam
<1>10. IsFiniteSet(own) /\ Cardinality(own) = kind.team_size
  BY <1>6, CountInterval
<1>11. CountPlayersOfTeam(players, t) <= kind.team_size - 1
  <2>1. IsFiniteSet(own \ {p}) /\ Cardinality(own \ {p}) = kind.team_size - 1
    BY <1>8, <1>10, FS_RemoveElement
  <2> QED
    BY <1>9, <2>1, FS_Subset DEF CountPlayersOfTeam
<1> QED
  BY <1>6, <1>11, SeatsAreFinite DEF TeamsWithRoomFor, FreeSlots

-----------------------------------------------------------------------------
(* Operations keep every player in a slot of its team. *)

\* insertPlayer makes a well-typed player.
LEMMA NewPlayerType ==
  ASSUME NEW id \in PlayerIds, NEW ws \in Sockets,
         NEW t \in {NoTeam} \cup TeamIds
  PROVE  NewPlayer(id, ws, t) \in PlayerConnection
BY DEF NewPlayer, PlayerConnection

\* One player put into a team with room sits in a slot of that team.
LEMMA InsertInTeamKeepsSeats ==
  ASSUME NEW kind \in Kind, IsPvP(kind),
         NEW players \in Seating, SeatedByTeam(kind, players),
         NEW t \in TeamsOf(kind), FreeSlots(kind, players, t) >= 1,
         NEW id \in PlayerIds, NEW ws \in Sockets
  PROVE  LET seats == InsertInTeam(players, id, ws, t)
         IN  /\ seats \in Seating
             /\ SeatedByTeam(kind, seats)
             /\ FreeSlots(kind, seats, t) >= FreeSlots(kind, players, t) - 1
             /\ AvailableSlots(kind, seats) >= AvailableSlots(kind, players) - 1
<1> DEFINE free == TeamSlotRange(t) \ Seated(players)
           f == Min(free)
           player == NewPlayer(id, ws, t)
           seats == InsertInTeam(players, id, ws, t)
           counted(ps) == {s \in Seated(ps) : ps[s].team_id \in TeamsOf(kind)}
<1>1. /\ t \in TeamIds
      /\ kind.team_size \in Nat
      /\ kind.team_count * kind.team_size \in Nat
  BY LimitsAssumption DEF TeamsOf, TeamIds, Kind
<1>2. player \in PlayerConnection /\ player # NoPlayer /\ player.team_id = t
  BY <1>1, NewPlayerType, NoPlayerAssumption DEF NewPlayer
<1>3. CASE free = {}
  <2>1. seats = players
    BY <1>3 DEF InsertInTeam, InsertPlayer
  <2>2. /\ CountPlayersOfTeam(players, t) \in Nat
        /\ Cardinality(counted(players)) \in Nat
    BY SeatsAreFinite, FS_Subset, FS_CardinalityType
  <2> QED
    BY <1>1, <2>1, <2>2 DEF FreeSlots, AvailableSlots
<1>4. CASE free # {}
  <2>1. /\ f \in Slots \ Seated(players)
        /\ f \in TeamSlotRange(t)
        /\ RankInTeam(f) < kind.team_size
    BY <1>1, <1>4, SeatsAreFinite, FirstFreeSlot DEF FreeSlots
  <2>2. seats = [players EXCEPT ![f] = player]
    BY <1>4 DEF InsertInTeam, InsertPlayer
  <2> HIDE DEF f, player, seats
  <2>3. seats \in Seating
    BY <1>2, <2>1, <2>2 DEF Seating
  <2>4. Seated(seats) = Seated(players) \cup {f}
    BY <1>2, <2>1, <2>2 DEF Seating, Seated
  <2>5. SeatedByTeam(kind, seats)
    BY <1>2, <2>1, <2>2, <2>4 DEF Seating, Seated, SeatedByTeam
  <2>6. /\ OfTeam(seats, t) = OfTeam(players, t) \cup {f}
        /\ counted(seats) = counted(players) \cup {f}
    BY <1>2, <2>1, <2>2, <2>4 DEF Seating, Seated, OfTeam
  <2>7. /\ IsFiniteSet(counted(players))
        /\ Cardinality(counted(players)) \in Nat
        /\ CountPlayersOfTeam(players, t) \in Nat
    BY SeatsAreFinite, FS_Subset, FS_CardinalityType
  <2>8. /\ CountPlayersOfTeam(seats, t) \in Nat
        /\ CountPlayersOfTeam(seats, t) <= CountPlayersOfTeam(players, t) + 1
    BY <2>6, SeatsAreFinite, CountAdded DEF CountPlayersOfTeam
  <2>9. /\ Cardinality(counted(seats)) \in Nat
        /\ Cardinality(counted(seats)) <= Cardinality(counted(players)) + 1
    <3> HIDE DEF counted
    <3> QED
      BY <2>6, <2>7, CountAdded
  <2>10. FreeSlots(kind, seats, t) >= FreeSlots(kind, players, t) - 1
    BY <1>1, <2>7, <2>8 DEF FreeSlots
  <2>11. AvailableSlots(kind, seats) >= AvailableSlots(kind, players) - 1
    BY <1>1, <2>7, <2>9 DEF AvailableSlots
  <2> QED
    BY <2>3, <2>5, <2>10, <2>11 DEF seats
<1> QED
  BY <1>3, <1>4

\* In coop a player has a seat and no team.
LEMMA InsertCoopKeepsSeats ==
  ASSUME NEW kind \in Kind, ~ IsPvP(kind),
         NEW players \in Seating, SeatedByTeam(kind, players),
         NEW id \in PlayerIds, NEW ws \in Sockets
  PROVE  LET seats == InsertCoop(players, id, ws)
         IN  seats \in Seating /\ SeatedByTeam(kind, seats)
<1> DEFINE free == Slots \ Seated(players)
           f == Min(free)
           player == NewPlayer(id, ws, NoTeam)
           seats == InsertCoop(players, id, ws)
<1>1. player \in PlayerConnection /\ player.team_id = NoTeam
  BY NewPlayerType DEF NewPlayer
<1>2. CASE free = {}
  BY <1>2 DEF InsertCoop, InsertPlayer
<1>3. CASE free # {}
  <2>1. f \in free
    BY <1>3, SlotsAreFinite, MinOfNaturals
  <2>2. seats = [players EXCEPT ![f] = player]
    BY <1>3 DEF InsertCoop, InsertPlayer
  <2> HIDE DEF f, player, seats
  <2>3. seats \in Seating
    BY <1>1, <2>1, <2>2 DEF Seating
  <2>4. SeatedByTeam(kind, seats)
    BY <1>1, <2>1, <2>2 DEF Seating, Seated, SeatedByTeam
  <2> QED
    BY <2>3, <2>4 DEF seats
<1> QED
  BY <1>2, <1>3

\* The ids of a connection, first and last.
LEMMA IdsOfConnection ==
  ASSUME NEW n \in PlayerIds, NEW k \in 1 .. 2
  PROVE  LET ids == n .. n + k - 1
         IN  /\ n + k - 1 \in PlayerIds
             /\ Cardinality(ids) = k
             /\ Min(ids) = n /\ Max(ids) = n + k - 1
<1>1. n \in Nat /\ k \in Nat /\ n + k - 1 \in PlayerIds
  BY DEF PlayerIds
<1> QED
  BY <1>1, CountInterval, MinMaxOfIds

\* addPlayers in coop: its players one after the other.
LEMMA AddCoopPlayers ==
  ASSUME NEW kind \in Kind, ~ IsPvP(kind),
         NEW players \in Seating, NEW ws \in Sockets,
         NEW n \in PlayerIds, NEW k \in 1 .. 2
  PROVE  AddPlayers(kind, players, ws, n .. n + k - 1) =
           IF k = 1 THEN InsertCoop(players, n, ws)
           ELSE InsertCoop(InsertCoop(players, n, ws), n + k - 1, ws)
BY IdsOfConnection DEF AddPlayers

\* addPlayers in PvP when there is room: each player goes to a team that has a
\* free slot at the moment it is inserted.
LEMMA AddTeamPlayers ==
  ASSUME NEW kind \in Kind, IsPvP(kind),
         NEW players \in Seating, SeatedByTeam(kind, players),
         NEW ws \in Sockets, NEW n \in PlayerIds, NEW k \in 1 .. 2,
         AvailableSlots(kind, players) >= k
  PROVE  LET seats == AddPlayers(kind, players, ws, n .. n + k - 1)
             first(t) == InsertInTeam(players, n, ws, t)
         IN  \E t, u \in TeamsOf(kind) :
               /\ FreeSlots(kind, players, t) >= 1
               /\ k = 1 => seats = first(t)
               /\ k = 2 => /\ FreeSlots(kind, first(t), u) >= 1
                           /\ seats = InsertInTeam(first(t), n + k - 1, ws, u)
<1> DEFINE ids == n .. n + k - 1
           together == TeamsWithRoomFor(kind, players, Cardinality(ids))
           team(ps) == IF together # {} THEN Min(together)
                       ELSE Min(TeamsWithRoomFor(kind, ps, 1))
           first == InsertInTeam(players, n, ws, team(players))
           second == InsertInTeam(first, n + k - 1, ws, team(first))
           seats == AddPlayers(kind, players, ws, ids)
<1>1. /\ n + k - 1 \in PlayerIds
      /\ Cardinality(ids) = k
      /\ Min(ids) = n /\ Max(ids) = n + k - 1
  BY IdsOfConnection
<1>2. seats = IF k = 1 THEN first ELSE second
  BY <1>1 DEF AddPlayers
<1>3. /\ TeamsOf(kind) \subseteq Nat
      /\ kind.team_size \in Nat
      /\ kind.team_count * kind.team_size \in Nat
  BY LimitsAssumption DEF TeamsOf, Kind
<1>4. ASSUME NEW ps \in Seating
      PROVE  /\ \A t \in TeamsOf(kind) : FreeSlots(kind, ps, t) \in Int
             /\ AvailableSlots(kind, ps) \in Int
  <2>1. Cardinality({s \in Seated(ps) : ps[s].team_id \in TeamsOf(kind)}) \in Nat
    BY SeatsAreFinite, FS_Subset, FS_CardinalityType
  <2> QED
    BY <1>3, <2>1, SeatsAreFinite DEF FreeSlots, AvailableSlots
<1>5. /\ team(players) \in TeamsOf(kind)
      /\ FreeSlots(kind, players, team(players)) >= 1
  <2>1. CASE together # {}
    <3>1. team(players) \in together
      BY <1>3, <2>1, MinOfNaturals DEF TeamsWithRoomFor
    <3> QED
      BY <1>1, <1>4, <3>1 DEF TeamsWithRoomFor
  <2>2. CASE together = {}
    <3>1. TeamsWithRoomFor(kind, players, 1) # {}
      BY <1>4, SomeTeamHasRoom
    <3>2. team(players) \in TeamsWithRoomFor(kind, players, 1)
      BY <1>3, <2>2, <3>1, MinOfNaturals DEF TeamsWithRoomFor
    <3> QED
      BY <3>2 DEF TeamsWithRoomFor
  <2> QED
    BY <2>1, <2>2
<1> HIDE DEF first, second, team, seats
<1>6. /\ first \in Seating
      /\ SeatedByTeam(kind, first)
      /\ FreeSlots(kind, first, team(players))
           >= FreeSlots(kind, players, team(players)) - 1
      /\ AvailableSlots(kind, first) >= AvailableSlots(kind, players) - 1
  BY <1>5, InsertInTeamKeepsSeats DEF first
<1>7. ASSUME k = 2
      PROVE  /\ team(first) \in TeamsOf(kind)
             /\ FreeSlots(kind, first, team(first)) >= 1
  <2>1. CASE together # {}
    <3>1. team(players) \in together /\ team(first) = team(players)
      BY <1>3, <2>1, MinOfNaturals DEF TeamsWithRoomFor, team
    <3>2. FreeSlots(kind, players, team(first)) >= 2
      BY <1>1, <1>7, <3>1 DEF TeamsWithRoomFor
    <3> QED
      BY <1>4, <1>5, <1>6, <3>1, <3>2
  <2>2. CASE together = {}
    <3>1. TeamsWithRoomFor(kind, first, 1) # {}
      BY <1>4, <1>6, <1>7, SomeTeamHasRoom
    <3>2. team(first) \in TeamsWithRoomFor(kind, first, 1)
      BY <1>3, <2>2, <3>1, MinOfNaturals DEF TeamsWithRoomFor, team
    <3> QED
      BY <3>2 DEF TeamsWithRoomFor
  <2> QED
    BY <2>1, <2>2
<1>8. CASE k = 1
  <2>1. seats = first
    BY <1>2, <1>8
  <2> QED
    BY <1>5, <1>8, <2>1 DEF first, seats
<1>9. CASE k = 2
  <2>1. seats = second
    BY <1>2, <1>9
  <2> QED
    BY <1>5, <1>7, <1>9, <2>1 DEF first, second, seats
<1> QED
  BY <1>8, <1>9

\* addPlayers puts every player of a connection it has room for into a slot
\* of its team.
LEMMA AddPlayersKeepsSeats ==
  ASSUME NEW kind \in Kind,
         NEW players \in Seating, SeatedByTeam(kind, players),
         NEW ws \in Sockets, NEW n \in PlayerIds, NEW k \in 1 .. 2,
         IsPvP(kind) => HasRoomFor(kind, players, k)
  PROVE  LET seats == AddPlayers(kind, players, ws, n .. n + k - 1)
         IN  seats \in Seating /\ SeatedByTeam(kind, seats)
<1> DEFINE seats == AddPlayers(kind, players, ws, n .. n + k - 1)
<1>1. n + k - 1 \in PlayerIds
  BY IdsOfConnection
<1>2. CASE ~ IsPvP(kind)
  <2> DEFINE first == InsertCoop(players, n, ws)
  <2>1. seats = IF k = 1 THEN first ELSE InsertCoop(first, n + k - 1, ws)
    BY <1>2, AddCoopPlayers
  <2> HIDE DEF seats
  <2>2. first \in Seating /\ SeatedByTeam(kind, first)
    BY <1>2, InsertCoopKeepsSeats
  <2> HIDE DEF first
  <2> QED
    BY <1>1, <1>2, <2>1, <2>2, InsertCoopKeepsSeats DEF seats
<1>3. CASE IsPvP(kind)
  <2> DEFINE first(t) == InsertInTeam(players, n, ws, t)
  <2>1. PICK t \in TeamsOf(kind), u \in TeamsOf(kind) :
          /\ FreeSlots(kind, players, t) >= 1
          /\ k = 1 => seats = first(t)
          /\ k = 2 => /\ FreeSlots(kind, first(t), u) >= 1
                      /\ seats = InsertInTeam(first(t), n + k - 1, ws, u)
    BY <1>3, AddTeamPlayers DEF HasRoomFor
  <2> HIDE DEF seats
  <2>2. first(t) \in Seating /\ SeatedByTeam(kind, first(t))
    BY <1>3, <2>1, InsertInTeamKeepsSeats
  <2> HIDE DEF first
  <2> QED
    BY <1>1, <1>3, <2>1, <2>2, InsertInTeamKeepsSeats DEF seats
<1> QED
  BY <1>2, <1>3

\* A ready flag moves nobody.
LEMMA SetPlayerReadyKeepsSeats ==
  ASSUME NEW kind \in Kind,
         NEW players \in Seating, SeatedByTeam(kind, players),
         NEW id, NEW ready \in BOOLEAN, NEW ws
  PROVE  LET seats == SetPlayerReady(players, id, ready, ws)
         IN  seats \in Seating /\ SeatedByTeam(kind, seats)
<1> DEFINE seats == SetPlayerReady(players, id, ready, ws)
<1>1. \A s \in Slots :
        /\ seats[s] \in PlayerConnection \cup {NoPlayer}
        /\ seats[s] = NoPlayer <=> players[s] = NoPlayer
        /\ seats[s] # NoPlayer => seats[s].team_id = players[s].team_id
  BY NoPlayerAssumption DEF SetPlayerReady, Seating, PlayerConnection
<1>2. seats \in Seating
  BY <1>1 DEF SetPlayerReady, Seating
<1> HIDE DEF seats
<1> QED
  BY <1>1, <1>2 DEF SeatedByTeam, Seated, seats

\* Losing ready flags moves nobody.
LEMMA UnreadyTeamsKeepsSeats ==
  ASSUME NEW players \in Seating, NEW teams
  PROVE  LET seats == UnreadyTeams(players, teams)
         IN  /\ seats \in Seating
             /\ Seated(seats) = Seated(players)
             /\ \A s \in Seated(players) :
                  /\ seats[s] \in PlayerConnection
                  /\ seats[s].team_id = players[s].team_id
<1> DEFINE seats == UnreadyTeams(players, teams)
<1>1. \A s \in Slots :
        /\ seats[s] \in PlayerConnection \cup {NoPlayer}
        /\ seats[s] = NoPlayer <=> players[s] = NoPlayer
        /\ seats[s] # NoPlayer => seats[s].team_id = players[s].team_id
  BY NoPlayerAssumption DEF UnreadyTeams, Seating, PlayerConnection
<1>2. seats \in Seating
  BY <1>1 DEF UnreadyTeams, Seating
<1> HIDE DEF seats
<1> QED
  BY <1>1, <1>2 DEF Seated, seats

\* A switch moves the player into a slot of the target team.
LEMMA MoveToTeamKeepsSeats ==
  ASSUME NEW kind \in Kind, IsPvP(kind),
         NEW players \in Seating, SeatedByTeam(kind, players),
         NEW s \in Seated(players), NEW target \in TeamsOf(kind),
         CountPlayersOfTeam(players, target) + 1 <= kind.team_size
  PROVE  LET seats == MoveToTeam(players, s, target)
         IN  seats \in Seating /\ SeatedByTeam(kind, seats)
<1> DEFINE unready == UnreadyTeams(players, {players[s].team_id, target})
           free == TeamSlotRange(target) \ Seated(players)
           f == Min(free)
           moved == [unready[s] EXCEPT !.team_id = target]
           seats == MoveToTeam(players, s, target)
<1>1. /\ unready \in Seating
      /\ Seated(unready) = Seated(players)
      /\ \A q \in Seated(players) :
           /\ unready[q] \in PlayerConnection
           /\ unready[q].team_id = players[q].team_id
  BY UnreadyTeamsKeepsSeats
<1>2. SeatedByTeam(kind, unready)
  BY <1>1 DEF SeatedByTeam
<1>3. moved \in PlayerConnection /\ moved.team_id = target /\ moved # NoPlayer
  <2>1. target \in TeamIds
    BY LimitsAssumption DEF TeamsOf, TeamIds, Kind
  <2> QED
    BY <1>1, <2>1, NoPlayerAssumption DEF PlayerConnection
<1>4. CASE free = {}
  BY <1>1, <1>2, <1>4 DEF MoveToTeam
<1>5. CASE free # {}
  <2>1. CountPlayersOfTeam(players, target) < kind.team_size
    BY SeatsAreFinite, LimitsAssumption DEF Kind
  <2>2. /\ f \in Slots \ Seated(players)
        /\ f \in TeamSlotRange(target)
        /\ RankInTeam(f) < kind.team_size
    BY <1>5, <2>1, FirstFreeSlot
  <2>3. seats = [unready EXCEPT ![f] = moved, ![s] = NoPlayer]
    BY <1>5 DEF MoveToTeam
  <2> HIDE DEF unready, f, moved, seats
  <2>4. seats \in Seating
    BY <1>1, <1>3, <2>2, <2>3 DEF Seating, Seated
  <2>5. \A q \in Seated(seats) :
          \/ q = f /\ seats[q] = moved
          \/ q \in Seated(unready) /\ seats[q] = unready[q]
    BY <1>1, <2>2, <2>3 DEF Seating, Seated
  <2>6. SeatedByTeam(kind, seats)
    BY <1>2, <1>3, <2>2, <2>5 DEF SeatedByTeam
  <2> QED
    BY <2>4, <2>6 DEF seats
<1> QED
  BY <1>4, <1>5

\* Freed seats move nobody.
LEMMA RemovePlayersKeepsSeats ==
  ASSUME NEW kind \in Kind,
         NEW players \in Seating, SeatedByTeam(kind, players), NEW ws
  PROVE  LET seats == RemovePlayers(players, ws)
         IN  seats \in Seating /\ SeatedByTeam(kind, seats)
<1> DEFINE seats == RemovePlayers(players, ws)
<1>1. \A s \in Slots : seats[s] = NoPlayer \/ seats[s] = players[s]
  BY DEF RemovePlayers
<1>2. seats \in Seating
  BY DEF RemovePlayers, Seating
<1> HIDE DEF seats
<1> QED
  BY <1>1, <1>2 DEF SeatedByTeam, Seated, seats

-----------------------------------------------------------------------------
(***************************************************************************)
(* Part 2: what always holds of the games and their lists.                 *)
(*                                                                         *)
(* Sound is the inductive invariant: every game that exists is well typed, *)
(* not over, and has its players in the slots of their teams; the open     *)
(* lists hold the games that exist; ids are not used twice.  Neither the   *)
(* types nor the places of the players are inductive without the rest:     *)
(* .open takes a game from an open list and fills it if it says it has     *)
(* room, which means nothing for a destroyed game.                         *)
(***************************************************************************)

SoundGame(game) ==
  /\ game \in Game
  /\ SeatedByTeam(game.kind, game.players)
  /\ ~ game.is_over

SoundGames ==
  /\ games_by_id \in [GameIds -> {NoGame} \cup Game]
  /\ open_games \in [Kinds -> SUBSET GameIds]
  /\ next_game_id \in 1 .. MaxGameId + 1
  /\ \A g \in GameIds : Live(g) => SoundGame(games_by_id[g]) /\ g < next_game_id
  /\ \A kind \in Kinds, g \in GameIds :
       g \in open_games[kind] <=> Live(g) /\ games_by_id[g].kind = kind

SoundClients ==
  /\ connections \in [Sockets -> {NotConnected} \cup PerSocketData]
  /\ next_player_id \in PlayerIds
  /\ inbox \in [Sockets -> Inbox]

Sound == SoundGames /\ SoundClients

-----------------------------------------------------------------------------
(* Games. *)

\* The kinds the handshake builds are kinds of the roster.
LEMMA KindType ==
  ASSUME NEW kind \in Kinds
  PROVE  /\ kind \in Kind
         /\ IsPvP(kind) => kind.team_count >= 1 /\ kind.team_size >= 1
BY KindsAssumption, LimitsAssumption DEF Kind, Coop, IsPvP

\* start() makes a simulation of the seated players.
LEMMA StartSimType ==
  ASSUME NEW game \in Game
  PROVE  StartSim(game) \in Sim
BY DEF StartSim, Sim, IdsIn, OfTeam, Seated, Game, Seating, PlayerConnection

\* tryStart moves nobody and ends nothing.
LEMMA TryStartIsSound ==
  ASSUME NEW game, SoundGame(game)
  PROVE  SoundGame(TryStart(game)) /\ TryStart(game).kind = game.kind
BY StartSimType DEF SoundGame, TryStart, Game

\* addPlayers keeps a game sound when its count of free seats says there is room.
LEMMA AddConnectionIsSound ==
  ASSUME NEW game, SoundGame(game), NEW c \in Sockets,
         NEW n \in PlayerIds, NEW k \in 1 .. 2,
         IsPvP(game.kind) => HasRoomFor(game.kind, game.players, k)
  PROVE  LET new == AddConnection(game, c, n .. n + k - 1)
         IN  SoundGame(new) /\ new.kind = game.kind
<1> DEFINE players == AddPlayers(game.kind, game.players, c, n .. n + k - 1)
           filled == [game EXCEPT !.players = players, !.sockets = @ \cup {c}]
<1>1. game \in Game /\ game.kind \in Kind /\ game.players \in Seating
  BY KindType DEF SoundGame, Game
<1>2. players \in Seating /\ SeatedByTeam(game.kind, players)
  BY <1>1, AddPlayersKeepsSeats DEF SoundGame
<1> HIDE DEF players
<1>3. SoundGame(filled) /\ filled.kind = game.kind
  BY <1>1, <1>2 DEF SoundGame, Game
<1> QED
  BY <1>3, TryStartIsSound DEF AddConnection, players

\* A READY frame of anybody, for any id, keeps a game sound.
LEMMA ReadyIsSound ==
  ASSUME NEW game, SoundGame(game), NEW c, NEW id, NEW ready \in BOOLEAN
  PROVE  LET new == Ready(game, c, id, ready)
         IN  SoundGame(new) /\ new.kind = game.kind
<1> DEFINE players == SetPlayerReady(game.players, id, ready, c)
           set == [game EXCEPT !.players = players]
<1>1. game \in Game /\ game.kind \in Kind /\ game.players \in Seating
  BY KindType DEF SoundGame, Game
<1>2. players \in Seating /\ SeatedByTeam(game.kind, players)
  BY <1>1, SetPlayerReadyKeepsSeats DEF SoundGame
<1> HIDE DEF players
<1>3. SoundGame(set) /\ set.kind = game.kind
  BY <1>1, <1>2 DEF SoundGame, Game
<1> QED
  BY <1>3, TryStartIsSound DEF Ready, players

\* So does a SWITCH_TEAM frame, whatever player and team it names.
LEMMA SwitchTeamIsSound ==
  ASSUME NEW game, SoundGame(game), NEW c, NEW id, NEW target
  PROVE  LET new == SwitchTeam(game, c, id, target)
         IN  SoundGame(new) /\ new.kind = game.kind
<1> DEFINE seats == {s \in SeatsOf(game.players, c) : game.players[s].id = id}
           players == MoveToTeam(game.players, Min(seats), target)
           new == SwitchTeam(game, c, id, target)
<1>1. game \in Game /\ game.kind \in Kind /\ game.players \in Seating
  BY KindType DEF SoundGame, Game
<1>2. CASE new = game
  BY <1>2
<1>3. CASE new # game
  <2>1. /\ IsPvP(game.kind)
        /\ CountPlayersOfTeam(game.players, target) + 1 <= game.kind.team_size
        /\ seats # {}
        /\ target \in TeamsOf(game.kind)
        /\ new = [game EXCEPT !.players = players]
    BY <1>3 DEF SwitchTeam
  <2>2. Min(seats) \in Seated(game.players)
    <3>1. seats \in SUBSET Nat /\ seats \subseteq Seated(game.players)
      BY SlotsAreFinite DEF SeatsOf, Seated
    <3> QED
      BY <2>1, <3>1, MinOfNaturals
  <2>3. players \in Seating /\ SeatedByTeam(game.kind, players)
    BY <1>1, <2>1, <2>2, MoveToTeamKeepsSeats DEF SoundGame
  <2> HIDE DEF players, new
  <2> QED
    BY <1>1, <2>1, <2>3 DEF SoundGame, Game, new
<1> QED
  BY <1>2, <1>3

\* removePlayers frees seats and moves nobody.
LEMMA RemoveConnectionIsSound ==
  ASSUME NEW game, SoundGame(game), NEW c
  PROVE  LET new == RemoveConnection(game, c)
         IN  SoundGame(new) /\ new.kind = game.kind
<1> DEFINE players == RemovePlayers(game.players, c)
           ids == IdsIn(game.players, SeatsOf(game.players, c))
           sim == RemoveFromSim(game, ids)
<1>1. /\ game \in Game /\ game.kind \in Kind /\ game.players \in Seating
      /\ game.sim \in Sim
  BY KindType DEF SoundGame, Game
<1>2. players \in Seating /\ SeatedByTeam(game.kind, players)
  BY <1>1, RemovePlayersKeepsSeats DEF SoundGame
<1>3. sim \in Sim
  <2> DEFINE roster == RosterWithout(game.sim.roster, ids)
  <2>1. roster \in [{NoTeam} \cup TeamIds -> SUBSET PlayerIds]
    BY <1>1 DEF RosterWithout, Sim
  <2>2. game.sim.over \in BOOLEAN
    BY <1>1 DEF Sim
  <2> HIDE DEF roster
  <2>3. (game.sim.over
           \/ (ids # {} /\ HoldsCoopSim(game) /\ IsEmptyRoster(roster))) \in BOOLEAN
    BY <2>2
  <2> QED
    BY <2>1, <2>3 DEF RemoveFromSim, SimWithout, Sim, roster
<1> HIDE DEF players, sim
<1> QED
  BY <1>1, <1>2, <1>3 DEF SoundGame, Game, RemoveConnection, players, sim, ids

\* An update that does not end the match.
LEMMA UpdateIsSound ==
  ASSUME NEW game, SoundGame(game), NEW over \in BOOLEAN,
         ~ Update(game, over).is_over
  PROVE  /\ SoundGame(Update(game, over))
         /\ Update(game, over).kind = game.kind
<1> DEFINE new == Update(game, over)
<1>1. game \in Game /\ game.sim \in Sim
  BY DEF SoundGame, Game
<1>2. CASE ~ game.is_running
  BY <1>2 DEF Update
<1>3. CASE game.is_running
  <2>1. new = [game EXCEPT !.sim = [@ EXCEPT !.over = over],
                           !.is_running = ~ over, !.is_over = over]
    BY <1>3 DEF Update
  <2>2. [game.sim EXCEPT !.over = over] \in Sim
    BY <1>1 DEF Sim
  <2>3. (~ over) \in BOOLEAN
    OBVIOUS
  <2> HIDE DEF new
  <2>4. new \in Game /\ new.kind = game.kind /\ new.players = game.players
    BY <1>1, <2>1, <2>2, <2>3 DEF Game
  <2>5. ~ new.is_over
    BY DEF new
  <2> QED
    BY <2>4, <2>5 DEF SoundGame, new
<1> QED
  BY <1>2, <1>3

\* createCoopGame and createPvPGame make a game that is sound and empty.
LEMMA CreateGameIsSound ==
  ASSUME NEW kind \in Kinds
  PROVE  /\ SoundGame(CreateGame(kind))
         /\ CreateGame(kind).kind = kind
         /\ Seated(CreateGame(kind).players) = {}
<1>1. NoSeats \in Seating /\ Seated(NoSeats) = {}
  BY DEF NoSeats, Seating, Seated
<1>2. DefaultSim \in Sim
  BY DEF DefaultSim, EmptyRoster, Sim
<1> QED
  BY <1>1, <1>2 DEF SoundGame, CreateGame, Game, SeatedByTeam

\* An empty match has room for any client the handshake lets in, so the
\* addPlayers after createCoopGame or createPvPGame does not fail.
LEMMA NewGameHasRoom ==
  ASSUME NEW kind \in Kinds, NEW slots, HandshakeAccepts(kind, slots)
  PROVE  HasRoomFor(kind, CreateGame(kind).players, slots)
<1> DEFINE players == CreateGame(kind).players
<1>1. slots \in Nat /\ slots <= MaxPlayersPerClient
  BY DEF HandshakeAccepts, MaxPlayersPerClient
<1>2. Seated(players) = {} /\ Cardinality({}) = 0
  BY CreateGameIsSound, FS_EmptySet
<1>3. CASE ~ IsPvP(kind)
  BY <1>1, <1>2, <1>3, ClientAssumption, LimitsAssumption
     DEF HasRoomFor, MaxPlayersPerClient
<1>4. CASE IsPvP(kind)
  <2>1. /\ kind.team_count \in Nat /\ kind.team_count >= 1
        /\ kind.team_size \in Nat /\ kind.team_size >= slots
    BY <1>4, KindType, LimitsAssumption DEF HandshakeAccepts, Kind
  <2>2. kind.team_count * kind.team_size >= kind.team_size
        /\ kind.team_count * kind.team_size \in Nat
    BY <2>1
  <2>3. AvailableSlots(kind, players) = kind.team_count * kind.team_size - 0
    BY <1>2 DEF AvailableSlots
  <2> QED
    BY <1>1, <1>4, <2>1, <2>2, <2>3 DEF HasRoomFor
<1> QED
  BY <1>3, <1>4

-----------------------------------------------------------------------------
(* Frames. *)

\* A lobby update has the type of what clients hold.
LEMMA LobbyUpdateType ==
  ASSUME NEW game \in Game
  PROVE  LobbyUpdate(game) \in LobbyFrame
<1>1. \A s \in Slots : RankInTeam(s) \in Slots
  <2>1. MaxPlayersPerTeam \in Nat \ {0} /\ MaxPlayersPerTeam <= MaxPlayersPerGame
    BY LimitsAssumption DEF MaxPlayersPerGame
  <2> QED
    BY <2>1, SlotsAreFinite DEF RankInTeam, Slots
<1>2. \A s \in Seated(game.players) : s \in Slots /\ game.players[s] \in PlayerConnection
  BY DEF Seated, Game, Seating
<1>3. game.is_running \in BOOLEAN
  BY DEF Game
<1> QED
  BY <1>1, <1>2, <1>3 DEF LobbyUpdate, LobbyFrame, PlayerConnection

\* A broadcast leaves every client with something of that type.
LEMMA BroadcastLobbyType ==
  ASSUME NEW box \in [Sockets -> Inbox], NEW game \in Game
  PROVE  BroadcastLobby(box, game) \in [Sockets -> Inbox]
BY LobbyUpdateType DEF BroadcastLobby, Inbox

\* So does the WELCOME of .open.
LEMMA WelcomeType ==
  ASSUME NEW ids \in SUBSET PlayerIds
  PROVE  Welcome(ids) \in Inbox
BY DEF Welcome, Inbox

-----------------------------------------------------------------------------
(* The callbacks. *)

\* A callback that replaces one game by a sound one of the same kind.
LEMMA OneGameChanges ==
  ASSUME SoundGames,
         NEW g \in GameIds, Live(g),
         NEW game, SoundGame(game), game.kind = games_by_id[g].kind,
         games_by_id' = [games_by_id EXCEPT ![g] = game],
         UNCHANGED <<open_games, next_game_id>>
  PROVE  SoundGames'
<1>1. game \in Game /\ game # NoGame
  BY NoGameAssumption DEF SoundGame
<1>2. games_by_id' \in [GameIds -> {NoGame} \cup Game]
  BY <1>1 DEF SoundGames
<1>3. \A h \in GameIds : games_by_id'[h] = IF h = g THEN game ELSE games_by_id[h]
  BY DEF SoundGames
<1>4. \A h \in GameIds : Live(h)' <=> Live(h)
  BY <1>1, <1>3 DEF Live
<1>5. \A h \in GameIds : Live(h)' =>
        SoundGame(games_by_id'[h]) /\ h < next_game_id'
  BY <1>3, <1>4 DEF SoundGames
<1>6. \A kind \in Kinds, h \in GameIds :
        h \in open_games'[kind] <=> Live(h)' /\ games_by_id'[h].kind = kind
  BY <1>3, <1>4 DEF SoundGames
<1> QED
  BY <1>2, <1>5, <1>6 DEF SoundGames

\* A callback that destroys games; the others are as in games.
LEMMA GamesAreDestroyed ==
  ASSUME SoundGames,
         NEW gs, NEW games,
         \A g \in GameIds \ gs :
           IF Live(g)
           THEN SoundGame(games[g]) /\ games[g].kind = games_by_id[g].kind
           ELSE games[g] = NoGame,
         Destroy(gs, games), UNCHANGED next_game_id
  PROVE  SoundGames'
<1>1. \A g \in GameIds :
        games_by_id'[g] = IF g \in gs THEN NoGame ELSE games[g]
  BY DEF Destroy
<1>2. games_by_id' \in [GameIds -> {NoGame} \cup Game]
  BY DEF Destroy, SoundGame
<1>3. \A g \in GameIds : Live(g)' <=> Live(g) /\ g \notin gs
  BY <1>1, NoGameAssumption DEF Live, SoundGame
<1>4. \A g \in GameIds : Live(g)' =>
        SoundGame(games_by_id'[g]) /\ g < next_game_id'
  BY <1>1, <1>3 DEF SoundGames
<1>5. \A kind \in Kinds, g \in GameIds :
        g \in open_games'[kind] <=> Live(g)' /\ games_by_id'[g].kind = kind
  BY <1>1, <1>3 DEF SoundGames, Destroy
<1>6. open_games' \in [Kinds -> SUBSET GameIds]
  BY DEF SoundGames, Destroy
<1> QED
  BY <1>2, <1>4, <1>5, <1>6 DEF SoundGames

\* .open keeps the types of connections, ids and what clients hold.
LEMMA EnterKeepsClients ==
  ASSUME SoundClients, NEW c \in Sockets, NEW slots \in 1 .. 2,
         NEW g \in GameIds, NEW game \in Game, Enter(c, slots, g, game)
  PROVE  SoundClients'
<1>1. NewIds(slots) \in SUBSET PlayerIds /\ next_player_id + slots \in PlayerIds
  BY DEF SoundClients, NewIds, PlayerIds
<1>2. [inbox EXCEPT ![c] = Welcome(NewIds(slots))] \in [Sockets -> Inbox]
  BY <1>1, WelcomeType DEF SoundClients
<1>3. inbox' \in [Sockets -> Inbox]
  BY <1>2, BroadcastLobbyType DEF Enter
<1>4. connections' \in [Sockets -> {NotConnected} \cup PerSocketData]
  BY <1>1 DEF SoundClients, Enter, PerSocketData
<1> QED
  BY <1>1, <1>3, <1>4 DEF SoundClients, Enter

\* .close keeps them.
LEMMA DisconnectKeepsClients ==
  ASSUME SoundClients, NEW c \in Sockets,
         NEW box \in [Sockets -> Inbox], Disconnect(c, box),
         UNCHANGED next_player_id
  PROVE  SoundClients'
<1>1. inbox' \in [Sockets -> Inbox]
  BY WelcomeType DEF Disconnect
<1>2. connections' \in [Sockets -> {NotConnected} \cup PerSocketData]
  BY DEF SoundClients, Disconnect
<1> QED
  BY <1>1, <1>2 DEF SoundClients

\* The outcomes of .open: a game of the open list takes the client in,
LEMMA OpenJoiningIsSound ==
  ASSUME Sound, NEW c \in Sockets, NEW kind \in Kinds, NEW slots \in 1 .. 2,
         OpenJoining(c, kind, slots)
  PROVE  Sound'
<1> DEFINE g == Min(Joinable(kind, slots))
           game == games_by_id[g]
           new == AddConnection(game, c, NewIds(slots))
<1>1. g \in Joinable(kind, slots)
  <2>1. Joinable(kind, slots) \in SUBSET Nat
    BY DEF Joinable, Sound, SoundGames, GameIds
  <2> QED
    BY <2>1, MinOfNaturals DEF OpenJoining
<1>2. g \in GameIds /\ Live(g) /\ SoundGame(game)
  BY <1>1 DEF Joinable, Sound, SoundGames
<1>3. HasRoomFor(game.kind, game.players, slots)
  BY <1>1 DEF Joinable, Accepts
<1>4. SoundGame(new) /\ new.kind = game.kind
  BY <1>2, <1>3, AddConnectionIsSound DEF NewIds, Sound, SoundClients
<1>5. Enter(c, slots, g, new) /\ UNCHANGED <<open_games, next_game_id>>
  BY DEF OpenJoining
<1> HIDE DEF g, new
<1>6. SoundGames'
  BY <1>2, <1>4, <1>5, OneGameChanges DEF Enter, Sound
<1>7. SoundClients'
  BY <1>2, <1>4, <1>5, EnterKeepsClients DEF Sound, SoundGame
<1> QED
  BY <1>6, <1>7 DEF Sound

\* or a game is created for it.
LEMMA OpenCreatingIsSound ==
  ASSUME Sound, NEW c \in Sockets, NEW kind \in Kinds, NEW slots \in 1 .. 2,
         OpenCreating(c, kind, slots)
  PROVE  Sound'
<1> DEFINE g == next_game_id
           new == AddConnection(CreateGame(kind), c, NewIds(slots))
<1>1. g \in GameIds /\ ~ Live(g) /\ g + 1 \in 1 .. MaxGameId + 1
  BY BoundsAssumption DEF OpenCreating, Sound, SoundGames, GameIds
<1>2. SoundGame(new) /\ new.kind = kind
  <2> DEFINE game == CreateGame(kind)
  <2>1. SoundGame(game) /\ game.kind = kind
    BY CreateGameIsSound
  <2>2. HasRoomFor(kind, game.players, slots)
    BY NewGameHasRoom DEF OpenCreating, OpenGuard
  <2>3. next_player_id \in PlayerIds
    BY DEF Sound, SoundClients
  <2> HIDE DEF game
  <2>4. LET filled == AddConnection(game, c, next_player_id
                                               .. next_player_id + slots - 1)
        IN  SoundGame(filled) /\ filled.kind = game.kind
    BY <2>1, <2>2, <2>3, AddConnectionIsSound
  <2> QED
    BY <2>1, <2>4 DEF NewIds, game
<1>3. /\ Enter(c, slots, g, new)
      /\ open_games' = [open_games EXCEPT ![kind] = @ \cup {g}]
      /\ next_game_id' = g + 1
  BY DEF OpenCreating
<1> HIDE DEF new
<1>4. new \in Game /\ new # NoGame
  BY <1>2, NoGameAssumption DEF SoundGame
<1>5. SoundGames'
  <2>1. games_by_id' \in [GameIds -> {NoGame} \cup Game]
    BY <1>3, <1>4 DEF Enter, Sound, SoundGames
  <2>2. \A h \in GameIds : games_by_id'[h] = IF h = g THEN new ELSE games_by_id[h]
    BY <1>3 DEF Enter, Sound, SoundGames
  <2>3. \A h \in GameIds : Live(h)' <=> Live(h) \/ h = g
    BY <1>4, <2>2 DEF Live
  <2>4. \A h \in GameIds : Live(h)' =>
          SoundGame(games_by_id'[h]) /\ h < next_game_id'
    <3> SUFFICES ASSUME NEW h \in GameIds, Live(h)'
                 PROVE  SoundGame(games_by_id'[h]) /\ h < g + 1
      BY <1>3
    <3>1. h \in Nat /\ g \in Nat
      BY <1>1 DEF GameIds
    <3>2. CASE h = g
      BY <1>2, <2>2, <3>1, <3>2
    <3>3. CASE h # g
      BY <2>2, <2>3, <3>1, <3>3 DEF Sound, SoundGames
    <3> QED
      BY <3>2, <3>3
  <2>5. open_games' \in [Kinds -> SUBSET GameIds]
    BY <1>1, <1>3 DEF Sound, SoundGames
  <2>6. \A k \in Kinds, h \in GameIds :
          h \in open_games'[k] <=> Live(h)' /\ games_by_id'[h].kind = k
    BY <1>1, <1>2, <1>3, <2>2, <2>3 DEF Sound, SoundGames
  <2> QED
    BY <1>1, <1>3, <2>1, <2>4, <2>5, <2>6 DEF SoundGames
<1>6. SoundClients'
  BY <1>1, <1>3, <1>4, EnterKeepsClients DEF Sound
<1> QED
  BY <1>5, <1>6 DEF Sound

\* READY and SWITCH_TEAM end alike.
LEMMA HandledIsSound ==
  ASSUME Sound, NEW g \in GameIds, Live(g),
         NEW game, SoundGame(game), game.kind = games_by_id[g].kind,
         Handled(g, game)
  PROVE  Sound'
<1>1. SoundGames'
  BY OneGameChanges DEF Handled, Sound
<1>2. SoundClients'
  BY BroadcastLobbyType DEF Handled, Sound, SoundClients, SoundGame
<1> QED
  BY <1>1, <1>2 DEF Sound

\* .message, for READY and SWITCH_TEAM.
LEMMA MessageIsSound ==
  ASSUME Sound, NEW c \in Sockets, Message(c)
  PROVE  Sound'
<1>1. ASSUME NEW id, NEW ready \in BOOLEAN, MessageReady(c, id, ready)
      PROVE  Sound'
  <2>1. PICK g \in GameIds :
          InGame(c, g) /\ Handled(g, Ready(games_by_id[g], c, id, ready))
    BY <1>1 DEF MessageReady
  <2>2. Live(g) /\ SoundGame(games_by_id[g])
    BY <2>1 DEF InGame, Sound, SoundGames
  <2> QED
    BY <2>1, <2>2, ReadyIsSound, HandledIsSound
<1>2. ASSUME NEW id, NEW target, MessageSwitchTeam(c, id, target)
      PROVE  Sound'
  <2>1. PICK g \in GameIds :
          InGame(c, g) /\ Handled(g, SwitchTeam(games_by_id[g], c, id, target))
    BY <1>2 DEF MessageSwitchTeam
  <2>2. Live(g) /\ SoundGame(games_by_id[g])
    BY <2>1 DEF InGame, Sound, SoundGames
  <2> QED
    BY <2>1, <2>2, SwitchTeamIsSound, HandledIsSound
<1> QED
  BY <1>1, <1>2 DEF Message

\* .close, with and without a game left.
LEMMA CloseIsSound ==
  ASSUME Sound, NEW c \in Sockets, Close(c)
  PROVE  Sound'
<1> USE DEF Sound
<1>1. CASE CloseAfterGame(c)
  <2>1. UNCHANGED <<games_by_id, open_games, next_game_id>>
    BY <1>1 DEF CloseAfterGame
  <2>2. SoundGames'
    BY <2>1 DEF SoundGames, SoundGame, Live
  <2>3. SoundClients'
    BY <1>1, DisconnectKeepsClients DEF CloseAfterGame, SoundClients
  <2> QED
    BY <2>2, <2>3
<1>2. CASE CloseLast(c)
  <2>1. PICK g \in GameIds :
          /\ Destroy({g}, games_by_id)
          /\ Disconnect(c, inbox)
          /\ UNCHANGED <<next_player_id, next_game_id>>
    BY <1>2 DEF CloseLast
  <2>2. SoundGames'
    <3>1. \A h \in GameIds \ {g} :
            IF Live(h)
            THEN /\ SoundGame(games_by_id[h])
                 /\ games_by_id[h].kind = games_by_id[h].kind
            ELSE games_by_id[h] = NoGame
      BY DEF SoundGames, Live
    <3> QED
      BY <2>1, <3>1, GamesAreDestroyed
  <2>3. SoundClients'
    BY <2>1, DisconnectKeepsClients DEF SoundClients
  <2> QED
    BY <2>2, <2>3
<1>3. CASE CloseOne(c)
  <2> DEFINE game(g) == RemoveConnection(games_by_id[g], c)
             box(g) == IF ~ game(g).is_over /\ ~ game(g).is_running
                       THEN BroadcastLobby(inbox, game(g)) ELSE inbox
  <2>1. PICK g \in GameIds :
          /\ InGame(c, g)
          /\ games_by_id' = [games_by_id EXCEPT ![g] = game(g)]
          /\ Disconnect(c, box(g))
          /\ UNCHANGED <<open_games, next_player_id, next_game_id>>
    BY <1>3 DEF CloseOne
  <2>2. Live(g) /\ SoundGame(games_by_id[g])
    BY <2>1 DEF InGame, SoundGames
  <2>3. SoundGame(game(g)) /\ game(g).kind = games_by_id[g].kind
    BY <2>2, RemoveConnectionIsSound
  <2> HIDE DEF game
  <2>4. SoundGames'
    BY <2>1, <2>2, <2>3, OneGameChanges
  <2>5. box(g) \in [Sockets -> Inbox]
    BY <2>3, BroadcastLobbyType DEF SoundClients, SoundGame
  <2>6. SoundClients'
    BY <2>1, <2>5, DisconnectKeepsClients
  <2> QED
    BY <2>4, <2>6
<1> QED
  BY <1>1, <1>2, <1>3 DEF Close

\* The timer updates all games and destroys those that are over.
LEMMA TickIsSound ==
  ASSUME Sound, Tick
  PROVE  Sound'
<1>1. PICK ending \in SUBSET {g \in LiveGames : games_by_id[g].is_running} :
        LET updated == [g \in GameIds |->
                          IF Live(g) THEN Update(games_by_id[g], g \in ending)
                                     ELSE NoGame]
            finished == {g \in LiveGames : updated[g].is_over}
        IN  /\ Destroy(finished, updated)
            /\ inbox' = [c \in Sockets |->
                           IF \E g \in ending : c \in games_by_id[g].sockets
                           THEN [inbox[c] EXCEPT !.ended = TRUE] ELSE inbox[c]]
            /\ UNCHANGED <<connections, next_player_id, next_game_id>>
  BY DEF Tick
<1> DEFINE updated == [g \in GameIds |->
                         IF Live(g) THEN Update(games_by_id[g], g \in ending)
                                    ELSE NoGame]
           finished == {g \in LiveGames : updated[g].is_over}
<1>2. ASSUME NEW g \in GameIds \ finished
      PROVE  IF Live(g)
             THEN SoundGame(updated[g]) /\ updated[g].kind = games_by_id[g].kind
             ELSE updated[g] = NoGame
  <2>1. CASE ~ Live(g)
    BY <2>1
  <2>2. CASE Live(g)
    <3>1. SoundGame(games_by_id[g]) /\ games_by_id[g] \in Game
      BY <2>2 DEF Sound, SoundGames, SoundGame
    <3>2. updated[g] = Update(games_by_id[g], g \in ending) /\ ~ updated[g].is_over
      BY <1>2, <2>2 DEF LiveGames
    <3>3. (g \in ending) \in BOOLEAN
      OBVIOUS
    <3> QED
      BY <2>2, <3>1, <3>2, <3>3, UpdateIsSound
  <2> QED
    BY <2>1, <2>2
<1>3. SoundGames'
  <2> HIDE DEF updated, finished
  <2>1. Destroy(finished, updated) /\ UNCHANGED next_game_id
    BY <1>1 DEF updated, finished
  <2> QED
    BY <1>2, <2>1, GamesAreDestroyed DEF Sound
<1>4. SoundClients'
  <2>1. inbox' \in [Sockets -> Inbox]
    BY <1>1 DEF Sound, SoundClients, Inbox
  <2> QED
    BY <1>1, <2>1 DEF Sound, SoundClients
<1> QED
  BY <1>3, <1>4 DEF Sound

-----------------------------------------------------------------------------
(* Theorems. *)

\* Whatever clients send and whenever they leave, the games stay sound, the open
\* lists hold the live ones, and ids are fresh.
THEOREM SoundIsInvariant == Spec => []Sound
<1>1. Init => Sound
  <2> SUFFICES ASSUME Init PROVE Sound
    OBVIOUS
  <2>1. SoundGames
    BY BoundsAssumption DEF Init, SoundGames, Live
  <2>2. SoundClients
    BY WelcomeType DEF Init, SoundClients, PlayerIds
  <2> QED
    BY <2>1, <2>2 DEF Sound
<1>2. Sound /\ [Next]_vars => Sound'
  <2> SUFFICES ASSUME Sound, [Next]_vars PROVE Sound'
    OBVIOUS
  <2>1. CASE Tick
    BY <2>1, TickIsSound
  <2>2. ASSUME NEW c \in Sockets, Open(c) PROVE Sound'
    BY <2>2, OpenJoiningIsSound, OpenCreatingIsSound
       DEF Open, MaxPlayersPerClient
  <2>3. ASSUME NEW c \in Sockets, Message(c) PROVE Sound'
    BY <2>3, MessageIsSound
  <2>4. ASSUME NEW c \in Sockets, Close(c) PROVE Sound'
    BY <2>4, CloseIsSound
  <2>5. CASE UNCHANGED vars
    BY <2>5 DEF vars, Sound, SoundGames, SoundClients, Live
  <2> QED
    BY <2>1, <2>2, <2>3, <2>4, <2>5 DEF Next
<1> QED
  BY <1>1, <1>2, PTL DEF Spec

\* The types of the server's state.
THEOREM TypeCorrect == Spec => []TypeOK
<1>1. Sound => TypeOK
  BY DEF Sound, SoundGames, SoundClients, TypeOK
<1> QED
  BY <1>1, SoundIsInvariant, PTL

\* Whatever clients do, every player of a team sits in a slot of that team
\* with a rank below the team size.
THEOREM TeamsStayInTheirSlots == Spec => []TeamsInTheirSlots
<1>1. Sound => TeamsInTheirSlots
  BY DEF Sound, SoundGames, SoundGame, TeamsInTheirSlots, LiveGames
<1> QED
  BY <1>1, SoundIsInvariant, PTL

\* An open list never keeps a game that was destroyed, nor loses one that
\* exists.
THEOREM PoolsStayLive == Spec => []PoolsHoldLiveGames
<1>1. Sound => PoolsHoldLiveGames
  BY DEF Sound, SoundGames, SoundGame, PoolsHoldLiveGames, LiveGames
<1> QED
  BY <1>1, SoundIsInvariant, PTL

-----------------------------------------------------------------------------
(***************************************************************************)
(* Part 3: who sits where.                                                 *)
(*                                                                         *)
(* Sound says that the players of a game are in the slots of their teams,  *)
(* not that each player of each client has one.  The invariant Kept adds   *)
(* it: every game holds, by socket, exactly the ids .open gave that        *)
(* socket, each in one slot, and while it runs its simulation holds the    *)
(* same ids.  It needs the ids to be fresh, and the counts of free seats   *)
(* to be those of free slots.                                              *)
(***************************************************************************)

HeldBy(players, c) == IdsIn(players, SeatsOf(players, c))

OneSeatEach(players) ==
  \A s, r \in Seated(players) : players[s].id = players[r].id => s = r

IdsBelow(players, n) == \A s \in Seated(players) : players[s].id < n

\* ws has taken a seat for each of ids, the others keep theirs.
SeatsTaken(seats, players, ws, ids) ==
  /\ OneSeatEach(seats)
  /\ \A c \in Sockets :
       HeldBy(seats, c) = IF c = ws THEN HeldBy(players, c) \cup ids
                          ELSE HeldBy(players, c)

-----------------------------------------------------------------------------
(* A count of free seats that says there is room is right. *)

\* A team that is not full has a free slot: players of that very team sit in
\* all the taken ones.
LEMMA TeamWithRoomHasASlot ==
  ASSUME NEW kind \in Kind, IsPvP(kind),
         NEW players \in Seating, SeatedByTeam(kind, players),
         NEW t \in TeamsOf(kind), FreeSlots(kind, players, t) >= 1
  PROVE  TeamSlotRange(t) \ Seated(players) # {}
<1> SUFFICES ASSUME TeamSlotRange(t) \subseteq Seated(players)
             PROVE  FALSE
  OBVIOUS
<1>1. /\ t \in TeamIds
      /\ kind.team_size \in Nat /\ kind.team_size <= MaxPlayersPerTeam
      /\ MaxPlayersPerTeam \in Nat
  BY LimitsAssumption DEF TeamsOf, TeamIds, Kind
<1>2. TeamSlotRange(t) \subseteq OfTeam(players, t)
  <2> SUFFICES ASSUME NEW s \in TeamSlotRange(t)
               PROVE  s \in OfTeam(players, t)
    OBVIOUS
  <2>1. /\ s \in Seated(players)
        /\ players[s].team_id \in TeamIds
        /\ s \in TeamSlotRange(players[s].team_id)
    BY LimitsAssumption DEF SeatedByTeam, TeamsOf, TeamIds, Kind
  <2>2. players[s].team_id = t
    BY <1>1, <2>1, RankOfSlot
  <2> QED
    BY <2>1, <2>2 DEF OfTeam
<1>3. Cardinality(TeamSlotRange(t)) = MaxPlayersPerTeam
  BY <1>1, TeamSlots, CountInterval
<1>4. Cardinality(TeamSlotRange(t)) <= CountPlayersOfTeam(players, t)
  BY <1>2, SeatsAreFinite, FS_Subset DEF CountPlayersOfTeam
<1> QED
  BY <1>1, <1>3, <1>4, SeatsAreFinite DEF FreeSlots

\* A coop match with fewer players than MAX_PLAYERS_COOP has one too.
LEMMA CoopWithRoomHasASlot ==
  ASSUME NEW players, Cardinality(Seated(players)) < MaxPlayersCoop
  PROVE  Slots \ Seated(players) # {}
<1> SUFFICES ASSUME Slots \subseteq Seated(players)
             PROVE  FALSE
  OBVIOUS
<1>1. Slots = Seated(players)
  BY DEF Seated
<1>2. MaxPlayersPerGame \in Nat /\ MaxPlayersCoop <= MaxPlayersPerGame
  BY LimitsAssumption DEF MaxPlayersPerGame
<1>3. Cardinality(Slots) = MaxPlayersPerGame
  <2>1. Slots = 0 .. 0 + MaxPlayersPerGame - 1
    BY <1>2 DEF Slots
  <2> QED
    BY <1>2, <2>1, CountInterval
<1> QED
  BY <1>1, <1>2, <1>3, LimitsAssumption

-----------------------------------------------------------------------------
(* What the operations do to the seats each socket holds. *)

\* A new player in a free slot.
LEMMA TakeASlot ==
  ASSUME NEW players \in Seating, OneSeatEach(players),
         NEW player \in PlayerConnection, IdsBelow(players, player.id),
         NEW f \in Slots \ Seated(players),
         NEW seats, seats[f] = player,
         \A s \in Slots \ {f} : seats[s] = players[s]
  PROVE  /\ Seated(seats) = Seated(players) \cup {f}
         /\ OneSeatEach(seats)
         /\ IdsBelow(seats, player.id + 1)
         /\ \A c \in Sockets :
              HeldBy(seats, c) = IF c = player.ws
                                 THEN HeldBy(players, c) \cup {player.id}
                                 ELSE HeldBy(players, c)
<1>1. /\ player # NoPlayer
      /\ player.id \in Nat
      /\ \A s \in Seated(players) :
           /\ players[s] \in PlayerConnection
           /\ players[s].id \in Nat
           /\ s \in Slots
  BY NoPlayerAssumption DEF Seated, Seating, PlayerConnection, PlayerIds
<1>2. /\ Seated(seats) = Seated(players) \cup {f}
      /\ seats[f] = player
      /\ \A s \in Seated(players) : seats[s] = players[s] /\ s # f
  BY <1>1 DEF Seated, Seating
<1>3. OneSeatEach(seats)
  BY <1>1, <1>2 DEF OneSeatEach, IdsBelow
<1>4. IdsBelow(seats, player.id + 1)
  BY <1>1, <1>2 DEF IdsBelow
<1>5. ASSUME NEW c \in Sockets
      PROVE  HeldBy(seats, c) = IF c = player.ws
                                THEN HeldBy(players, c) \cup {player.id}
                                ELSE HeldBy(players, c)
  <2>1. SeatsOf(seats, c) = IF c = player.ws
                            THEN SeatsOf(players, c) \cup {f}
                            ELSE SeatsOf(players, c)
    BY <1>2 DEF SeatsOf
  <2>2. \A s \in SeatsOf(players, c) : seats[s] = players[s]
    BY <1>2 DEF SeatsOf
  <2> QED
    BY <1>2, <2>1, <2>2 DEF HeldBy, IdsIn
<1> QED
  BY <1>2, <1>3, <1>4, <1>5

\* The same people in the same slots, whatever their ready flags.
LEMMA SamePeopleSameSeats ==
  ASSUME NEW players, NEW seats,
         \A s \in Slots :
           /\ seats[s] = NoPlayer <=> players[s] = NoPlayer
           /\ players[s] # NoPlayer =>
                /\ seats[s].id = players[s].id
                /\ seats[s].ws = players[s].ws
                /\ seats[s].team_id = players[s].team_id
  PROVE  /\ OneSeatEach(players) => OneSeatEach(seats)
         /\ \A c : HeldBy(seats, c) = HeldBy(players, c)
         /\ \A t : IdsIn(seats, OfTeam(seats, t))
                     = IdsIn(players, OfTeam(players, t))
<1>1. /\ Seated(seats) = Seated(players)
      /\ \A s \in Seated(players) :
           /\ seats[s].id = players[s].id
           /\ seats[s].ws = players[s].ws
           /\ seats[s].team_id = players[s].team_id
  BY DEF Seated
<1>2. OneSeatEach(players) => OneSeatEach(seats)
  BY <1>1 DEF OneSeatEach
<1>3. ASSUME NEW c
      PROVE  HeldBy(seats, c) = HeldBy(players, c)
  <2>1. SeatsOf(seats, c) = SeatsOf(players, c)
    BY <1>1 DEF SeatsOf
  <2>2. \A s \in SeatsOf(players, c) : seats[s].id = players[s].id
    BY <1>1 DEF SeatsOf
  <2> QED
    BY <2>1, <2>2 DEF HeldBy, IdsIn
<1>4. ASSUME NEW t
      PROVE  IdsIn(seats, OfTeam(seats, t)) = IdsIn(players, OfTeam(players, t))
  <2>1. OfTeam(seats, t) = OfTeam(players, t)
    BY <1>1 DEF OfTeam
  <2>2. \A s \in OfTeam(players, t) : seats[s].id = players[s].id
    BY <1>1 DEF OfTeam
  <2> QED
    BY <2>1, <2>2 DEF IdsIn
<1> QED
  BY <1>2, <1>3, <1>4

\* One player put into a team with a free seat takes a slot.
LEMMA InsertInTeamSeats ==
  ASSUME NEW kind \in Kind, IsPvP(kind),
         NEW players \in Seating, SeatedByTeam(kind, players),
         NEW t \in TeamsOf(kind), FreeSlots(kind, players, t) >= 1,
         NEW id \in PlayerIds, NEW ws \in Sockets,
         OneSeatEach(players), IdsBelow(players, id)
  PROVE  LET seats == InsertInTeam(players, id, ws, t)
         IN  SeatsTaken(seats, players, ws, {id}) /\ IdsBelow(seats, id + 1)
<1> DEFINE free == TeamSlotRange(t) \ Seated(players)
           player == NewPlayer(id, ws, t)
           seats == InsertInTeam(players, id, ws, t)
<1>1. free # {}
  BY TeamWithRoomHasASlot
<1>2. Min(free) \in Slots \ Seated(players)
  <2>1. t \in TeamIds
    BY LimitsAssumption DEF TeamsOf, TeamIds, Kind
  <2>2. free \subseteq Slots /\ free \subseteq Nat
    BY <2>1, TeamSlots, SlotsAreFinite
  <2> QED
    BY <1>1, <2>2, MinOfNaturals
<1>3. player \in PlayerConnection /\ player.id = id /\ player.ws = ws
  <2>1. t \in TeamIds
    BY LimitsAssumption DEF TeamsOf, TeamIds, Kind
  <2> QED
    BY <2>1, NewPlayerType DEF NewPlayer
<1> DEFINE f == Min(free)
<1>4. seats[f] = player /\ \A s \in Slots \ {f} : seats[s] = players[s]
  <2>1. seats = [players EXCEPT ![f] = player]
    BY <1>1 DEF InsertInTeam, InsertPlayer
  <2> HIDE DEF f, player, seats
  <2> QED
    BY <1>2, <2>1 DEF Seating, f
<1> HIDE DEF f, player, seats
<1>5. /\ OneSeatEach(seats)
      /\ IdsBelow(seats, player.id + 1)
      /\ \A c \in Sockets :
           HeldBy(seats, c) = IF c = player.ws
                              THEN HeldBy(players, c) \cup {player.id}
                              ELSE HeldBy(players, c)
  BY <1>2, <1>3, <1>4, TakeASlot DEF f
<1> QED
  BY <1>3, <1>5 DEF seats, SeatsTaken

\* So does one put into a coop match with room.
LEMMA InsertCoopSeats ==
  ASSUME NEW players \in Seating,
         Cardinality(Seated(players)) < MaxPlayersCoop,
         NEW id \in PlayerIds, NEW ws \in Sockets,
         OneSeatEach(players), IdsBelow(players, id)
  PROVE  LET seats == InsertCoop(players, id, ws)
         IN  /\ SeatsTaken(seats, players, ws, {id})
             /\ IdsBelow(seats, id + 1)
             /\ Cardinality(Seated(seats)) <= Cardinality(Seated(players)) + 1
<1> DEFINE free == Slots \ Seated(players)
           player == NewPlayer(id, ws, NoTeam)
           seats == InsertCoop(players, id, ws)
<1>1. free # {}
  BY CoopWithRoomHasASlot
<1>2. Min(free) \in free
  BY <1>1, SlotsAreFinite, MinOfNaturals
<1>3. player \in PlayerConnection /\ player.id = id /\ player.ws = ws
  BY NewPlayerType DEF NewPlayer
<1> DEFINE f == Min(free)
<1>4. seats[f] = player /\ \A s \in Slots \ {f} : seats[s] = players[s]
  <2>1. seats = [players EXCEPT ![f] = player]
    BY <1>1 DEF InsertCoop, InsertPlayer
  <2> HIDE DEF f, player, seats
  <2> QED
    BY <1>2, <2>1 DEF Seating, f
<1> HIDE DEF f, player, seats
<1>5. /\ Seated(seats) = Seated(players) \cup {f}
      /\ OneSeatEach(seats)
      /\ IdsBelow(seats, player.id + 1)
      /\ \A c \in Sockets :
           HeldBy(seats, c) = IF c = player.ws
                              THEN HeldBy(players, c) \cup {player.id}
                              ELSE HeldBy(players, c)
  BY <1>2, <1>3, <1>4, TakeASlot DEF f
<1>6. Cardinality(Seated(seats)) <= Cardinality(Seated(players)) + 1
  BY <1>5, SeatsAreFinite, CountAdded
<1> QED
  BY <1>3, <1>5, <1>6 DEF seats, SeatsTaken

\* addPlayers drops nobody when the game has room: the connection holds the
\* ids it was given, the others what they held.
LEMMA AddPlayersSeats ==
  ASSUME NEW kind \in Kind,
         NEW players \in Seating, SeatedByTeam(kind, players),
         NEW ws \in Sockets, NEW n \in PlayerIds, NEW k \in 1 .. 2,
         HasRoomFor(kind, players, k),
         OneSeatEach(players), IdsBelow(players, n)
  PROVE  LET seats == AddPlayers(kind, players, ws, n .. n + k - 1)
         IN  /\ SeatsTaken(seats, players, ws, n .. n + k - 1)
             /\ IdsBelow(seats, n + k)
<1> DEFINE seats == AddPlayers(kind, players, ws, n .. n + k - 1)
<1>1. /\ n \in Nat /\ n + 1 \in PlayerIds
      /\ n .. n + 1 - 1 = {n}
      /\ n .. n + 2 - 1 = {n} \cup {n + 1}
      /\ n + 2 - 1 = n + 1
      /\ (n + 1) + 1 = n + 2
  BY DEF PlayerIds
<1>2. ASSUME NEW first, NEW second,
             SeatsTaken(first, players, ws, {n}),
             SeatsTaken(second, first, ws, {n + 1})
      PROVE  SeatsTaken(second, players, ws, {n} \cup {n + 1})
  BY <1>2 DEF SeatsTaken
<1>3. CASE ~ IsPvP(kind)
  <2> DEFINE first == InsertCoop(players, n, ws)
             second == InsertCoop(first, n + 1, ws)
  <2>1. /\ k = 1 => seats = first
        /\ k = 2 => seats = second
    <3>1. seats = IF k = 1 THEN InsertCoop(players, n, ws)
                  ELSE InsertCoop(InsertCoop(players, n, ws), n + k - 1, ws)
      BY <1>3, AddCoopPlayers
    <3> QED
      BY <3>1, <1>1
  <2> HIDE DEF seats
  <2>2. Cardinality(Seated(players)) + k <= MaxPlayersCoop
    BY <1>3 DEF HasRoomFor
  <2>3. Cardinality(Seated(players)) < MaxPlayersCoop
    BY <2>2, SeatsAreFinite, LimitsAssumption
  <2>4. /\ SeatsTaken(first, players, ws, {n})
        /\ IdsBelow(first, n + 1)
        /\ Cardinality(Seated(first)) <= Cardinality(Seated(players)) + 1
    BY <2>3, InsertCoopSeats
  <2>5. first \in Seating
    BY <1>3, InsertCoopKeepsSeats
  <2> HIDE DEF first
  <2>6. ASSUME k = 2
        PROVE  SeatsTaken(second, first, ws, {n + 1}) /\ IdsBelow(second, n + 2)
    <3>1. Cardinality(Seated(first)) < MaxPlayersCoop
      BY <2>2, <2>4, <2>6, SeatsAreFinite, LimitsAssumption
    <3>2. OneSeatEach(first)
      BY <2>4 DEF SeatsTaken
    <3> QED
      BY <1>1, <2>4, <2>5, <3>1, <3>2, InsertCoopSeats
  <2> HIDE DEF second
  <2>7. CASE k = 1
    BY <1>1, <2>1, <2>4, <2>7 DEF seats
  <2>8. CASE k = 2
    BY <1>1, <1>2, <2>1, <2>4, <2>6, <2>8 DEF seats
  <2> QED
    BY <2>7, <2>8
<1>4. CASE IsPvP(kind)
  <2>1. PICK t \in TeamsOf(kind), u \in TeamsOf(kind) :
          /\ FreeSlots(kind, players, t) >= 1
          /\ k = 1 => seats = InsertInTeam(players, n, ws, t)
          /\ k = 2 =>
               /\ FreeSlots(kind, InsertInTeam(players, n, ws, t), u) >= 1
               /\ seats = InsertInTeam(InsertInTeam(players, n, ws, t),
                                       n + k - 1, ws, u)
    BY <1>4, AddTeamPlayers DEF HasRoomFor
  <2> DEFINE first == InsertInTeam(players, n, ws, t)
             second == InsertInTeam(first, n + 1, ws, u)
  <2>2. /\ k = 1 => seats = first
        /\ k = 2 => FreeSlots(kind, first, u) >= 1 /\ seats = second
    BY <1>1, <2>1
  <2> HIDE DEF seats
  <2>3. SeatsTaken(first, players, ws, {n}) /\ IdsBelow(first, n + 1)
    BY <1>4, <2>1, InsertInTeamSeats
  <2>4. first \in Seating /\ SeatedByTeam(kind, first)
    BY <1>4, <2>1, InsertInTeamKeepsSeats
  <2> HIDE DEF first
  <2>5. ASSUME k = 2
        PROVE  SeatsTaken(second, first, ws, {n + 1}) /\ IdsBelow(second, n + 2)
    <3>1. FreeSlots(kind, first, u) >= 1
      BY <2>2, <2>5
    <3>2. OneSeatEach(first)
      BY <2>3 DEF SeatsTaken
    <3> QED
      BY <1>1, <1>4, <2>3, <2>4, <3>1, <3>2, InsertInTeamSeats
  <2> HIDE DEF second
  <2>6. CASE k = 1
    BY <1>1, <2>2, <2>3, <2>6 DEF seats
  <2>7. CASE k = 2
    BY <1>1, <1>2, <2>2, <2>3, <2>5, <2>7 DEF seats
  <2> QED
    BY <2>6, <2>7
<1> QED
  BY <1>3, <1>4

\* A ready flag changes no seat.
LEMMA SetPlayerReadySeats ==
  ASSUME NEW players \in Seating, NEW id, NEW ready \in BOOLEAN, NEW ws
  PROVE  LET seats == SetPlayerReady(players, id, ready, ws)
         IN  /\ OneSeatEach(players) => OneSeatEach(seats)
             /\ \A c : HeldBy(seats, c) = HeldBy(players, c)
             /\ \A t : IdsIn(seats, OfTeam(seats, t))
                         = IdsIn(players, OfTeam(players, t))
<1> DEFINE seats == SetPlayerReady(players, id, ready, ws)
<1>1. \A s \in Slots :
        /\ seats[s] = NoPlayer <=> players[s] = NoPlayer
        /\ players[s] # NoPlayer =>
             /\ seats[s].id = players[s].id
             /\ seats[s].ws = players[s].ws
             /\ seats[s].team_id = players[s].team_id
  BY NoPlayerAssumption DEF SetPlayerReady, Seating, PlayerConnection
<1> HIDE DEF seats
<1> QED
  BY <1>1, SamePeopleSameSeats DEF seats

\* A switch takes nobody's seat: the player has another one.
LEMMA MoveToTeamSeats ==
  ASSUME NEW players \in Seating, OneSeatEach(players),
         NEW s \in Seated(players), NEW target \in TeamIds
  PROVE  LET seats == MoveToTeam(players, s, target)
         IN  /\ OneSeatEach(seats)
             /\ \A c \in Sockets : HeldBy(seats, c) = HeldBy(players, c)
<1> DEFINE unready == UnreadyTeams(players, {players[s].team_id, target})
           free == TeamSlotRange(target) \ Seated(players)
           f == Min(free)
           moved == [unready[s] EXCEPT !.team_id = target]
           seats == MoveToTeam(players, s, target)
<1>1. \A q \in Slots :
        /\ unready[q] = NoPlayer <=> players[q] = NoPlayer
        /\ players[q] # NoPlayer =>
             /\ unready[q].id = players[q].id
             /\ unready[q].ws = players[q].ws
             /\ unready[q].team_id = players[q].team_id
             /\ unready[q] \in PlayerConnection
  BY NoPlayerAssumption DEF UnreadyTeams, Seating, PlayerConnection
<1>2. /\ OneSeatEach(unready)
      /\ \A c : HeldBy(unready, c) = HeldBy(players, c)
      /\ Seated(unready) = Seated(players)
  <2> HIDE DEF unready
  <2> QED
    BY <1>1, SamePeopleSameSeats DEF Seated
<1>3. CASE free = {}
  BY <1>2, <1>3 DEF MoveToTeam
<1>4. CASE free # {}
  <2>1. f \in Slots \ Seated(players)
    <3>1. free \subseteq Slots /\ free \subseteq Nat
      BY TeamSlots, SlotsAreFinite
    <3> QED
      BY <1>4, <3>1, MinOfNaturals
  <2>2. seats = [unready EXCEPT ![f] = moved, ![s] = NoPlayer]
    BY <1>4 DEF MoveToTeam
  <2>3. unready \in Seating
    BY UnreadyTeamsKeepsSeats
  <2>4. /\ moved # NoPlayer
        /\ moved.id = unready[s].id
        /\ moved.ws = unready[s].ws
    <3>1. unready[s] \in PlayerConnection
      BY <1>1 DEF Seated
    <3> QED
      BY <3>1, NoPlayerAssumption DEF PlayerConnection
  <2> HIDE DEF unready, f, moved, seats
  <2>5. /\ s \in Seated(unready) /\ f # s
        /\ Seated(seats) = (Seated(unready) \ {s}) \cup {f}
        /\ seats[f] = moved
        /\ \A q \in Seated(unready) \ {s} : seats[q] = unready[q]
    BY <1>2, <2>1, <2>2, <2>3, <2>4 DEF Seating, Seated
  <2>6. OneSeatEach(seats)
    BY <1>2, <2>1, <2>4, <2>5 DEF OneSeatEach
  <2>7. ASSUME NEW c \in Sockets
        PROVE  HeldBy(seats, c) = HeldBy(unready, c)
    <3>1. ASSUME NEW i
          PROVE  i \in HeldBy(seats, c) <=>
                   \E q \in Seated(seats) : seats[q].ws = c /\ i = seats[q].id
      BY DEF HeldBy, IdsIn, SeatsOf
    <3>2. ASSUME NEW i
          PROVE  i \in HeldBy(unready, c) <=>
                   \E q \in Seated(unready) :
                     unready[q].ws = c /\ i = unready[q].id
      BY DEF HeldBy, IdsIn, SeatsOf
    <3>3. ASSUME NEW i, i \in HeldBy(seats, c)
          PROVE  i \in HeldBy(unready, c)
      BY <2>4, <2>5, <3>1, <3>2, <3>3
    <3>4. ASSUME NEW i, i \in HeldBy(unready, c)
          PROVE  i \in HeldBy(seats, c)
      BY <2>4, <2>5, <3>1, <3>2, <3>4
    <3> QED
      BY <3>3, <3>4
  <2> QED
    BY <1>2, <2>6, <2>7 DEF seats
<1> QED
  BY <1>3, <1>4

\* The seats of a connection that leaves are freed, the others stay.
LEMMA RemovePlayersSeats ==
  ASSUME NEW players \in Seating, OneSeatEach(players), NEW ws
  PROVE  LET seats == RemovePlayers(players, ws)
         IN  /\ OneSeatEach(seats)
             /\ \A c : HeldBy(seats, c) = IF c = ws THEN {}
                                          ELSE HeldBy(players, c)
             /\ \A t : IdsIn(seats, OfTeam(seats, t))
                         = IdsIn(players, OfTeam(players, t))
                             \ HeldBy(players, ws)
<1> DEFINE seats == RemovePlayers(players, ws)
<1>1. /\ Seated(seats) = Seated(players) \ SeatsOf(players, ws)
      /\ \A s \in Seated(seats) : seats[s] = players[s]
  BY DEF RemovePlayers, Seated, SeatsOf
<1> HIDE DEF seats
<1>2. OneSeatEach(seats)
  BY <1>1 DEF OneSeatEach
<1>3. ASSUME NEW c
      PROVE  HeldBy(seats, c) = IF c = ws THEN {} ELSE HeldBy(players, c)
  <2>1. SeatsOf(seats, c) = IF c = ws THEN {} ELSE SeatsOf(players, c)
    BY <1>1 DEF SeatsOf
  <2>2. \A s \in SeatsOf(seats, c) : seats[s].id = players[s].id
    BY <1>1 DEF SeatsOf
  <2> QED
    BY <2>1, <2>2 DEF HeldBy, IdsIn
<1>4. ASSUME NEW t
      PROVE  IdsIn(seats, OfTeam(seats, t))
               = IdsIn(players, OfTeam(players, t)) \ HeldBy(players, ws)
  <2>1. OfTeam(seats, t) = OfTeam(players, t) \ SeatsOf(players, ws)
    BY <1>1 DEF OfTeam
  <2>2. \A s \in OfTeam(seats, t) : seats[s].id = players[s].id
    BY <1>1 DEF OfTeam
  <2>3. \A s \in OfTeam(players, t), r \in SeatsOf(players, ws) :
          players[s].id = players[r].id => s = r
    BY DEF OneSeatEach, OfTeam, SeatsOf
  <2> QED
    BY <2>1, <2>2, <2>3 DEF HeldBy, IdsIn
<1> QED
  BY <1>2, <1>3, <1>4 DEF seats

-----------------------------------------------------------------------------
(* What the operations of a game do to them. *)

\* A running simulation holds the seated players, team by team.
SimMatches(game) ==
  /\ ~ game.sim.over
  /\ \A t \in {NoTeam} \cup TeamIds :
       game.sim.roster[t] = IdsIn(game.players, OfTeam(game.players, t))

WellSeated(game) ==
  /\ SoundGame(game)
  /\ OneSeatEach(game.players)
  /\ game.is_running => SimMatches(game)

\* tryStart makes a simulation of the seats, and leaves the seats alone.
LEMMA TryStartSeats ==
  ASSUME NEW game, SoundGame(game), OneSeatEach(game.players),
         game.is_running => SimMatches(game)
  PROVE  LET new == TryStart(game)
         IN  /\ WellSeated(new)
             /\ new.players = game.players
             /\ new.sockets = game.sockets
             /\ new.kind = game.kind
<1> DEFINE new == TryStart(game)
<1>1. SoundGame(new) /\ new.kind = game.kind
  BY TryStartIsSound
<1>2. game \in Game
  BY DEF SoundGame
<1>3. CASE new = game
  BY <1>3 DEF WellSeated
<1>4. CASE new # game
  <2>1. new = [game EXCEPT !.sim = StartSim(game), !.is_running = TRUE]
    BY <1>4 DEF TryStart
  <2> HIDE DEF new
  <2>2. /\ new.players = game.players
        /\ new.sockets = game.sockets
        /\ new.sim = StartSim(game)
    BY <1>2, <2>1 DEF Game
  <2>3. SimMatches(new)
    BY <2>2 DEF SimMatches, StartSim
  <2> QED
    BY <1>1, <2>2, <2>3 DEF WellSeated, new
<1> QED
  BY <1>3, <1>4

\* addPlayers lets the socket in.
LEMMA AddConnectionSockets ==
  ASSUME NEW game \in Game, NEW c, NEW ids
  PROVE  AddConnection(game, c, ids).sockets = game.sockets \cup {c}
<1> DEFINE players == AddPlayers(game.kind, game.players, c, ids)
           filled == [game EXCEPT !.players = players, !.sockets = @ \cup {c}]
<1> HIDE DEF players
<1>1. filled.sockets = game.sockets \cup {c}
  BY DEF Game
<1>2. TryStart(filled).sockets = filled.sockets
  BY DEF TryStart, Game
<1> QED
  BY <1>1, <1>2 DEF AddConnection, players

\* It seats the newcomers of a match that does not run and has room.
LEMMA AddConnectionSeats ==
  ASSUME NEW game, WellSeated(game), ~ game.is_running,
         NEW c \in Sockets, NEW n \in PlayerIds, NEW k \in 1 .. 2,
         HasRoomFor(game.kind, game.players, k), IdsBelow(game.players, n)
  PROVE  LET new == AddConnection(game, c, n .. n + k - 1)
         IN  /\ WellSeated(new)
             /\ new.kind = game.kind
             /\ IdsBelow(new.players, n + k)
             /\ SeatsTaken(new.players, game.players, c, n .. n + k - 1)
<1> DEFINE ids == n .. n + k - 1
           players == AddPlayers(game.kind, game.players, c, ids)
           filled == [game EXCEPT !.players = players, !.sockets = @ \cup {c}]
<1>1. /\ game \in Game /\ game.kind \in Kind /\ game.players \in Seating
      /\ SeatedByTeam(game.kind, game.players)
      /\ OneSeatEach(game.players)
  BY KindType DEF WellSeated, SoundGame, Game
<1>2. players \in Seating /\ SeatedByTeam(game.kind, players)
  BY <1>1, AddPlayersKeepsSeats
<1>3. SeatsTaken(players, game.players, c, ids) /\ IdsBelow(players, n + k)
  BY <1>1, AddPlayersSeats
<1> HIDE DEF players
<1>4. /\ SoundGame(filled)
      /\ filled.kind = game.kind
      /\ filled.players = players
      /\ filled.sockets = game.sockets \cup {c}
      /\ ~ filled.is_running
  BY <1>1, <1>2 DEF WellSeated, SoundGame, Game
<1> DEFINE new == AddConnection(game, c, ids)
<1>5. new = TryStart(filled)
  BY DEF AddConnection, players
<1> HIDE DEF filled, new, ids
<1>6. /\ WellSeated(new)
      /\ new.players = players
      /\ new.sockets = filled.sockets
      /\ new.kind = filled.kind
  <2>1. OneSeatEach(players)
    BY <1>3 DEF SeatsTaken
  <2> QED
    BY <1>4, <1>5, <2>1, TryStartSeats
<1> QED
  BY <1>3, <1>4, <1>6 DEF new, ids

\* READY takes no seat.
LEMMA ReadySeats ==
  ASSUME NEW game, WellSeated(game), NEW c, NEW id, NEW ready \in BOOLEAN
  PROVE  LET new == Ready(game, c, id, ready)
         IN  /\ WellSeated(new)
             /\ new.kind = game.kind
             /\ new.sockets = game.sockets
             /\ \A d : HeldBy(new.players, d) = HeldBy(game.players, d)
<1> DEFINE players == SetPlayerReady(game.players, id, ready, c)
           set == [game EXCEPT !.players = players]
           new == Ready(game, c, id, ready)
<1>1. /\ game \in Game /\ game.kind \in Kind /\ game.players \in Seating
      /\ SeatedByTeam(game.kind, game.players)
      /\ OneSeatEach(game.players)
  BY KindType DEF WellSeated, SoundGame, Game
<1>2. /\ players \in Seating /\ SeatedByTeam(game.kind, players)
      /\ OneSeatEach(players)
      /\ \A d : HeldBy(players, d) = HeldBy(game.players, d)
      /\ \A t : IdsIn(players, OfTeam(players, t))
                  = IdsIn(game.players, OfTeam(game.players, t))
  BY <1>1, SetPlayerReadyKeepsSeats, SetPlayerReadySeats
<1>3. new = TryStart(set)
  BY DEF Ready
<1> HIDE DEF players, new
<1>4. /\ SoundGame(set)
      /\ set.kind = game.kind
      /\ set.players = players
      /\ set.sockets = game.sockets
      /\ set.is_running = game.is_running
      /\ set.sim = game.sim
  BY <1>1, <1>2 DEF WellSeated, SoundGame, Game
<1> HIDE DEF set
<1>5. set.is_running => SimMatches(set)
  BY <1>2, <1>4 DEF WellSeated, SimMatches
<1>6. /\ WellSeated(new)
      /\ new.players = players
      /\ new.sockets = set.sockets
      /\ new.kind = set.kind
  BY <1>2, <1>3, <1>4, <1>5, TryStartSeats
<1> QED
  BY <1>2, <1>4, <1>6 DEF new

\* Nor does SWITCH_TEAM.
LEMMA SwitchTeamSeats ==
  ASSUME NEW game, WellSeated(game), NEW c, NEW id, NEW target
  PROVE  LET new == SwitchTeam(game, c, id, target)
         IN  /\ WellSeated(new)
             /\ new.kind = game.kind
             /\ new.sockets = game.sockets
             /\ \A d \in Sockets :
                  HeldBy(new.players, d) = HeldBy(game.players, d)
<1> DEFINE seats == {s \in SeatsOf(game.players, c) : game.players[s].id = id}
           players == MoveToTeam(game.players, Min(seats), target)
           new == SwitchTeam(game, c, id, target)
<1>1. /\ game \in Game /\ game.kind \in Kind /\ game.players \in Seating
      /\ OneSeatEach(game.players)
  BY KindType DEF WellSeated, SoundGame, Game
<1>2. SoundGame(new) /\ new.kind = game.kind
  BY SwitchTeamIsSound DEF WellSeated
<1>3. CASE new = game
  BY <1>3
<1>4. CASE new # game
  <2>1. /\ ~ game.is_running
        /\ seats # {}
        /\ target \in TeamsOf(game.kind)
        /\ new = [game EXCEPT !.players = players]
    BY <1>4 DEF SwitchTeam
  <2>2. Min(seats) \in Seated(game.players)
    <3>1. seats \in SUBSET Nat /\ seats \subseteq Seated(game.players)
      BY SlotsAreFinite DEF SeatsOf, Seated
    <3> QED
      BY <2>1, <3>1, MinOfNaturals
  <2>3. target \in TeamIds
    BY <1>1, <2>1, LimitsAssumption DEF TeamsOf, TeamIds, Kind
  <2> DEFINE s == Min(seats)
  <2> HIDE DEF s
  <2>4. /\ OneSeatEach(MoveToTeam(game.players, s, target))
        /\ \A d \in Sockets :
             HeldBy(MoveToTeam(game.players, s, target), d)
               = HeldBy(game.players, d)
    BY <1>1, <2>2, <2>3, MoveToTeamSeats DEF s
  <2>5. /\ OneSeatEach(players)
        /\ \A d \in Sockets : HeldBy(players, d) = HeldBy(game.players, d)
    BY <2>4 DEF s
  <2> HIDE DEF players, new
  <2>6. /\ new.players = players
        /\ new.sockets = game.sockets
        /\ new.is_running = game.is_running
    BY <1>1, <2>1 DEF Game
  <2> QED
    BY <1>2, <2>1, <2>5, <2>6 DEF WellSeated, new
<1> QED
  BY <1>3, <1>4

\* removePlayers empties the simulation only when no seat is left.
LEMMA RemoveConnectionSeats ==
  ASSUME NEW game, WellSeated(game), NEW c,
         game.is_running => \E d \in Sockets : d # c /\ HeldBy(game.players, d) # {}
  PROVE  LET new == RemoveConnection(game, c)
         IN  /\ WellSeated(new)
             /\ new.kind = game.kind
             /\ new.sockets = game.sockets \ {c}
             /\ \A d : HeldBy(new.players, d) =
                         IF d = c THEN {} ELSE HeldBy(game.players, d)
<1> DEFINE players == RemovePlayers(game.players, c)
           ids == HeldBy(game.players, c)
           sim == SimWithout(game.sim, ids, HoldsCoopSim(game))
           new == RemoveConnection(game, c)
<1>1. /\ game \in Game /\ game.players \in Seating
      /\ OneSeatEach(game.players)
      /\ game.sim \in Sim
  BY DEF WellSeated, SoundGame, Game
<1>2. SoundGame(new) /\ new.kind = game.kind
  BY RemoveConnectionIsSound DEF WellSeated
<1>3. /\ OneSeatEach(players)
      /\ \A d : HeldBy(players, d) = IF d = c THEN {} ELSE HeldBy(game.players, d)
      /\ \A t : IdsIn(players, OfTeam(players, t))
                  = IdsIn(game.players, OfTeam(game.players, t)) \ ids
  BY <1>1, RemovePlayersSeats
<1>4. new = [game EXCEPT !.players = players, !.sockets = @ \ {c}, !.sim = sim]
  BY DEF RemoveConnection, RemoveFromSim, HeldBy
<1> HIDE DEF players, sim, new
<1>5. /\ new.players = players
      /\ new.sockets = game.sockets \ {c}
      /\ new.is_running = game.is_running
      /\ new.sim = sim
  BY <1>1, <1>4 DEF Game
<1>6. ASSUME game.is_running
      PROVE  SimMatches(new)
  <2> DEFINE roster == RosterWithout(game.sim.roster, ids)
  <2>1. SimMatches(game)
    BY <1>6 DEF WellSeated
  <2>2. \A t \in {NoTeam} \cup TeamIds :
          /\ roster[t] = game.sim.roster[t] \ ids
          /\ t \in DOMAIN roster
    BY <1>1 DEF RosterWithout, Sim
  <2>3. \A t \in {NoTeam} \cup TeamIds :
          roster[t] = IdsIn(players, OfTeam(players, t))
    BY <1>3, <2>1, <2>2 DEF SimMatches
  <2> HIDE DEF roster
  <2>4. ~ IsEmptyRoster(roster)
    <3>1. PICK d \in Sockets : d # c /\ HeldBy(game.players, d) # {}
      BY <1>6
    <3>2. HeldBy(players, d) # {}
      BY <1>3, <3>1
    <3>3. PICK s \in Seated(players) : players[s].ws = d
      BY <3>2 DEF HeldBy, IdsIn, SeatsOf
    <3>4. players[s].team_id \in {NoTeam} \cup TeamIds
      <4>1. players \in Seating
        BY <1>2, <1>5 DEF SoundGame, Game
      <4> QED
        BY <4>1 DEF Seated, Seating, PlayerConnection
    <3>5. players[s].id \in roster[players[s].team_id]
      BY <2>3, <3>4 DEF IdsIn, OfTeam
    <3> QED
      BY <2>2, <3>4, <3>5 DEF IsEmptyRoster
  <2>5. sim.roster = roster /\ sim.over = game.sim.over
    <3>1. sim.roster = roster
      BY DEF sim, SimWithout, roster
    <3>2. sim.over = (game.sim.over
            \/ (ids # {} /\ HoldsCoopSim(game) /\ IsEmptyRoster(roster)))
      BY DEF sim, SimWithout, roster
    <3>3. game.sim.over \in BOOLEAN
      BY <1>1 DEF Sim
    <3> QED
      BY <2>4, <3>1, <3>2, <3>3
  <2> QED
    BY <1>5, <2>1, <2>3, <2>5 DEF SimMatches
<1> QED
  BY <1>2, <1>3, <1>5, <1>6 DEF WellSeated, new

-----------------------------------------------------------------------------
(* The invariant. *)

\* A game holds the sockets that name it, and by socket the ids it was given.
SeatedGame(g) ==
  LET game == games_by_id[g]
  IN  /\ WellSeated(game)
      /\ game.sockets = {c \in Sockets : InGame(c, g)}
      /\ game.sockets # {}
      /\ \A c \in Sockets :
           HeldBy(game.players, c) =
             IF c \in game.sockets THEN connections[c].players ELSE {}

\* A client has ids nobody will be given again, and a game that is there or
\* whose end it was told.
KnownClient(c) ==
  connections[c] # NotConnected =>
    /\ connections[c].players # {}
    /\ \A i \in connections[c].players : i < next_player_id
    /\ connections[c].game_id < next_game_id
    /\ Live(connections[c].game_id) \/ inbox[c].ended

Kept ==
  /\ Sound
  /\ \A c \in Sockets : KnownClient(c)
  /\ \A g \in GameIds : Live(g) => SeatedGame(g)

\* The ids of a game are below the next one to be given.
LEMMA IdsAreFresh ==
  ASSUME Kept, NEW g \in GameIds, Live(g)
  PROVE  IdsBelow(games_by_id[g].players, next_player_id)
<1> DEFINE game == games_by_id[g]
<1>1. SeatedGame(g) /\ game.players \in Seating
  BY DEF Kept, SeatedGame, WellSeated, SoundGame, Game
<1>2. SUFFICES ASSUME NEW s \in Seated(game.players)
               PROVE  game.players[s].id < next_player_id
  BY DEF IdsBelow
<1> DEFINE c == game.players[s].ws
<1>3. c \in Sockets
  BY <1>1 DEF Seated, Seating, PlayerConnection
<1>4. game.players[s].id \in HeldBy(game.players, c)
  BY DEF HeldBy, IdsIn, SeatsOf
<1> HIDE DEF c, game
<1>5. c \in game.sockets /\ game.players[s].id \in connections[c].players
  BY <1>1, <1>3, <1>4 DEF SeatedGame, game
<1>6. connections[c] # NotConnected
  BY <1>1, <1>5 DEF SeatedGame, InGame, game
<1> QED
  BY <1>3, <1>5, <1>6 DEF Kept, KnownClient

\* A callback about one game leaves the seats of the others alone.
LEMMA OtherGamesKeepSeats ==
  ASSUME Kept, NEW h \in GameIds, Live(h),
         UNCHANGED games_by_id[h],
         \A c \in Sockets : \/ UNCHANGED connections[c]
                            \/ ~ InGame(c, h) /\ ~ InGame(c, h)'
  PROVE  SeatedGame(h)'
<1>1. SeatedGame(h)
  BY DEF Kept
<1>2. \A c \in Sockets : InGame(c, h)' <=> InGame(c, h)
  BY DEF InGame, Live
<1>3. \A c \in Sockets : InGame(c, h) => UNCHANGED connections[c]
  OBVIOUS
<1>4. WellSeated(games_by_id'[h])
  BY <1>1 DEF SeatedGame
<1> DEFINE sockets == games_by_id[h].sockets
           held(c) == HeldBy(games_by_id[h].players, c)
<1>5. /\ sockets = {c \in Sockets : InGame(c, h)}
      /\ sockets # {}
      /\ \A c \in Sockets :
           held(c) = IF c \in sockets THEN connections[c].players ELSE {}
  BY <1>1 DEF SeatedGame
<1>6. \A c \in sockets : UNCHANGED connections[c]
  BY <1>3, <1>5
<1> HIDE DEF held, sockets
<1>7. /\ sockets = {c \in Sockets : InGame(c, h)'}
      /\ \A c \in Sockets :
           held(c) = IF c \in sockets THEN connections'[c].players ELSE {}
  BY <1>2, <1>5, <1>6
<1> QED
  BY <1>4, <1>5, <1>7 DEF SeatedGame, sockets, held

\* Frames tell nobody that a game is not over.
LEMMA BroadcastKeepsEnded ==
  ASSUME NEW box \in [Sockets -> Inbox], NEW game, NEW c \in Sockets
  PROVE  BroadcastLobby(box, game)[c].ended = box[c].ended
BY DEF BroadcastLobby, Inbox

-----------------------------------------------------------------------------
(* The callbacks. *)

\* .open, into a game that holds what its sockets hold.
LEMMA EnterSeats ==
  ASSUME Kept, Sound',
         NEW c \in Sockets, connections[c] = NotConnected,
         NEW slots \in 1 .. 2, NEW g \in GameIds, g < next_game_id',
         next_game_id <= next_game_id',
         NEW old, NEW new, new # NoGame,
         old.sockets = {d \in Sockets : /\ connections[d] # NotConnected
                                        /\ connections[d].game_id = g},
         \A d \in Sockets :
           HeldBy(old.players, d) =
             IF d \in old.sockets THEN connections[d].players ELSE {},
         WellSeated(new),
         new.sockets = old.sockets \cup {c},
         SeatsTaken(new.players, old.players, c, NewIds(slots)),
         Enter(c, slots, g, new)
  PROVE  Kept'
<1>1. /\ connections \in [Sockets -> {NotConnected} \cup PerSocketData]
      /\ inbox \in [Sockets -> Inbox]
      /\ games_by_id \in [GameIds -> {NoGame} \cup Game]
      /\ next_player_id \in Nat /\ next_game_id \in Nat
      /\ next_game_id' \in Nat
  BY BoundsAssumption
     DEF Kept, Sound, SoundClients, SoundGames, PlayerIds
<1> DEFINE data == [players |-> NewIds(slots), game_id |-> g]
<1>2. data \in PerSocketData /\ data # NotConnected
  <2>1. NewIds(slots) \in SUBSET PlayerIds
    BY DEF NewIds, PlayerIds, Kept, Sound, SoundClients
  <2> QED
    BY <2>1, NotConnectedAssumption DEF PerSocketData
<1>3. /\ connections'[c] = data
      /\ \A d \in Sockets \ {c} : connections'[d] = connections[d]
      /\ games_by_id'[g] = new
      /\ \A h \in GameIds \ {g} : games_by_id'[h] = games_by_id[h]
      /\ next_player_id' = next_player_id + slots
  BY <1>1 DEF Enter
<1>4. Live(g)' /\ \A h \in GameIds : Live(h) => Live(h)'
  BY <1>3 DEF Live
<1>5. data.players = NewIds(slots) /\ data.game_id = g
  OBVIOUS
<1> HIDE DEF data
<1>6. ASSUME NEW d \in Sockets
      PROVE  KnownClient(d)'
  <2>1. CASE d = c
    <3>1. /\ NewIds(slots) # {}
          /\ \A i \in NewIds(slots) : i < next_player_id'
      BY <1>1, <1>3 DEF NewIds
    <3> QED
      BY <1>3, <1>4, <1>5, <2>1, <3>1 DEF KnownClient
  <2>2. CASE d # c
    <3> SUFFICES ASSUME connections[d] # NotConnected
                 PROVE  KnownClient(d)'
      BY <1>3, <2>2 DEF KnownClient
    <3>1. connections'[d] = connections[d] /\ connections[d] \in PerSocketData
      BY <1>1, <1>3, <2>2
    <3>2. KnownClient(d)
      BY DEF Kept
    <3>3. inbox'[d].ended = inbox[d].ended
      <4> DEFINE box == [inbox EXCEPT ![c] = Welcome(NewIds(slots))]
      <4>1. box \in [Sockets -> Inbox] /\ box[d] = inbox[d]
        <5>1. NewIds(slots) \in SUBSET PlayerIds
          BY DEF NewIds, PlayerIds, Kept, Sound, SoundClients
        <5> QED
          BY <1>1, <2>2, <5>1, WelcomeType
      <4>2. inbox' = BroadcastLobby(box, new)
        BY DEF Enter
      <4> HIDE DEF box
      <4> QED
        BY <4>1, <4>2, BroadcastKeepsEnded
    <3>4. Live(connections[d].game_id) => Live(connections[d].game_id)'
      BY <1>4, <3>1 DEF PerSocketData
    <3>5. \A i \in connections[d].players : i < next_player_id'
      BY <1>1, <1>3, <3>1, <3>2 DEF KnownClient, PerSocketData, PlayerIds
    <3>6. connections[d].game_id < next_game_id'
      BY <1>1, <3>1, <3>2 DEF KnownClient, PerSocketData, GameIds
    <3> QED
      BY <3>1, <3>2, <3>3, <3>4, <3>5, <3>6 DEF KnownClient, Live
  <2> QED
    BY <2>1, <2>2
<1>7. SeatedGame(g)'
  <2>1. \A d \in Sockets : InGame(d, g)' <=> d \in new.sockets
    BY <1>2, <1>3, <1>4, <1>5 DEF InGame
  <2>2. new.sockets = {d \in Sockets : InGame(d, g)'}
    BY <2>1
  <2>3. new.sockets # {}
    OBVIOUS
  <2>4. ASSUME NEW d \in Sockets
        PROVE  HeldBy(new.players, d) =
                 IF d \in new.sockets THEN connections'[d].players ELSE {}
    <3>1. CASE d = c
      <4>1. d \notin old.sockets
        BY <3>1
      <4>2. HeldBy(new.players, d) = NewIds(slots)
        BY <3>1, <4>1 DEF SeatsTaken
      <4> QED
        BY <1>3, <1>5, <3>1, <4>2
    <3>2. CASE d # c
      BY <1>3, <3>2 DEF SeatsTaken
    <3> QED
      BY <3>1, <3>2
  <2> QED
    BY <1>3, <2>2, <2>3, <2>4 DEF SeatedGame
<1>8. ASSUME NEW h \in GameIds, Live(h)'
      PROVE  SeatedGame(h)'
  <2>1. CASE h = g
    BY <1>7, <2>1
  <2>2. CASE h # g
    <3>1. games_by_id'[h] = games_by_id[h] /\ Live(h)
      BY <1>3, <1>8, <2>2 DEF Live
    <3>2. ~ InGame(c, h) /\ ~ InGame(c, h)'
      BY <1>3, <1>5, <2>2 DEF InGame
    <3>3. \A d \in Sockets : \/ UNCHANGED connections[d]
                             \/ ~ InGame(d, h) /\ ~ InGame(d, h)'
      BY <1>3, <3>2
    <3> QED
      BY <3>1, <3>3, OtherGamesKeepSeats
  <2> QED
    BY <2>1, <2>2
<1> QED
  BY <1>6, <1>8 DEF Kept

\* .open gives the next ids to the connection.
LEMMA NewConnectionSeats ==
  ASSUME Kept, NEW game, WellSeated(game), ~ game.is_running,
         NEW c \in Sockets, NEW slots \in 1 .. 2,
         HasRoomFor(game.kind, game.players, slots),
         IdsBelow(game.players, next_player_id)
  PROVE  LET new == AddConnection(game, c, NewIds(slots))
         IN  /\ WellSeated(new)
             /\ new.sockets = game.sockets \cup {c}
             /\ SeatsTaken(new.players, game.players, c, NewIds(slots))
<1> DEFINE n == next_player_id
           ids == n .. n + slots - 1
<1>1. n \in PlayerIds /\ IdsBelow(game.players, n)
  BY DEF Kept, Sound, SoundClients
<1> HIDE DEF n
<1>2. /\ WellSeated(AddConnection(game, c, ids))
      /\ AddConnection(game, c, ids).sockets = game.sockets \cup {c}
      /\ SeatsTaken(AddConnection(game, c, ids).players, game.players, c, ids)
  <2>1. /\ WellSeated(AddConnection(game, c, n .. n + slots - 1))
        /\ SeatsTaken(AddConnection(game, c, n .. n + slots - 1).players,
                      game.players, c, n .. n + slots - 1)
    BY <1>1, AddConnectionSeats
  <2>2. game \in Game
    BY DEF WellSeated, SoundGame
  <2> HIDE DEF ids
  <2>3. AddConnection(game, c, ids).sockets = game.sockets \cup {c}
    BY <2>2, AddConnectionSockets
  <2> QED
    BY <2>1, <2>3 DEF ids
<1> QED
  BY <1>2 DEF NewIds, n

\* .open finds an open game.
LEMMA OpenJoiningSeats ==
  ASSUME Kept, NEW c \in Sockets, NEW kind \in Kinds, NEW slots \in 1 .. 2,
         OpenJoining(c, kind, slots)
  PROVE  Kept'
<1> DEFINE g == Min(Joinable(kind, slots))
           old == games_by_id[g]
           new == AddConnection(old, c, NewIds(slots))
<1>1. g \in Joinable(kind, slots)
  <2>1. Joinable(kind, slots) \in SUBSET Nat
    BY DEF Joinable, Kept, Sound, SoundGames, GameIds
  <2> QED
    BY <2>1, MinOfNaturals DEF OpenJoining
<1>2. /\ g \in GameIds /\ Live(g) /\ SeatedGame(g)
      /\ g < next_game_id
      /\ HasRoomFor(old.kind, old.players, slots)
      /\ ~ old.is_running
  BY <1>1 DEF Joinable, Accepts, Kept, Sound, SoundGames
<1>3. IdsBelow(old.players, next_player_id)
  BY <1>2, IdsAreFresh
<1>4. connections[c] = NotConnected /\ Enter(c, slots, g, new)
      /\ UNCHANGED next_game_id
  BY DEF OpenJoining, OpenGuard
<1> HIDE DEF g
<1>5. /\ WellSeated(new)
      /\ new.sockets = old.sockets \cup {c}
      /\ SeatsTaken(new.players, old.players, c, NewIds(slots))
  <2>1. WellSeated(old) /\ next_player_id \in PlayerIds
    BY <1>2 DEF SeatedGame, Kept, Sound, SoundClients
  <2> HIDE DEF old
  <2> QED
    BY <1>2, <1>3, <2>1, NewConnectionSeats
<1>6. old.sockets = {d \in Sockets : /\ connections[d] # NotConnected
                                     /\ connections[d].game_id = g}
  BY <1>2 DEF SeatedGame, InGame
<1>7. \A d \in Sockets :
        HeldBy(old.players, d) =
          IF d \in old.sockets THEN connections[d].players ELSE {}
  BY <1>2 DEF SeatedGame
<1>8. Sound' /\ next_game_id \in Nat
  BY OpenJoiningIsSound, BoundsAssumption DEF Kept, Sound, SoundGames
<1>9. new # NoGame
  BY <1>5, NoGameAssumption DEF WellSeated, SoundGame
<1> HIDE DEF old, new
<1> QED
  BY <1>2, <1>4, <1>5, <1>6, <1>7, <1>8, <1>9, EnterSeats

\* .open creates one, which no client can name yet.
LEMMA OpenCreatingSeats ==
  ASSUME Kept, NEW c \in Sockets, NEW kind \in Kinds, NEW slots \in 1 .. 2,
         OpenCreating(c, kind, slots)
  PROVE  Kept'
<1> DEFINE g == next_game_id
           old == CreateGame(kind)
           new == AddConnection(old, c, NewIds(slots))
<1>1. g \in GameIds /\ g \in Nat
  BY BoundsAssumption DEF OpenCreating, Kept, Sound, SoundGames, GameIds
<1>2. /\ SoundGame(old)
      /\ old.kind = kind /\ ~ old.is_running
      /\ old.sockets = {}
      /\ Seated(old.players) = {}
  BY CreateGameIsSound DEF CreateGame
<1>3. /\ OneSeatEach(old.players)
      /\ IdsBelow(old.players, next_player_id)
      /\ \A d \in Sockets : HeldBy(old.players, d) = {}
  BY <1>2 DEF OneSeatEach, IdsBelow, HeldBy, IdsIn, SeatsOf
<1>4. HasRoomFor(old.kind, old.players, slots)
  BY <1>2, NewGameHasRoom DEF OpenCreating, OpenGuard
<1>5. /\ connections[c] = NotConnected /\ Enter(c, slots, g, new)
      /\ next_game_id' = g + 1
  BY DEF OpenCreating, OpenGuard
<1> HIDE DEF old
<1>6. /\ WellSeated(new)
      /\ new.sockets = old.sockets \cup {c}
      /\ SeatsTaken(new.players, old.players, c, NewIds(slots))
  <2>1. WellSeated(old) /\ next_player_id \in PlayerIds
    BY <1>2, <1>3 DEF WellSeated, Kept, Sound, SoundClients
  <2> QED
    BY <1>2, <1>3, <1>4, <2>1, NewConnectionSeats
<1>7. \A d \in Sockets :
        connections[d] # NotConnected => connections[d].game_id # g
  BY <1>1 DEF Kept, KnownClient
<1>8. old.sockets = {d \in Sockets : /\ connections[d] # NotConnected
                                     /\ connections[d].game_id = g}
  BY <1>2, <1>7
<1>9. \A d \in Sockets :
        HeldBy(old.players, d) =
          IF d \in old.sockets THEN connections[d].players ELSE {}
  BY <1>2, <1>3
<1>10. Sound' /\ new # NoGame
  BY <1>6, OpenCreatingIsSound, NoGameAssumption DEF Kept, WellSeated, SoundGame
<1>11. g < next_game_id' /\ next_game_id <= next_game_id'
  BY <1>1, <1>5
<1> HIDE DEF g, new
<1> QED
  BY <1>1, <1>5, <1>6, <1>8, <1>9, <1>10, <1>11, EnterSeats

\* READY and SWITCH_TEAM.
LEMMA HandledSeats ==
  ASSUME Kept, NEW g \in GameIds, Live(g),
         NEW game, WellSeated(game),
         game.kind = games_by_id[g].kind,
         game.sockets = games_by_id[g].sockets,
         \A d \in Sockets :
           HeldBy(game.players, d) = HeldBy(games_by_id[g].players, d),
         Handled(g, game)
  PROVE  Kept'
<1>1. Sound'
  BY HandledIsSound DEF Kept, WellSeated
<1>2. /\ games_by_id'[g] = game /\ game # NoGame
      /\ \A h \in GameIds \ {g} : games_by_id'[h] = games_by_id[h]
      /\ UNCHANGED <<connections, next_player_id, next_game_id>>
  BY NoGameAssumption
     DEF Handled, Kept, Sound, SoundGames, WellSeated, SoundGame
<1>3. \A h \in GameIds : Live(h)' <=> Live(h)
  BY <1>2 DEF Live
<1>4. \A c \in Sockets : inbox'[c].ended = inbox[c].ended
  BY BroadcastKeepsEnded DEF Handled, Kept, Sound, SoundClients
<1>5. ASSUME NEW c \in Sockets
      PROVE  KnownClient(c)'
  <2>1. /\ KnownClient(c)
        /\ connections[c] # NotConnected => connections[c] \in PerSocketData
    BY DEF Kept, Sound, SoundClients
  <2> QED
    BY <1>2, <1>3, <1>4, <2>1 DEF KnownClient, PerSocketData
<1>6. SeatedGame(g)'
  <2>1. SeatedGame(g)
    BY DEF Kept
  <2>2. \A c \in Sockets : InGame(c, g)' <=> InGame(c, g)
    BY <1>2, <1>3 DEF InGame
  <2>3. game.sockets = {c \in Sockets : InGame(c, g)'}
    BY <2>1, <2>2 DEF SeatedGame
  <2>4. game.sockets # {}
    BY <2>1 DEF SeatedGame
  <2>5. \A c \in Sockets :
          HeldBy(game.players, c) =
            IF c \in game.sockets THEN connections'[c].players ELSE {}
    BY <1>2, <2>1 DEF SeatedGame
  <2> QED
    BY <1>2, <2>3, <2>4, <2>5 DEF SeatedGame
<1>7. ASSUME NEW h \in GameIds, Live(h)'
      PROVE  SeatedGame(h)'
  <2>1. CASE h = g
    BY <1>6, <2>1
  <2>2. CASE h # g
    BY <1>2, <1>3, <1>7, <2>2, OtherGamesKeepSeats
  <2> QED
    BY <2>1, <2>2
<1> QED
  BY <1>1, <1>5, <1>7 DEF Kept

\* A frame of the lobby, from a client of a game or not.
LEMMA MessageSeats ==
  ASSUME Kept, NEW c \in Sockets, Message(c)
  PROVE  Kept'
<1>1. ASSUME NEW id, NEW ready \in BOOLEAN, MessageReady(c, id, ready)
      PROVE  Kept'
  <2>1. PICK g \in GameIds :
          InGame(c, g) /\ Handled(g, Ready(games_by_id[g], c, id, ready))
    BY <1>1 DEF MessageReady
  <2>2. Live(g) /\ WellSeated(games_by_id[g])
    BY <2>1 DEF InGame, Kept, SeatedGame
  <2> DEFINE new == Ready(games_by_id[g], c, id, ready)
  <2>3. /\ WellSeated(new)
        /\ new.kind = games_by_id[g].kind
        /\ new.sockets = games_by_id[g].sockets
        /\ \A d : HeldBy(new.players, d) = HeldBy(games_by_id[g].players, d)
    BY <2>2, ReadySeats
  <2>4. Handled(g, new)
    BY <2>1
  <2> HIDE DEF new
  <2> QED
    BY <2>2, <2>3, <2>4, HandledSeats
<1>2. ASSUME NEW id, NEW target, MessageSwitchTeam(c, id, target)
      PROVE  Kept'
  <2>1. PICK g \in GameIds :
          InGame(c, g) /\ Handled(g, SwitchTeam(games_by_id[g], c, id, target))
    BY <1>2 DEF MessageSwitchTeam
  <2>2. Live(g) /\ WellSeated(games_by_id[g])
    BY <2>1 DEF InGame, Kept, SeatedGame
  <2> DEFINE new == SwitchTeam(games_by_id[g], c, id, target)
  <2>3. /\ WellSeated(new)
        /\ new.kind = games_by_id[g].kind
        /\ new.sockets = games_by_id[g].sockets
        /\ \A d \in Sockets :
             HeldBy(new.players, d) = HeldBy(games_by_id[g].players, d)
    BY <2>2, SwitchTeamSeats
  <2>4. Handled(g, new)
    BY <2>1
  <2> HIDE DEF new
  <2> QED
    BY <2>2, <2>3, <2>4, HandledSeats
<1> QED
  BY <1>1, <1>2 DEF Message

\* .close: a client that goes, with what is left of its game.
LEMMA DisconnectSeats ==
  ASSUME Kept, Sound', NEW c \in Sockets, connections[c] # NotConnected,
         NEW box \in [Sockets -> Inbox], Disconnect(c, box),
         \A d \in Sockets : box[d].ended = inbox[d].ended,
         UNCHANGED <<next_player_id, next_game_id>>,
         \A d \in Sockets \ {c}, g \in GameIds : InGame(d, g) => Live(g)',
         \A h \in GameIds :
           \/ ~ Live(h)'
           \/ Live(h) /\ UNCHANGED games_by_id[h] /\ ~ InGame(c, h)
           \/ SeatedGame(h)'
  PROVE  Kept'
<1>1. /\ connections \in [Sockets -> {NotConnected} \cup PerSocketData]
      /\ inbox \in [Sockets -> Inbox]
  BY DEF Kept, Sound, SoundClients
<1>2. /\ connections'[c] = NotConnected
      /\ \A d \in Sockets \ {c} : connections'[d] = connections[d]
      /\ \A d \in Sockets \ {c} : inbox'[d].ended = inbox[d].ended
  BY <1>1 DEF Disconnect
<1>3. ASSUME NEW d \in Sockets
      PROVE  KnownClient(d)'
  <2>1. CASE d = c
    BY <1>2, <2>1 DEF KnownClient
  <2>2. CASE d # c
    <3> SUFFICES ASSUME connections[d] # NotConnected
                 PROVE  KnownClient(d)'
      BY <1>2, <2>2 DEF KnownClient
    <3>1. KnownClient(d) /\ connections[d] \in PerSocketData
      BY <1>1 DEF Kept
    <3>2. connections'[d] = connections[d] /\ inbox'[d].ended = inbox[d].ended
      BY <1>2, <2>2
    <3>3. Live(connections[d].game_id) => Live(connections[d].game_id)'
      <4>1. connections[d].game_id \in GameIds
        BY <3>1 DEF PerSocketData
      <4> QED
        BY <2>2, <3>2, <4>1 DEF InGame
    <3> QED
      BY <3>1, <3>2, <3>3 DEF KnownClient, Live
  <2> QED
    BY <2>1, <2>2
<1>4. ASSUME NEW h \in GameIds, Live(h)'
      PROVE  SeatedGame(h)'
  <2> SUFFICES ASSUME Live(h), UNCHANGED games_by_id[h], ~ InGame(c, h)
               PROVE  SeatedGame(h)'
    BY <1>4
  <2>1. ~ InGame(c, h)'
    BY <1>2 DEF InGame
  <2> QED
    BY <1>2, <2>1, OtherGamesKeepSeats
<1> QED
  BY <1>3, <1>4 DEF Kept

\* .close frees the seats of the one that leaves, and its game with the last.
LEMMA CloseSeats ==
  ASSUME Kept, NEW c \in Sockets, Close(c)
  PROVE  Kept'
<1>1. /\ Sound' /\ inbox \in [Sockets -> Inbox]
      /\ games_by_id \in [GameIds -> {NoGame} \cup Game]
  BY CloseIsSound DEF Kept, Sound, SoundClients, SoundGames
<1>2. CASE CloseAfterGame(c)
  <2>1. /\ connections[c] # NotConnected
        /\ \A g \in GameIds : ~ InGame(c, g)
        /\ Disconnect(c, inbox)
        /\ UNCHANGED <<games_by_id, next_player_id, next_game_id>>
    BY <1>2 DEF CloseAfterGame
  <2>2. \A h \in GameIds : Live(h)' <=> Live(h)
    BY <2>1 DEF Live
  <2>3. \A d \in Sockets \ {c}, g \in GameIds : InGame(d, g) => Live(g)'
    BY <2>2 DEF InGame
  <2> QED
    BY <1>1, <2>1, <2>2, <2>3, DisconnectSeats
<1>3. ASSUME NEW g \in GameIds, InGame(c, g)
      PROVE  LET game == RemoveConnection(games_by_id[g], c)
             IN  /\ Live(g) /\ SeatedGame(g)
                 /\ connections[c] # NotConnected
                 /\ game.sockets = games_by_id[g].sockets \ {c}
                 /\ \A h \in GameIds \ {g} : ~ InGame(c, h)
  <2>1. Live(g) /\ SeatedGame(g) /\ games_by_id[g] \in Game
    BY <1>3 DEF InGame, Kept, SeatedGame, WellSeated, SoundGame
  <2> QED
    BY <1>3, <2>1 DEF InGame, RemoveConnection, Game
<1>4. CASE CloseLast(c)
  <2>1. PICK g \in GameIds :
          /\ InGame(c, g)
          /\ RemoveConnection(games_by_id[g], c).sockets = {}
          /\ Destroy({g}, games_by_id)
          /\ Disconnect(c, inbox)
          /\ UNCHANGED <<next_player_id, next_game_id>>
    BY <1>4 DEF CloseLast
  <2>2. \A h \in GameIds :
          games_by_id'[h] = IF h = g THEN NoGame ELSE games_by_id[h]
    BY <2>1 DEF Destroy
  <2>3. \A h \in GameIds : Live(h)' <=> Live(h) /\ h # g
    BY <2>2 DEF Live
  <2>4. \A d \in Sockets : InGame(d, g) => d = c
    BY <1>3, <2>1 DEF SeatedGame
  <2>5. \A d \in Sockets \ {c}, h \in GameIds : InGame(d, h) => Live(h)'
    BY <2>3, <2>4 DEF InGame
  <2>6. \A h \in GameIds :
          \/ ~ Live(h)'
          \/ Live(h) /\ UNCHANGED games_by_id[h] /\ ~ InGame(c, h)
    BY <1>3, <2>1, <2>2, <2>3
  <2>7. connections[c] # NotConnected
    BY <2>1 DEF InGame
  <2> QED
    BY <1>1, <2>1, <2>5, <2>6, <2>7, DisconnectSeats
<1>5. CASE CloseOne(c)
  <2>1. PICK g \in GameIds :
          LET game == RemoveConnection(games_by_id[g], c)
          IN  /\ InGame(c, g)
              /\ game.sockets # {}
              /\ games_by_id' = [games_by_id EXCEPT ![g] = game]
              /\ Disconnect(c, IF ~game.is_over /\ ~game.is_running
                               THEN BroadcastLobby(inbox, game) ELSE inbox)
              /\ UNCHANGED <<open_games, next_player_id, next_game_id>>
    BY <1>5 DEF CloseOne
  <2> DEFINE old == games_by_id[g]
             game == RemoveConnection(old, c)
             box == IF ~game.is_over /\ ~game.is_running
                    THEN BroadcastLobby(inbox, game) ELSE inbox
  <2>2. /\ Live(g) /\ SeatedGame(g) /\ WellSeated(old)
        /\ connections[c] # NotConnected
        /\ game.sockets = old.sockets \ {c}
        /\ \A h \in GameIds \ {g} : ~ InGame(c, h)
    BY <1>3, <2>1 DEF SeatedGame
  <2>3. /\ game.sockets # {}
        /\ games_by_id' = [games_by_id EXCEPT ![g] = game]
        /\ Disconnect(c, box)
        /\ UNCHANGED <<next_player_id, next_game_id>>
    BY <2>1
  <2>4. \E d \in Sockets : d # c /\ HeldBy(old.players, d) # {}
    <3>1. PICK d \in old.sockets : d # c
      BY <2>2, <2>3
    <3>2. d \in Sockets /\ connections[d] # NotConnected
      BY <2>2, <3>1 DEF SeatedGame, InGame
    <3>3. HeldBy(old.players, d) = connections[d].players
      BY <2>2, <3>1, <3>2 DEF SeatedGame
    <3>4. connections[d].players # {}
      BY <3>2 DEF Kept, KnownClient
    <3> QED
      BY <3>1, <3>2, <3>3, <3>4
  <2> HIDE DEF old
  <2>5. /\ WellSeated(game)
        /\ \A d : HeldBy(game.players, d) =
                    IF d = c THEN {} ELSE HeldBy(old.players, d)
    BY <2>2, <2>4, RemoveConnectionSeats
  <2> HIDE DEF game
  <2>6. /\ games_by_id'[g] = game /\ game # NoGame
        /\ \A h \in GameIds \ {g} : games_by_id'[h] = games_by_id[h]
    BY <1>1, <2>3, <2>5, NoGameAssumption DEF WellSeated, SoundGame
  <2>7. \A h \in GameIds : Live(h)' <=> Live(h)
    BY <2>2, <2>6 DEF Live
  <2>8. box \in [Sockets -> Inbox]
        /\ \A d \in Sockets : box[d].ended = inbox[d].ended
    <3>1. game \in Game
      BY <2>5 DEF WellSeated, SoundGame
    <3> QED
      BY <1>1, <3>1, BroadcastLobbyType, BroadcastKeepsEnded
  <2> HIDE DEF box
  <2>9. SeatedGame(g)'
    <3>1. /\ connections'[c] = NotConnected
          /\ \A d \in Sockets \ {c} : connections'[d] = connections[d]
      BY <2>3 DEF Disconnect, Kept, Sound, SoundClients
    <3>2. \A d \in Sockets : InGame(d, g)' <=> d # c /\ InGame(d, g)
      BY <2>7, <3>1 DEF InGame
    <3>3. game.sockets = {d \in Sockets : InGame(d, g)'}
      BY <2>2, <3>2 DEF SeatedGame, old
    <3>4. \A d \in Sockets :
            HeldBy(old.players, d) =
              IF d \in old.sockets THEN connections[d].players ELSE {}
      BY <2>2 DEF SeatedGame, old
    <3>5. \A d \in Sockets :
            HeldBy(game.players, d) =
              IF d \in game.sockets THEN connections'[d].players ELSE {}
      BY <2>2, <2>5, <3>1, <3>4
    <3> QED
      BY <2>3, <2>5, <2>6, <3>3, <3>5 DEF SeatedGame
  <2>10. \A d \in Sockets \ {c}, h \in GameIds : InGame(d, h) => Live(h)'
    BY <2>7 DEF InGame
  <2>11. \A h \in GameIds :
           \/ ~ Live(h)'
           \/ Live(h) /\ UNCHANGED games_by_id[h] /\ ~ InGame(c, h)
           \/ SeatedGame(h)'
    BY <2>2, <2>6, <2>7, <2>9
  <2> QED
    BY <1>1, <2>2, <2>3, <2>8, <2>10, <2>11, DisconnectSeats
<1> QED
  BY <1>2, <1>4, <1>5 DEF Close

\* A game that goes on keeps its seats.
LEMMA UpdateSeats ==
  ASSUME NEW game, WellSeated(game)
  PROVE  LET new == Update(game, FALSE)
         IN  /\ WellSeated(new)
             /\ new.players = game.players
             /\ new.sockets = game.sockets
<1> DEFINE new == Update(game, FALSE)
<1>1. game \in Game /\ game.sim \in Sim /\ SoundGame(game) /\ ~ game.is_over
  BY DEF WellSeated, SoundGame, Game
<1>2. CASE ~ game.is_running
  BY <1>2 DEF Update
<1>3. CASE game.is_running
  <2>1. new = [game EXCEPT !.sim = [@ EXCEPT !.over = FALSE],
                           !.is_running = ~ FALSE, !.is_over = FALSE]
    BY <1>3 DEF Update
  <2> HIDE DEF new
  <2>2. /\ new.players = game.players
        /\ new.sockets = game.sockets
        /\ ~ new.is_over
        /\ ~ new.sim.over
        /\ new.sim.roster = game.sim.roster
    BY <1>1, <2>1 DEF Game, Sim
  <2>3. SoundGame(new)
    BY <1>1, <2>2, UpdateIsSound DEF new
  <2>4. SimMatches(new)
    BY <1>3, <2>2 DEF SimMatches, WellSeated
  <2> QED
    BY <2>2, <2>3, <2>4 DEF WellSeated, new
<1> QED
  BY <1>2, <1>3

\* The timer destroys only games whose sockets it tells.
LEMMA TickSeats ==
  ASSUME Kept, Tick
  PROVE  Kept'
<1>1. PICK ending \in SUBSET {g \in LiveGames : games_by_id[g].is_running} :
        LET updated == [g \in GameIds |->
                          IF Live(g) THEN Update(games_by_id[g], g \in ending)
                                     ELSE NoGame]
            finished == {g \in LiveGames : updated[g].is_over}
        IN  /\ Destroy(finished, updated)
            /\ inbox' = [c \in Sockets |->
                           IF \E g \in ending : c \in games_by_id[g].sockets
                           THEN [inbox[c] EXCEPT !.ended = TRUE] ELSE inbox[c]]
            /\ UNCHANGED <<connections, next_player_id, next_game_id>>
  BY DEF Tick
<1> DEFINE updated == [g \in GameIds |->
                         IF Live(g) THEN Update(games_by_id[g], g \in ending)
                                    ELSE NoGame]
           finished == {g \in LiveGames : updated[g].is_over}
<1>2. /\ Sound' /\ UNCHANGED <<connections, next_player_id, next_game_id>>
      /\ \A c \in Sockets :
           inbox[c].ended \/ (\E g \in ending : c \in games_by_id[g].sockets)
             => inbox'[c].ended
  BY <1>1, TickIsSound DEF Kept, Sound, SoundClients, Inbox
<1>3. \A g \in GameIds : Live(g) => SeatedGame(g) /\ ~ games_by_id[g].is_over
  BY DEF Kept, SeatedGame, WellSeated, SoundGame
<1>4. ASSUME NEW g \in GameIds, Live(g)
      PROVE  /\ g \in finished => g \in ending
             /\ g \notin finished =>
                  /\ WellSeated(updated[g])
                  /\ updated[g].players = games_by_id[g].players
                  /\ updated[g].sockets = games_by_id[g].sockets
  <2> DEFINE game == games_by_id[g]
  <2>1. /\ updated[g] = Update(game, g \in ending)
        /\ g \in finished <=> updated[g].is_over
    BY <1>4 DEF LiveGames
  <2>2. WellSeated(game) /\ ~ game.is_over /\ game \in Game
    BY <1>3, <1>4 DEF SeatedGame, WellSeated, SoundGame
  <2>3. g \in ending => game.is_running
    OBVIOUS
  <2> HIDE DEF updated, finished, game
  <2>4. CASE g \in ending
    <3>1. updated[g] = [game EXCEPT !.sim = [@ EXCEPT !.over = TRUE],
                                    !.is_running = FALSE, !.is_over = TRUE]
      BY <2>1, <2>3, <2>4 DEF Update
    <3>2. updated[g].is_over
      BY <2>2, <3>1 DEF Game
    <3> QED
      BY <2>1, <2>4, <3>2
  <2>5. CASE g \notin ending
    <3>1. updated[g] = Update(game, FALSE)
      <4>1. (g \in ending) = FALSE
        BY <2>5
      <4> QED
        BY <2>1, <4>1
    <3>2. /\ WellSeated(updated[g])
          /\ updated[g].players = game.players
          /\ updated[g].sockets = game.sockets
      BY <2>2, <3>1, UpdateSeats
    <3>3. ~ updated[g].is_over
      BY <3>2 DEF WellSeated, SoundGame
    <3> QED
      BY <2>1, <3>2, <3>3 DEF game
  <2> QED
    BY <2>4, <2>5
<1>5. \A g \in GameIds :
        games_by_id'[g] = IF g \in finished THEN NoGame ELSE updated[g]
  BY <1>1 DEF Destroy
<1>6. \A g \in GameIds : ~ Live(g) => updated[g] = NoGame
  OBVIOUS
<1>7. \A g \in finished : g \in GameIds /\ Live(g)
  BY DEF LiveGames
<1> HIDE DEF updated, finished
<1>8. \A g \in GameIds : Live(g)' <=> Live(g) /\ g \notin finished
  BY <1>4, <1>5, <1>6, NoGameAssumption DEF Live, WellSeated, SoundGame
<1>9. ASSUME NEW c \in Sockets
      PROVE  KnownClient(c)'
  <2> SUFFICES ASSUME connections[c] # NotConnected
               PROVE  KnownClient(c)'
    BY <1>2 DEF KnownClient
  <2> DEFINE g == connections[c].game_id
  <2>1. KnownClient(c) /\ g \in GameIds
    BY DEF Kept, Sound, SoundClients, PerSocketData
  <2>2. g \in finished => inbox'[c].ended
    <3> SUFFICES ASSUME g \in finished
                 PROVE  inbox'[c].ended
      OBVIOUS
    <3>1. InGame(c, g) /\ Live(g)
      BY <1>7 DEF InGame
    <3>2. c \in games_by_id[g].sockets
      BY <1>3, <2>1, <3>1 DEF SeatedGame
    <3>3. g \in ending
      BY <1>4, <2>1, <3>1
    <3> QED
      BY <1>2, <3>2, <3>3
  <2>3. inbox[c].ended => inbox'[c].ended
    BY <1>2
  <2>4. connections'[c] = connections[c]
    BY <1>2
  <2>5. Live(g)' <=> Live(g) /\ g \notin finished
    BY <1>8, <2>1, <2>4
  <2> QED
    BY <1>2, <2>1, <2>2, <2>3, <2>4, <2>5 DEF KnownClient
<1>10. ASSUME NEW g \in GameIds, Live(g)'
       PROVE  SeatedGame(g)'
  <2>1. Live(g) /\ g \notin finished /\ games_by_id'[g] = updated[g]
    BY <1>5, <1>8, <1>10
  <2>2. SeatedGame(g)
    BY <1>3, <2>1
  <2>3. /\ WellSeated(games_by_id'[g])
        /\ games_by_id'[g].players = games_by_id[g].players
        /\ games_by_id'[g].sockets = games_by_id[g].sockets
    BY <1>4, <2>1
  <2>4. \A c \in Sockets : InGame(c, g)' <=> InGame(c, g)
    BY <1>2, <1>10, <2>1 DEF InGame
  <2>5. games_by_id[g].sockets = {c \in Sockets : InGame(c, g)'}
    BY <2>2, <2>4 DEF SeatedGame
  <2> QED
    BY <1>2, <2>2, <2>3, <2>5 DEF SeatedGame
<1> QED
  BY <1>2, <1>9, <1>10 DEF Kept

-----------------------------------------------------------------------------
(* Theorems. *)

\* Kept holds initially.
LEMMA KeptAtFirst == Init => Kept
<1> SUFFICES ASSUME Init PROVE Kept
  OBVIOUS
<1>1. SoundGames
  BY BoundsAssumption DEF Init, SoundGames, Live
<1>2. SoundClients
  BY WelcomeType DEF Init, SoundClients, PlayerIds
<1>3. Sound
  BY <1>1, <1>2 DEF Sound
<1> QED
  BY <1>3 DEF Init, Kept, KnownClient, Live

\* Who sits where is as it should be in every reachable state.
THEOREM KeptIsInvariant == Spec => []Kept
<1>1. Init => Kept
  BY KeptAtFirst
<1>2. Kept /\ [Next]_vars => Kept'
  <2> SUFFICES ASSUME Kept, [Next]_vars PROVE Kept'
    OBVIOUS
  <2>1. CASE Tick
    BY <2>1, TickSeats
  <2>2. ASSUME NEW c \in Sockets, Open(c) PROVE Kept'
    BY <2>2, OpenJoiningSeats, OpenCreatingSeats DEF Open, MaxPlayersPerClient
  <2>3. ASSUME NEW c \in Sockets, Message(c) PROVE Kept'
    BY <2>3, MessageSeats
  <2>4. ASSUME NEW c \in Sockets, Close(c) PROVE Kept'
    BY <2>4, CloseSeats
  <2>5. CASE UNCHANGED vars
    BY <2>5 DEF vars, Kept, Sound, SoundGames, SoundClients, KnownClient,
                SeatedGame, InGame, Live
  <2> QED
    BY <2>1, <2>2, <2>3, <2>4, <2>5 DEF Next
<1> QED
  BY <1>1, <1>2, PTL DEF Spec

\* Seats with different ids are as many as the ids.
LEMMA AsManySeatsAsIds ==
  ASSUME NEW players, OneSeatEach(players),
         NEW seats, seats \subseteq Seated(players)
  PROVE  /\ IsFiniteSet(seats)
         /\ Cardinality(IdsIn(players, seats)) = Cardinality(seats)
<1> DEFINE ids == IdsIn(players, seats)
           id == [s \in seats |-> players[s].id]
<1>1. IsFiniteSet(seats)
  BY SeatsAreFinite, FS_Subset
<1>2. id \in Bijection(seats, ids)
  <2>1. id \in [seats -> ids]
    BY DEF IdsIn
  <2>2. \A s, r \in seats : id[s] = id[r] => s = r
    BY DEF OneSeatEach
  <2>3. \A i \in ids : \E s \in seats : id[s] = i
    BY DEF IdsIn
  <2> QED
    BY <2>1, <2>2, <2>3 DEF Bijection, Injection, Surjection, IsInjective
<1> HIDE DEF id, ids
<1>3. ExistsBijection(seats, ids)
  BY <1>2 DEF ExistsBijection
<1> QED
  BY <1>1, <1>3, FS_Bijection DEF ids

\* Whatever clients do, every player of every connected client holds one
\* seat in the game its connection names, and nobody else holds one there.
THEOREM PlayersKeepTheirSeats == Spec => []PlayersHaveTheirSeats
<1>1. Kept => PlayersHaveTheirSeats
  <2> SUFFICES ASSUME Kept, NEW g \in LiveGames
               PROVE  LET game == games_by_id[g]
                      IN  /\ game.sockets = {c \in Sockets : InGame(c, g)}
                          /\ game.sockets # {}
                          /\ \A s \in Seated(game.players) :
                               game.players[s].ws \in game.sockets
                          /\ \A c \in game.sockets :
                               LET seats == SeatsOf(game.players, c)
                               IN  /\ IdsIn(game.players, seats)
                                        = connections[c].players
                                   /\ Cardinality(seats)
                                        = Cardinality(connections[c].players)
    BY DEF PlayersHaveTheirSeats
  <2> DEFINE game == games_by_id[g]
  <2>1. SeatedGame(g) /\ game.players \in Seating /\ OneSeatEach(game.players)
    BY DEF Kept, LiveGames, SeatedGame, WellSeated, SoundGame, Game
  <2>2. ASSUME NEW s \in Seated(game.players)
        PROVE  game.players[s].ws \in game.sockets
    <3> DEFINE c == game.players[s].ws
    <3>1. c \in Sockets
      BY <2>1 DEF Seated, Seating, PlayerConnection
    <3>2. game.players[s].id \in HeldBy(game.players, c)
      BY DEF HeldBy, IdsIn, SeatsOf
    <3> QED
      BY <2>1, <3>1, <3>2 DEF SeatedGame
  <2>3. ASSUME NEW c \in game.sockets
        PROVE  LET seats == SeatsOf(game.players, c)
               IN  /\ IdsIn(game.players, seats) = connections[c].players
                   /\ Cardinality(seats) = Cardinality(connections[c].players)
    <3> DEFINE seats == SeatsOf(game.players, c)
    <3>1. IdsIn(game.players, seats) = connections[c].players
      BY <2>1 DEF SeatedGame, HeldBy
    <3>2. seats \subseteq Seated(game.players)
      BY DEF SeatsOf
    <3> HIDE DEF game, seats
    <3>3. Cardinality(IdsIn(game.players, seats)) = Cardinality(seats)
      BY <2>1, <3>2, AsManySeatsAsIds
    <3> QED
      BY <3>1, <3>3 DEF seats
  <2> QED
    BY <2>1, <2>2, <2>3 DEF SeatedGame
<1> QED
  BY <1>1, KeptIsInvariant, PTL

\* While a match runs its simulation holds exactly the seated players, team
\* by team, whoever leaves it, and has not ended.
THEOREM SimsHoldTheSeats == Spec => []SimHoldsTheSeats
<1>1. Kept => SimHoldsTheSeats
  BY DEF Kept, SeatedGame, WellSeated, SimMatches, SimHoldsTheSeats, LiveGames
<1> QED
  BY <1>1, KeptIsInvariant, PTL

\* No game is destroyed under a connected client that was not told its end.
THEOREM NobodyIsStranded == Spec => []NoClientIsStranded
<1>1. Kept => NoClientIsStranded
  BY DEF Kept, KnownClient, NoClientIsStranded
<1> QED
  BY <1>1, KeptIsInvariant, PTL

-----------------------------------------------------------------------------
(***************************************************************************)
(* Part 4: when matches start: only complete and agreed, and then at       *)
(* once, but for lobbies that became complete by a departure.              *)
(*                                                                         *)
(* Both are action properties.  That a start is complete needs Kept of the *)
(* state it leads to: the code counts seats, the property counts the       *)
(* players of the simulation and the sockets of the seats.                 *)
(***************************************************************************)

\* tryStart starts what can start, and nothing else.
LEMMA TryStartStarts ==
  ASSUME NEW game \in Game, ~ game.is_over
  PROVE  LET new == TryStart(game)
         IN  /\ new.is_running /\ ~ game.is_running => CanStart(new)
             /\ ~ new.is_running => ~ CanStart(new)
<1> DEFINE new == TryStart(game)
<1>1. CASE ~ game.is_running /\ CanStart(game)
  <2>1. new = [game EXCEPT !.sim = StartSim(game), !.is_running = TRUE]
    BY <1>1 DEF TryStart
  <2> HIDE DEF new
  <2>2. /\ new.kind = game.kind /\ new.players = game.players
        /\ new.sockets = game.sockets /\ new.is_running
    BY <2>1 DEF Game
  <2>3. CanStart(new)
    BY <1>1, <2>2 DEF CanStart, ThereIsEnoughPlayers
  <2> QED
    BY <2>2, <2>3 DEF new
<1>2. CASE ~ (~ game.is_running /\ CanStart(game))
  <2>1. new = game
    BY <1>2 DEF TryStart
  <2> HIDE DEF new
  <2> QED
    BY <1>2, <2>1 DEF new
<1> QED
  BY <1>1, <1>2

\* addPlayers starts a match that it completes.
LEMMA AddConnectionStarts ==
  ASSUME NEW game, SoundGame(game), NEW c \in Sockets, ~ game.is_running,
         NEW ids,
         AddPlayers(game.kind, game.players, c, ids) \in Seating
  PROVE  LET new == AddConnection(game, c, ids)
         IN  /\ new.is_running => CanStart(new)
             /\ ~ new.is_running => ~ CanStart(new)
<1> DEFINE players == AddPlayers(game.kind, game.players, c, ids)
           filled == [game EXCEPT !.players = players, !.sockets = @ \cup {c}]
<1>1. game \in Game /\ ~ game.is_over
  BY DEF SoundGame
<1> HIDE DEF players
<1>2. filled \in Game /\ ~ filled.is_over /\ ~ filled.is_running
  BY <1>1 DEF Game, players
<1> HIDE DEF filled
<1>3. AddConnection(game, c, ids) = TryStart(filled)
  BY DEF AddConnection, filled, players
<1> QED
  BY <1>2, <1>3, TryStartStarts

\* So does setPlayerReady.
LEMMA ReadyStarts ==
  ASSUME NEW game, SoundGame(game), NEW c, NEW id, NEW ready \in BOOLEAN
  PROVE  LET new == Ready(game, c, id, ready)
         IN  /\ new.is_running /\ ~ game.is_running => CanStart(new)
             /\ ~ new.is_running => ~ CanStart(new)
<1> DEFINE players == SetPlayerReady(game.players, id, ready, c)
           set == [game EXCEPT !.players = players]
<1>1. /\ game \in Game /\ ~ game.is_over /\ game.players \in Seating
      /\ game.kind \in Kind /\ SeatedByTeam(game.kind, game.players)
  BY KindType DEF SoundGame, Game
<1>2. players \in Seating
  BY <1>1, SetPlayerReadyKeepsSeats
<1> HIDE DEF players
<1>3. set \in Game /\ ~ set.is_over /\ set.is_running = game.is_running
  BY <1>1, <1>2 DEF Game
<1> HIDE DEF set
<1>4. Ready(game, c, id, ready) = TryStart(set)
  BY DEF Ready, set, players
<1> QED
  BY <1>3, <1>4, TryStartStarts

\* Who switches teams is not ready any more, so a switch completes nothing.
LEMMA SwitchTeamStartsNothing ==
  ASSUME NEW game, WellSeated(game), NEW c, NEW id, NEW target
  PROVE  LET new == SwitchTeam(game, c, id, target)
         IN  \/ new = game
             \/ ~ new.is_running /\ ~ CanStart(new)
<1> DEFINE seats == {s \in SeatsOf(game.players, c) : game.players[s].id = id}
           players == MoveToTeam(game.players, Min(seats), target)
           new == SwitchTeam(game, c, id, target)
<1> SUFFICES ASSUME new # game
             PROVE  ~ new.is_running /\ ~ CanStart(new)
  OBVIOUS
<1>1. /\ game \in Game /\ game.kind \in Kind /\ game.players \in Seating
      /\ SeatedByTeam(game.kind, game.players)
  BY KindType DEF WellSeated, SoundGame, Game
<1>2. /\ ~ game.is_running
      /\ seats # {}
      /\ target \in TeamsOf(game.kind)
      /\ new = [game EXCEPT !.players = players]
  BY DEF SwitchTeam
<1>3. Min(seats) \in Seated(game.players)
  <2>1. seats \in SUBSET Nat /\ seats \subseteq Seated(game.players)
    BY SlotsAreFinite DEF SeatsOf, Seated
  <2> QED
    BY <1>2, <2>1, MinOfNaturals
<1>4. ~ AllPlayersReady(players)
  <2> DEFINE s == Min(seats)
             unready == UnreadyTeams(game.players,
                                     {game.players[s].team_id, target})
             free == TeamSlotRange(target) \ Seated(game.players)
             f == Min(free)
             moved == [unready[s] EXCEPT !.team_id = target]
  <2> HIDE DEF s
  <2>1. /\ unready \in Seating
        /\ Seated(unready) = Seated(game.players)
    BY <1>1, UnreadyTeamsKeepsSeats
  <2>2. /\ s \in Slots /\ s \in Seated(unready)
        /\ unready[s] \in PlayerConnection /\ ~ unready[s].is_ready
    <3>1. s \in Slots /\ game.players[s] # NoPlayer
          /\ game.players[s] \in PlayerConnection
      BY <1>1, <1>3 DEF s, Seated, Seating
    <3>2. unready[s] = [game.players[s] EXCEPT !.is_ready = FALSE]
      BY <3>1 DEF UnreadyTeams
    <3>3. unready[s] \in PlayerConnection /\ ~ unready[s].is_ready
      BY <3>1, <3>2 DEF PlayerConnection
    <3> QED
      BY <1>3, <2>1, <3>1, <3>3 DEF s
  <2>3. CASE free = {}
    <3>1. players = unready
      BY <2>3 DEF MoveToTeam, s
    <3> QED
      BY <2>2, <3>1 DEF AllPlayersReady
  <2>4. CASE free # {}
    <3>1. f \in Slots \ Seated(game.players)
      <4>1. target \in TeamIds
        BY <1>1, <1>2, LimitsAssumption DEF TeamsOf, TeamIds, Kind
      <4>2. free \subseteq Slots /\ free \subseteq Nat
        BY <4>1, TeamSlots, SlotsAreFinite
      <4> QED
        BY <2>4, <4>2, MinOfNaturals
    <3>2. players = [unready EXCEPT ![f] = moved, ![s] = NoPlayer]
      BY <2>4 DEF MoveToTeam, s
    <3>3. moved \in [id : PlayerIds, ws : Sockets, is_ready : BOOLEAN,
                     team_id : {NoTeam} \cup TeamIds]
          /\ ~ moved.is_ready
      <4>1. target \in TeamIds
        BY <1>1, <1>2, LimitsAssumption DEF TeamsOf, TeamIds, Kind
      <4> HIDE DEF unready
      <4> QED
        BY <2>2, <4>1 DEF PlayerConnection
    <3>4. moved # NoPlayer
      BY <3>3, NoPlayerAssumption DEF PlayerConnection
    <3>5. f # s
      BY <2>1, <2>2, <3>1
    <3> HIDE DEF moved, f, unready, players
    <3>6. players[f] = moved /\ f \in Seated(players)
      BY <2>1, <3>1, <3>2, <3>4, <3>5 DEF Seating, Seated
    <3> QED
      BY <3>3, <3>6 DEF AllPlayersReady
  <2> QED
    BY <2>3, <2>4
<1> HIDE DEF players, new
<1>5. new.players = players /\ new.is_running = game.is_running
  BY <1>1, <1>2 DEF Game
<1> QED
  BY <1>2, <1>4, <1>5 DEF CanStart

-----------------------------------------------------------------------------
(* What a callback may do to a game. *)

Departed(g) ==
  /\ games_by_id'[g].sockets # games_by_id[g].sockets
  /\ games_by_id'[g].sockets \subseteq games_by_id[g].sockets

\* A game that changes and is there afterwards runs if it can start, or ran
\* before; it does not run if it cannot start, or somebody left it.
Orderly(g) ==
  \/ UNCHANGED games_by_id[g]
  \/ ~ Live(g)'
  \/ /\ games_by_id'[g].is_running =>
          \/ CanStart(games_by_id'[g])
          \/ Live(g) /\ games_by_id[g].is_running
     /\ ~ games_by_id'[g].is_running =>
          \/ ~ CanStart(games_by_id'[g])
          \/ Live(g) /\ Departed(g)

\* .open starts a match it completes.
LEMMA OpenIsOrderly ==
  ASSUME Kept, NEW c \in Sockets, NEW kind \in Kinds, NEW slots \in 1 .. 2,
         OpenJoining(c, kind, slots) \/ OpenCreating(c, kind, slots),
         NEW h \in GameIds
  PROVE  Orderly(h)
<1>1. /\ games_by_id \in [GameIds -> {NoGame} \cup Game]
      /\ next_player_id \in PlayerIds
  BY DEF Kept, Sound, SoundGames, SoundClients
<1>2. ASSUME NEW game, SoundGame(game), ~ game.is_running,
             HasRoomFor(game.kind, game.players, slots)
      PROVE  LET new == AddConnection(game, c, NewIds(slots))
             IN  /\ new.is_running => CanStart(new)
                 /\ ~ new.is_running => ~ CanStart(new)
  <2> DEFINE n == next_player_id
             ids == n .. n + slots - 1
             old == game.players
             kd == game.kind
  <2>1. n \in PlayerIds /\ old \in Seating /\ kd \in Kind /\ SeatedByTeam(kd, old)
        /\ HasRoomFor(kd, old, slots)
    BY <1>1, <1>2, KindType DEF SoundGame, Game
  <2> HIDE DEF n, old, kd
  <2>2. AddPlayers(kd, old, c, ids) \in Seating
    BY <2>1, AddPlayersKeepsSeats
  <2>3. AddPlayers(game.kind, game.players, c, NewIds(slots)) \in Seating
    BY <2>2 DEF NewIds, n, old, kd
  <2> QED
    BY <1>2, <2>3, AddConnectionStarts
<1>3. CASE OpenJoining(c, kind, slots)
  <2> DEFINE g == Min(Joinable(kind, slots))
             old == games_by_id[g]
             new == AddConnection(old, c, NewIds(slots))
  <2>1. g \in Joinable(kind, slots)
    <3>1. Joinable(kind, slots) \in SUBSET Nat
      BY DEF Joinable, Kept, Sound, SoundGames, GameIds
    <3> QED
      BY <1>3, <3>1, MinOfNaturals DEF OpenJoining
  <2>2. /\ g \in GameIds /\ SoundGame(old)
        /\ HasRoomFor(old.kind, old.players, slots) /\ ~ old.is_running
    BY <2>1 DEF Joinable, Accepts, Kept, Sound, SoundGames
  <2>3. games_by_id' = [games_by_id EXCEPT ![g] = new]
    BY <1>3 DEF OpenJoining, Enter
  <2> HIDE DEF g, old
  <2>4. /\ new.is_running => CanStart(new)
        /\ ~ new.is_running => ~ CanStart(new)
    BY <1>2, <2>2
  <2> HIDE DEF new
  <2> QED
    BY <1>1, <2>2, <2>3, <2>4 DEF Orderly
<1>4. CASE OpenCreating(c, kind, slots)
  <2> DEFINE g == next_game_id
             old == CreateGame(kind)
             new == AddConnection(old, c, NewIds(slots))
  <2>1. /\ SoundGame(old) /\ old.kind = kind /\ ~ old.is_running
        /\ HasRoomFor(kind, old.players, slots)
    BY <1>4, CreateGameIsSound, NewGameHasRoom
       DEF CreateGame, OpenCreating, OpenGuard
  <2>2. games_by_id' = [games_by_id EXCEPT ![g] = new]
    BY <1>4 DEF OpenCreating, Enter
  <2> HIDE DEF g, old
  <2>3. /\ new.is_running => CanStart(new)
        /\ ~ new.is_running => ~ CanStart(new)
    BY <1>2, <2>1
  <2> HIDE DEF new
  <2> QED
    BY <1>1, <2>2, <2>3 DEF Orderly
<1> QED
  BY <1>3, <1>4

\* READY starts one too, SWITCH_TEAM none.
LEMMA MessageIsOrderly ==
  ASSUME Kept, NEW c \in Sockets, Message(c), NEW h \in GameIds
  PROVE  Orderly(h)
<1>1. games_by_id \in [GameIds -> {NoGame} \cup Game]
  BY DEF Kept, Sound, SoundGames
<1>2. ASSUME NEW id, NEW ready \in BOOLEAN, MessageReady(c, id, ready)
      PROVE  Orderly(h)
  <2>1. PICK g \in GameIds :
          InGame(c, g) /\ Handled(g, Ready(games_by_id[g], c, id, ready))
    BY <1>2 DEF MessageReady
  <2> DEFINE old == games_by_id[g]
             new == Ready(old, c, id, ready)
  <2>2. SoundGame(old) /\ Live(g)
    BY <2>1 DEF InGame, Kept, Sound, SoundGames
  <2>3. games_by_id' = [games_by_id EXCEPT ![g] = new]
    BY <2>1 DEF Handled
  <2> HIDE DEF old
  <2>4. /\ new.is_running /\ ~ old.is_running => CanStart(new)
        /\ ~ new.is_running => ~ CanStart(new)
    BY <2>2, ReadyStarts
  <2> HIDE DEF new
  <2> QED
    BY <1>1, <2>2, <2>3, <2>4 DEF Orderly, old
<1>3. ASSUME NEW id, NEW target, MessageSwitchTeam(c, id, target)
      PROVE  Orderly(h)
  <2>1. PICK g \in GameIds :
          InGame(c, g) /\ Handled(g, SwitchTeam(games_by_id[g], c, id, target))
    BY <1>3 DEF MessageSwitchTeam
  <2> DEFINE old == games_by_id[g]
             new == SwitchTeam(old, c, id, target)
  <2>2. WellSeated(old)
    BY <2>1 DEF InGame, Kept, SeatedGame
  <2>3. games_by_id' = [games_by_id EXCEPT ![g] = new]
    BY <2>1 DEF Handled
  <2> HIDE DEF old
  <2>4. new = old \/ (~ new.is_running /\ ~ CanStart(new))
    BY <2>2, SwitchTeamStartsNothing
  <2> HIDE DEF new
  <2> QED
    BY <1>1, <2>3, <2>4 DEF Orderly, old
<1> QED
  BY <1>2, <1>3 DEF Message

\* .close starts none: that is the exception for departures.
LEMMA CloseIsOrderly ==
  ASSUME Kept, NEW c \in Sockets, Close(c), NEW h \in GameIds
  PROVE  Orderly(h)
<1>1. games_by_id \in [GameIds -> {NoGame} \cup Game]
  BY DEF Kept, Sound, SoundGames
<1>2. CASE CloseAfterGame(c)
  BY <1>2 DEF CloseAfterGame, Orderly
<1>3. CASE CloseLast(c)
  BY <1>3 DEF CloseLast, Destroy, Orderly, Live
<1>4. CASE CloseOne(c)
  <2>1. PICK g \in GameIds :
          /\ InGame(c, g)
          /\ games_by_id' = [games_by_id EXCEPT
                               ![g] = RemoveConnection(games_by_id[g], c)]
    BY <1>4 DEF CloseOne
  <2> DEFINE old == games_by_id[g]
             new == RemoveConnection(old, c)
  <2>2. Live(g) /\ old \in Game /\ c \in old.sockets
    BY <2>1 DEF InGame, Kept, SeatedGame, WellSeated, SoundGame
  <2>3. new.sockets = old.sockets \ {c} /\ new.is_running = old.is_running
    BY <2>2 DEF RemoveConnection, Game
  <2>4. games_by_id'[h] = IF h = g THEN new ELSE games_by_id[h]
    BY <1>1, <2>1
  <2> HIDE DEF new
  <2> QED
    BY <2>2, <2>3, <2>4 DEF Orderly, Departed
<1> QED
  BY <1>2, <1>3, <1>4 DEF Close

\* The timer only goes on with what runs.
LEMMA TickIsOrderly ==
  ASSUME Kept, Tick, NEW h \in GameIds
  PROVE  Orderly(h)
<1>1. PICK ending \in SUBSET {g \in LiveGames : games_by_id[g].is_running} :
        LET updated == [g \in GameIds |->
                          IF Live(g) THEN Update(games_by_id[g], g \in ending)
                                     ELSE NoGame]
            finished == {g \in LiveGames : updated[g].is_over}
        IN  Destroy(finished, updated)
  BY DEF Tick
<1> DEFINE new == Update(games_by_id[h], h \in ending)
<1> SUFFICES ASSUME Live(h)'
             PROVE  Orderly(h)
  BY DEF Orderly
<1>2. Live(h) /\ games_by_id'[h] = new /\ ~ new.is_over
  BY <1>1 DEF Destroy, Live, LiveGames
<1>3. games_by_id[h] \in Game
  BY <1>2 DEF Kept, SeatedGame, WellSeated, SoundGame
<1>4. CASE ~ games_by_id[h].is_running
  <2>1. new = games_by_id[h]
    BY <1>4 DEF Update
  <2> QED
    BY <1>2, <2>1 DEF Orderly
<1>5. CASE games_by_id[h].is_running
  <2>1. new = [games_by_id[h] EXCEPT
                 !.sim = [@ EXCEPT !.over = (h \in ending)],
                 !.is_running = ~ (h \in ending), !.is_over = (h \in ending)]
    BY <1>5 DEF Update
  <2> HIDE DEF new
  <2>2. new.is_running = ~ (h \in ending) /\ new.is_over = (h \in ending)
    BY <1>3, <2>1 DEF Game
  <2> QED
    BY <1>2, <1>5, <2>2 DEF Orderly
<1> QED
  BY <1>4, <1>5

\* All of them.
LEMMA EveryStepIsOrderly ==
  ASSUME Kept, Next, NEW h \in GameIds
  PROVE  Orderly(h)
<1>1. CASE Tick
  BY <1>1, TickIsOrderly
<1>2. ASSUME NEW c \in Sockets, Open(c) PROVE Orderly(h)
  BY <1>2, OpenIsOrderly DEF Open, MaxPlayersPerClient
<1>3. ASSUME NEW c \in Sockets, Message(c) PROVE Orderly(h)
  BY <1>3, MessageIsOrderly
<1>4. ASSUME NEW c \in Sockets, Close(c) PROVE Orderly(h)
  BY <1>4, CloseIsOrderly
<1> QED
  BY <1>1, <1>2, <1>3, <1>4 DEF Next

-----------------------------------------------------------------------------
(* What a start means. *)

\* A team has no more players than places.
LEMMA TeamIsNotOverfull ==
  ASSUME NEW kind \in Kind, IsPvP(kind),
         NEW players, SeatedByTeam(kind, players), NEW t \in TeamsOf(kind)
  PROVE  CountPlayersOfTeam(players, t) <= kind.team_size
<1> DEFINE begin == (t - 1) * MaxPlayersPerTeam
           own == begin .. begin + kind.team_size - 1
<1>1. /\ t \in TeamIds
      /\ begin \in Nat
      /\ TeamSlotRange(t) = begin .. begin + MaxPlayersPerTeam - 1
      /\ kind.team_size \in Nat
  <2>1. t \in TeamIds
    BY LimitsAssumption DEF TeamsOf, TeamIds, Kind
  <2> QED
    BY <2>1, TeamSlots, LimitsAssumption DEF Kind
<1>2. \A s \in TeamSlotRange(t) : RankInTeam(s) = s - begin
  BY <1>1, RankOfSlot
<1> HIDE DEF begin
<1>3. OfTeam(players, t) \subseteq own
  BY <1>1, <1>2, LimitsAssumption DEF OfTeam, SeatedByTeam
<1>4. IsFiniteSet(own) /\ Cardinality(own) = kind.team_size
  BY <1>1, CountInterval
<1> QED
  BY <1>3, <1>4, FS_Subset DEF CountPlayersOfTeam

\* A game that runs and can start holds complete teams, or two clients.
LEMMA WhatStartsIsComplete ==
  ASSUME Kept, NEW g \in GameIds, Live(g),
         games_by_id[g].is_running, CanStart(games_by_id[g])
  PROVE  LET game == games_by_id[g]
         IN  /\ AllPlayersReady(game.players)
             /\ \A t \in TeamsOf(game.kind) :
                  Cardinality(game.sim.roster[t]) = game.kind.team_size
             /\ game.kind = Coop =>
                  Cardinality({game.players[s].ws :
                                 s \in Seated(game.players)}) > 1
<1> DEFINE game == games_by_id[g]
<1>1. /\ SeatedGame(g) /\ OneSeatEach(game.players) /\ SimMatches(game)
      /\ game \in Game /\ game.kind \in Kinds /\ game.kind \in Kind
      /\ SeatedByTeam(game.kind, game.players)
      /\ ThereIsEnoughPlayers(game) /\ AllPlayersReady(game.players)
  BY KindType DEF Kept, SeatedGame, WellSeated, SoundGame, Game, CanStart
<1>2. \A c \in Sockets : KnownClient(c)
  BY DEF Kept
<1>3. ASSUME NEW t \in TeamsOf(game.kind)
      PROVE  Cardinality(game.sim.roster[t]) = game.kind.team_size
  <2> HIDE DEF game
  <2>1. IsPvP(game.kind) /\ t \in TeamIds /\ game.kind.team_size \in Nat
    BY <1>1, LimitsAssumption DEF TeamsOf, TeamIds, Kind, IsPvP
  <2>2. game.sim.roster[t] = IdsIn(game.players, OfTeam(game.players, t))
    BY <1>1, <2>1 DEF SimMatches
  <2>3. Cardinality(game.sim.roster[t]) = CountPlayersOfTeam(game.players, t)
    <3>1. OfTeam(game.players, t) \subseteq Seated(game.players)
      BY DEF OfTeam
    <3> QED
      BY <1>1, <2>2, <3>1, AsManySeatsAsIds DEF CountPlayersOfTeam
  <2>4. CountPlayersOfTeam(game.players, t) >= game.kind.team_size
    BY <1>1, <2>1 DEF ThereIsEnoughPlayers
  <2>5. CountPlayersOfTeam(game.players, t) <= game.kind.team_size
    BY <1>1, <2>1, TeamIsNotOverfull
  <2> QED
    BY <2>1, <2>3, <2>4, <2>5, SeatsAreFinite
<1>4. ASSUME game.kind = Coop
      PROVE  Cardinality({game.players[s].ws : s \in Seated(game.players)}) > 1
  <2> DEFINE owners == {game.players[s].ws : s \in Seated(game.players)}
  <2>1. ~ IsPvP(game.kind)
    BY <1>4 DEF IsPvP, Coop
  <2>2. PICK c \in game.sockets, d \in game.sockets : c # d
    BY <1>1, <2>1 DEF ThereIsEnoughPlayers
  <2>3. ASSUME NEW e \in game.sockets
        PROVE  e \in owners
    <3>1. e \in Sockets /\ connections[e] # NotConnected
      BY <1>1, <2>3 DEF SeatedGame, InGame
    <3>2. HeldBy(game.players, e) = connections[e].players
      BY <1>1, <3>1 DEF SeatedGame
    <3>3. connections[e].players # {}
      BY <1>2, <3>1 DEF KnownClient
    <3> QED
      BY <3>2, <3>3 DEF HeldBy, IdsIn, SeatsOf
  <2>4. IsFiniteSet(owners)
    <3> DEFINE seated == Seated(game.players)
               owner == [s \in seated |-> game.players[s].ws]
    <3>1. IsFiniteSet(seated)
      BY SeatsAreFinite
    <3>2. owner \in Surjection(seated, owners)
      BY DEF Surjection
    <3> HIDE DEF seated, owner, owners
    <3> QED
      BY <3>1, <3>2, FS_Surjection
  <2> HIDE DEF owners
  <2>5. {c, d} \subseteq owners
    BY <2>2, <2>3
  <2>6. Cardinality({c, d}) = 2
    <3>1. Cardinality({c}) = 1 /\ IsFiniteSet({c})
      BY FS_Singleton
    <3>2. Cardinality({c} \cup {d}) = 2
      BY <2>2, <3>1, FS_AddElement
    <3>3. {c, d} = {c} \cup {d}
      OBVIOUS
    <3> QED
      BY <3>2, <3>3
  <2>7. Cardinality({c, d}) <= Cardinality(owners) /\ Cardinality(owners) \in Nat
    BY <2>4, <2>5, FS_Subset, FS_CardinalityType
  <2>8. Cardinality(owners) > 1
    BY <2>6, <2>7
  <2> QED
    BY <2>8 DEF owners
<1> QED
  BY <1>1, <1>3, <1>4

-----------------------------------------------------------------------------
(* Theorems. *)

\* A match starts with everybody ready, complete teams in its simulation or,
\* in coop, players of two connections.
THEOREM StartsAreComplete == Spec => StartsComplete
<1> DEFINE Complete(g) ==
             LET game == games_by_id[g]
             IN  /\ AllPlayersReady(game.players)
                 /\ \A t \in TeamsOf(game.kind) :
                      Cardinality(game.sim.roster[t]) = game.kind.team_size
                 /\ game.kind = Coop =>
                      Cardinality({game.players[s].ws :
                                     s \in Seated(game.players)}) > 1
           Running == \A g \in GameIds :
                        /\ Live(g)
                        /\ games_by_id[g].is_running
                        /\ CanStart(games_by_id[g])
                        => Complete(g)
           AllComplete ==
             \A g \in GameIds :
               Live(g) /\ ~games_by_id[g].is_running
                 /\ Live(g)' /\ games_by_id'[g].is_running
               => LET game == games_by_id'[g]
                  IN  /\ AllPlayersReady(game.players)
                      /\ \A t \in TeamsOf(game.kind) :
                           Cardinality(game.sim.roster[t]) = game.kind.team_size
                      /\ game.kind = Coop =>
                           Cardinality({game.players[s].ws :
                                          s \in Seated(game.players)}) > 1
<1>1. Kept => Running
  BY WhatStartsIsComplete
<1>2. Running' => (Kept /\ [Next]_vars => [AllComplete]_vars)
  <2> SUFFICES ASSUME Running', Kept, Next,
                      NEW g \in GameIds, Live(g), ~games_by_id[g].is_running,
                      Live(g)', games_by_id'[g].is_running
               PROVE  Complete(g)'
    OBVIOUS
  <2>1. CanStart(games_by_id'[g])
    BY EveryStepIsOrderly DEF Orderly
  <2> QED
    BY <2>1
<1> QED
  BY <1>1, <1>2, KeptIsInvariant, PTL DEF Spec, StartsComplete

\* A lobby that could start and waits got there by a departure.
THEOREM LobbiesWaitOnlyAfterDepartures ==
  Spec => OnlyDeparturesLeaveAStartableLobby
<1> DEFINE AllExcused ==
             \A g \in GameIds :
               Live(g)' /\ ~games_by_id'[g].is_running /\ CanStart(games_by_id'[g])
               => /\ Live(g)
                  /\ \/ games_by_id[g] = games_by_id'[g]
                     \/ games_by_id'[g].sockets # games_by_id[g].sockets
                        /\ games_by_id'[g].sockets \subseteq games_by_id[g].sockets
<1>1. Kept /\ [Next]_vars => [AllExcused]_vars
  <2> SUFFICES ASSUME Kept, Next, NEW g \in GameIds,
                      Live(g)', ~games_by_id'[g].is_running,
                      CanStart(games_by_id'[g])
               PROVE  /\ Live(g)
                      /\ \/ UNCHANGED games_by_id[g]
                         \/ Departed(g)
    BY DEF Departed
  <2> QED
    BY EveryStepIsOrderly DEF Orderly, Live
<1> QED
  BY <1>1, KeptIsInvariant, PTL DEF Spec, OnlyDeparturesLeaveAStartableLobby
=============================================================================
