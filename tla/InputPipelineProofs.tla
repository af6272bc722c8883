------------------------- MODULE InputPipelineProofs -------------------------
(***************************************************************************)
(* Every press is counted, for any number of players, any connection delay *)
(* and any width of the counter.                                           *)
(*                                                                         *)
(* Which frames of up hold a press depends on the frame before each, and   *)
(* for the first on what the server remembers.  The invariant that carries *)
(* the count is that the client's and the server's idea of "before" agree  *)
(* at the end of the queue (SampledIsLast): then a frame appended is a     *)
(* press for the one exactly when it is for the other.                     *)
(***************************************************************************)
EXTENDS InputPipeline, FiniteSetTheorems, TLAPS

SampledIsLast ==
  \A p \in Players : SHOOT \in sampled[p] <=> HeldBefore(p, Len(up) + 1)

Counted == TypeOK /\ SampledIsLast /\ EveryPressIsCounted

-----------------------------------------------------------------------------
(* Counting frames. *)

\* Numbering the members of a set of positions from one less keeps their
\* number.
LEMMA ShiftKeepsCardinality ==
  ASSUME NEW S \in SUBSET (Nat \ {0}), IsFiniteSet(S)
  PROVE  LET T == {i \in Nat : i + 1 \in S}
         IN  IsFiniteSet(T) /\ Cardinality(T) = Cardinality(S)
<1> DEFINE T == {i \in Nat : i + 1 \in S}
           f == [s \in S |-> s - 1]
<1>1. f \in [S -> T]
  OBVIOUS
<1>2. \A a, b \in S : f[a] = f[b] => a = b
  OBVIOUS
<1>3. \A t \in T : \E s \in S : f[s] = t
  <2> TAKE t \in T
  <2>1. t + 1 \in S /\ f[t + 1] = t
    OBVIOUS
  <2> QED BY <2>1
<1>4. f \in Bijection(S, T)
  BY <1>1, <1>2, <1>3 DEF Bijection, Injection, Surjection, IsInjective
<1>5. ExistsBijection(S, T)
  BY <1>4 DEF ExistsBijection
<1> QED BY <1>5, FS_Bijection

\* The presses on their way are positions of a finite queue.
LEMMA PressesAreFinite ==
  ASSUME TypeOK, NEW p \in Players
  PROVE  /\ IsFiniteSet(PressesInFlight(p))
         /\ Cardinality(PressesInFlight(p)) \in Nat
<1>1. Len(up) \in Nat
  BY DEF TypeOK
<1>2. IsFiniteSet(1 .. Len(up))
  BY <1>1, FS_Interval
<1>3. PressesInFlight(p) \in SUBSET (1 .. Len(up))
  BY DEF PressesInFlight
<1> QED BY <1>2, <1>3, FS_Subset, FS_CardinalityType

\* A frame at the end of the queue adds a press when the one sampled before
\* it did not hold SHOOT.
LEMMA AppendCounts ==
  ASSUME Counted, NEW p \in Players, up' = Append(up, keys),
         seats' = seats
  PROVE  Cardinality(PressesInFlight(p)') =
           Cardinality(PressesInFlight(p)) + (IF IsPress(p) THEN 1 ELSE 0)
<1> DEFINE n == Len(up) + 1
           old == PressesInFlight(p)
<1>1. /\ Len(up) \in Nat
      /\ Len(up') = n
      /\ \A i \in 1 .. Len(up) : up'[i] = up[i]
      /\ up'[n] = keys
  BY DEF Counted, TypeOK, Frame
<1>2. \A i \in 1 .. n : HeldBefore(p, i)' <=> HeldBefore(p, i)
  BY <1>1 DEF HeldBefore
<1>3. IsPress(p) <=> SHOOT \in up'[n][p] /\ ~HeldBefore(p, n)
  BY <1>1 DEF IsPress, Counted, SampledIsLast
<1>4. PressesInFlight(p)' = IF IsPress(p) THEN old \cup {n} ELSE old
  <2>1. \A i \in 1 .. Len(up) : i \in PressesInFlight(p)' <=> i \in old
    BY <1>1, <1>2 DEF PressesInFlight
  <2>2. n \in PressesInFlight(p)' <=> IsPress(p)
    BY <1>1, <1>2, <1>3 DEF PressesInFlight
  <2>3. PressesInFlight(p)' \subseteq 1 .. n /\ old \subseteq 1 .. Len(up)
    BY <1>1 DEF PressesInFlight
  <2> QED BY <1>1, <2>1, <2>2, <2>3
<1>5. n \notin old
  BY <1>1 DEF PressesInFlight
<1>6. IsFiniteSet(old) /\ Cardinality(old) \in Nat
  BY PressesAreFinite DEF Counted
<1> HIDE DEF n, old
<1>7. CASE IsPress(p)
  BY <1>4, <1>5, <1>6, <1>7, FS_AddElement DEF old
<1>8. CASE ~IsPress(p)
  BY <1>4, <1>6, <1>8 DEF old
<1> QED BY <1>7, <1>8

\* The frame read at the head of the queue is one press less when it was one
\* to the seat that reads it; what the others are to it does not change.
LEMMA TailCounts ==
  ASSUME Counted, NEW p \in Players, up # <<>>, up' = Tail(up),
         seats'[p].prev_shoot_held <=> SHOOT \in up[1][p]
  PROVE  Cardinality(PressesInFlight(p)) =
           Cardinality(PressesInFlight(p)') +
             (IF IsNewShot(seats[p], up[1][p]) THEN 1 ELSE 0)
<1> DEFINE old == PressesInFlight(p)
           rest == old \ {1}
<1>1. /\ Len(up) \in Nat \ {0}
      /\ Len(up') = Len(up) - 1
      /\ \A i \in 1 .. Len(up) - 1 : up'[i] = up[i + 1]
  BY DEF Counted, TypeOK
<1>2. \A i \in 1 .. Len(up) - 1 : HeldBefore(p, i)' <=> HeldBefore(p, i + 1)
  <2> TAKE i \in 1 .. Len(up) - 1
  <2>1. CASE i = 1
    <3>1. HeldBefore(p, 1)' <=> SHOOT \in up[1][p]
      BY DEF HeldBefore
    <3>2. HeldBefore(p, 2) <=> SHOOT \in up[1][p]
      BY DEF HeldBefore
    <3> QED BY <2>1, <3>1, <3>2
  <2>2. CASE i # 1
    <3>1. i - 1 \in 1 .. Len(up) - 1 /\ i + 1 # 1
      BY <1>1, <2>2
    <3>2. up'[i - 1] = up[i]
      BY <1>1, <3>1
    <3> QED BY <2>2, <3>1, <3>2, <1>1 DEF HeldBefore
  <2> QED BY <2>1, <2>2
<1>3. PressesInFlight(p)' = {i \in Nat : i + 1 \in rest}
  <2>1. \A i \in 1 .. Len(up) - 1 :
          i \in PressesInFlight(p)' <=> i + 1 \in rest
    BY <1>1, <1>2 DEF PressesInFlight
  <2>2. PressesInFlight(p)' \subseteq 1 .. Len(up) - 1
    BY <1>1 DEF PressesInFlight
  <2>3. \A i \in Nat : i + 1 \in rest => i \in 1 .. Len(up) - 1
    BY <1>1 DEF PressesInFlight
  <2> QED BY <1>1, <2>1, <2>2, <2>3
<1>4. 1 \in old <=> IsNewShot(seats[p], up[1][p])
  BY <1>1 DEF PressesInFlight, HeldBefore, IsNewShot
<1>5. IsFiniteSet(old) /\ Cardinality(old) \in Nat
  BY PressesAreFinite DEF Counted
<1>6. rest \in SUBSET (Nat \ {0})
  BY <1>1 DEF PressesInFlight
<1> HIDE DEF old
<1>7. /\ IsFiniteSet(rest)
      /\ Cardinality(rest) =
           IF 1 \in old THEN Cardinality(old) - 1 ELSE Cardinality(old)
  BY <1>5, FS_RemoveElement
<1>8. Cardinality(PressesInFlight(p)') = Cardinality(rest)
  BY <1>3, <1>6, <1>7, ShiftKeepsCardinality
<1> QED BY <1>4, <1>5, <1>7, <1>8 DEF old
-----------------------------------------------------------------------------
(* Steps. *)

\* Nothing is pressed at first.
LEMMA InitCounts ==
  Init => Counted
<1> SUFFICES ASSUME Init PROVE Counted
  OBVIOUS
<1>1. TypeOK
  BY PipelineAssumption
     DEF Init, TypeOK, Nothing, Frame, Buttons, Seat
<1>2. SampledIsLast
  BY DEF Init, SampledIsLast, HeldBefore, Nothing
<1>3. \A p \in Players : PressesInFlight(p) = {}
  BY DEF Init, PressesInFlight
<1>4. EveryPressIsCounted
  BY <1>3, FS_EmptySet DEF Init, EveryPressIsCounted
<1> QED BY <1>1, <1>2, <1>4 DEF Counted

\* What neither moves frames nor changes seats changes no count.
LEMMA ElsewhereCounts ==
  ASSUME Counted, TypeOK', UNCHANGED <<sampled, up, seats, owed, lost>>
  PROVE  Counted'
<1>1. SampledIsLast'
  BY DEF Counted, SampledIsLast, HeldBefore
<1>2. \A p \in Players : PressesInFlight(p)' = PressesInFlight(p)
  BY DEF PressesInFlight, HeldBefore
<1>3. EveryPressIsCounted'
  BY <1>2 DEF Counted, EveryPressIsCounted
<1> QED BY <1>1, <1>3 DEF Counted

\* The client samples its keys and sends what changed.
LEMMA StepCounts ==
  ASSUME Counted, Step
  PROVE  Counted'
<1>1. TypeOK'
  BY DEF Counted, TypeOK, Step, Frame
<1>2. up' = Append(up, keys) /\ seats' = seats
  BY DEF Step
<1>3. SampledIsLast'
  <2> SUFFICES ASSUME NEW p \in Players
               PROVE  (SHOOT \in sampled[p])' <=> HeldBefore(p, Len(up) + 1)'
    BY DEF SampledIsLast
  <2>1. Len(up') \in Nat \ {0} /\ up'[Len(up')] = keys
    BY <1>2 DEF Counted, TypeOK, Frame
  <2>2. HeldBefore(p, Len(up) + 1)' <=> SHOOT \in keys[p]
    BY <2>1 DEF HeldBefore
  <2> QED BY <2>2 DEF Step
<1>4. EveryPressIsCounted'
  <2> SUFFICES ASSUME NEW p \in Players
               PROVE  owed'[p] = seats'[p].pending_shots
                        + Cardinality(PressesInFlight(p)') + lost'[p]
    BY DEF EveryPressIsCounted
  <2>1. Cardinality(PressesInFlight(p)') =
          Cardinality(PressesInFlight(p)) + (IF IsPress(p) THEN 1 ELSE 0)
    BY <1>2, AppendCounts
  <2>2. owed'[p] = owed[p] + (IF IsPress(p) THEN 1 ELSE 0)
    BY DEF Step, Counted, TypeOK
  <2>3. /\ Cardinality(PressesInFlight(p)) \in Nat
        /\ seats[p].pending_shots \in Nat
        /\ lost[p] \in Nat
    BY PressesAreFinite DEF Counted, TypeOK, Seat
  <2>4. owed[p] = seats[p].pending_shots + Cardinality(PressesInFlight(p))
                    + lost[p]
    BY DEF Counted, EveryPressIsCounted
  <2> QED BY <2>1, <2>2, <2>3, <2>4 DEF Step
<1> QED BY <1>1, <1>3, <1>4 DEF Counted

\* A frame read: one press more in the seat, or as many fewer as the counter
\* has values when it wraps, which are the ones lost.
LEMMA ReadInputType ==
  ASSUME NEW seat \in Seat, NEW buttons \in SUBSET Buttons
  PROVE  /\ ReadInput(seat, buttons) \in Seat
         /\ ReadInput(seat, buttons).prev_shoot_held <=> SHOOT \in buttons
         /\ ~IsNewShot(seat, buttons) =>
              ReadInput(seat, buttons).pending_shots = seat.pending_shots
         /\ IsNewShot(seat, buttons) =>
              ReadInput(seat, buttons).pending_shots =
                IF seat.pending_shots = ShotModulus - 1
                THEN 0 ELSE seat.pending_shots + 1
<1> DEFINE read == ReadInput(seat, buttons)
<1>1. /\ seat.pending_shots \in 0 .. ShotModulus - 1
      /\ OneMore(seat.pending_shots) =
           IF seat.pending_shots = ShotModulus - 1
           THEN 0 ELSE seat.pending_shots + 1
  BY PipelineAssumption DEF Seat, OneMore
<1>2. OneMore(seat.pending_shots) \in 0 .. ShotModulus - 1
  BY <1>1, PipelineAssumption
<1>3. /\ read.prev_shoot_held = (SHOOT \in buttons)
      /\ read.pending_movement = buttons \cap Moves
      /\ read.pending_shots = IF IsNewShot(seat, buttons)
                              THEN OneMore(seat.pending_shots)
                              ELSE seat.pending_shots
  BY DEF ReadInput, Movement
<1>4. read \in Seat
  <2>1. /\ (SHOOT \in buttons) \in BOOLEAN
        /\ buttons \cap Moves \in SUBSET Moves
        /\ read.pending_shots \in 0 .. ShotModulus - 1
    BY <1>1, <1>2, <1>3
  <2> QED BY <2>1 DEF ReadInput, Seat, Movement
<1> QED BY <1>1, <1>3, <1>4

\* The server counts the presses of a frame.
LEMMA MessageCounts ==
  ASSUME Counted, Message
  PROVE  Counted'
<1>1. /\ up # <<>> /\ up' = Tail(up) /\ Len(up) \in Nat \ {0}
      /\ up[1] \in Frame /\ up' \in Seq(Frame)
  BY DEF Counted, TypeOK, Message
<1>2. \A p \in Players : seats[p] \in Seat /\ up[1][p] \in SUBSET Buttons
  BY <1>1 DEF Counted, TypeOK, Frame
<1>3. seats' = [p \in Players |-> ReadInput(seats[p], up[1][p])]
  BY <1>1 DEF Message
<1>4. seats' \in [Players -> Seat]
  BY <1>2, <1>3, ReadInputType
<1>5. /\ lost' \in [Players -> Nat]
      /\ \A p \in Players :
           lost'[p] = IF seats'[p].pending_shots < seats[p].pending_shots
                      THEN lost[p] + ShotModulus ELSE lost[p]
  BY PipelineAssumption DEF Counted, TypeOK, Message
<1>6. TypeOK'
  BY <1>1, <1>4, <1>5 DEF Counted, TypeOK, Message
<1>7. \A p \in Players : seats'[p].prev_shoot_held <=> SHOOT \in up[1][p]
  BY <1>2, <1>3, ReadInputType
<1>8. SampledIsLast'
  <2> SUFFICES ASSUME NEW p \in Players
               PROVE  (SHOOT \in sampled[p])' <=> HeldBefore(p, Len(up) + 1)'
    BY DEF SampledIsLast
  <2>1. SHOOT \in sampled[p] <=> SHOOT \in up[Len(up)][p]
    BY <1>1 DEF Counted, SampledIsLast, HeldBefore
  <2>2. Len(up') = Len(up) - 1
    BY <1>1
  <2>3. CASE Len(up) = 1
    BY <2>1, <2>2, <2>3, <1>7 DEF HeldBefore, Message
  <2>4. CASE Len(up) # 1
    <3>1. up'[Len(up')] = up[Len(up)] /\ Len(up') + 1 # 1
          /\ Len(up') + 1 - 1 = Len(up')
      BY <1>1, <2>2, <2>4
    <3>2. HeldBefore(p, Len(up) + 1)' <=> SHOOT \in up'[Len(up')][p]
      BY <3>1 DEF HeldBefore
    <3> QED BY <2>1, <3>1, <3>2 DEF Message
  <2> QED BY <2>3, <2>4
<1>9. EveryPressIsCounted'
  <2> SUFFICES ASSUME NEW p \in Players
               PROVE  owed'[p] = seats'[p].pending_shots
                        + Cardinality(PressesInFlight(p)') + lost'[p]
    BY DEF EveryPressIsCounted
  <2> DEFINE press == IsNewShot(seats[p], up[1][p])
  <2>1. Cardinality(PressesInFlight(p)) =
          Cardinality(PressesInFlight(p)') + (IF press THEN 1 ELSE 0)
    BY <1>1, <1>7, TailCounts
  <2>2. seats'[p].pending_shots + lost'[p] =
          seats[p].pending_shots + lost[p] + (IF press THEN 1 ELSE 0)
    <3>1. seats[p].pending_shots \in 0 .. ShotModulus - 1 /\ lost[p] \in Nat
      BY <1>2 DEF Seat, Counted, TypeOK
    <3>2. CASE press
      <4>1. seats'[p].pending_shots =
              IF seats[p].pending_shots = ShotModulus - 1
              THEN 0 ELSE seats[p].pending_shots + 1
        BY <1>2, <1>3, <3>2, ReadInputType
      <4> QED BY <1>5, <3>1, <3>2, <4>1, PipelineAssumption
    <3>3. CASE ~press
      <4>1. seats'[p].pending_shots = seats[p].pending_shots
        BY <1>2, <1>3, <3>3, ReadInputType
      <4> QED BY <1>5, <3>1, <3>3, <4>1, PipelineAssumption
    <3> QED BY <3>2, <3>3
  <2>3. /\ Cardinality(PressesInFlight(p)) \in Nat
        /\ Cardinality(PressesInFlight(p)') \in Nat
    <3>1. Cardinality(PressesInFlight(p)') \in Nat
      <4>1. IsFiniteSet(1 .. Len(up'))
        BY <1>1, FS_Interval
      <4>2. PressesInFlight(p)' \in SUBSET (1 .. Len(up'))
        BY DEF PressesInFlight
      <4> QED BY <4>1, <4>2, FS_Subset, FS_CardinalityType
    <3> QED BY <3>1, PressesAreFinite DEF Counted
  <2>4. /\ owed'[p] = owed[p]
        /\ owed[p] = seats[p].pending_shots + Cardinality(PressesInFlight(p))
                       + lost[p]
    BY DEF Counted, EveryPressIsCounted, Message
  <2>5. /\ seats[p].pending_shots \in Nat /\ seats'[p].pending_shots \in Nat
        /\ lost[p] \in Nat /\ lost'[p] \in Nat
    BY <1>2, <1>4, <1>5 DEF Seat, Counted, TypeOK
  <2> HIDE DEF press
  <2> QED BY <2>1, <2>2, <2>3, <2>4, <2>5
<1> QED BY <1>6, <1>8, <1>9 DEF Counted

\* The timer consumes one.
LEMMA TickCounts ==
  ASSUME Counted, Tick
  PROVE  Counted'
<1>1. \A p \in Players : seats[p] \in Seat
  BY DEF Counted, TypeOK
<1>2. /\ seats' \in [Players -> Seat]
      /\ \A p \in Players :
           /\ seats'[p].prev_shoot_held <=> seats[p].prev_shoot_held
           /\ seats'[p].pending_shots =
                IF seats[p].pending_shots > 0
                THEN seats[p].pending_shots - 1 ELSE seats[p].pending_shots
  BY <1>1, PipelineAssumption DEF Tick, SpendPress, HasShot, Seat
<1>3. /\ inputs' \in Frame
      /\ \A p \in Players : SHOOT \in inputs'[p] <=> seats[p].pending_shots > 0
  BY <1>1, PipelineAssumption
     DEF Tick, InputOf, HasShot, Seat, Frame, Buttons
<1>4. TypeOK'
  BY <1>2, <1>3 DEF Counted, TypeOK, Tick
<1>5. \A p \in Players, i \in Nat : HeldBefore(p, i)' <=> HeldBefore(p, i)
  BY <1>2 DEF HeldBefore, Tick
<1>6. SampledIsLast'
  <2>1. Len(up) + 1 \in Nat
    BY DEF Counted, TypeOK
  <2> QED BY <2>1, <1>5 DEF Counted, SampledIsLast, Tick
<1>7. \A p \in Players : PressesInFlight(p)' = PressesInFlight(p)
  BY <1>5 DEF PressesInFlight, Tick, Counted, TypeOK
<1>8. EveryPressIsCounted'
  <2> SUFFICES ASSUME NEW p \in Players
               PROVE  owed'[p] = seats'[p].pending_shots
                        + Cardinality(PressesInFlight(p)) + lost[p]
    BY <1>7 DEF EveryPressIsCounted, Tick
  <2>1. /\ Cardinality(PressesInFlight(p)) \in Nat
        /\ seats[p].pending_shots \in Nat /\ lost[p] \in Nat
    BY <1>1, PressesAreFinite DEF Counted, TypeOK, Seat
  <2>2. owed[p] = seats[p].pending_shots + Cardinality(PressesInFlight(p))
                    + lost[p]
    BY DEF Counted, EveryPressIsCounted
  <2>3. owed'[p] = IF SHOOT \in inputs'[p] /\ owed[p] >= 0
                   THEN owed[p] - 1 ELSE owed[p]
    BY DEF Tick
  <2> QED BY <1>2, <1>3, <2>1, <2>2, <2>3
<1> QED BY <1>4, <1>6, <1>8 DEF Counted

\* All of them.
LEMMA NextCounts ==
  ASSUME Counted, [Next]_vars
  PROVE  Counted'
<1>1. CASE \E p \in Players, buttons \in SUBSET Buttons : Keyboard(p, buttons)
  <2>1. TypeOK'
    BY <1>1 DEF Counted, TypeOK, Keyboard, Frame
  <2> QED BY <1>1, <2>1, ElsewhereCounts DEF Keyboard
<1>2. CASE TogglePause
  <2>1. TypeOK'
    BY <1>2 DEF Counted, TypeOK, TogglePause
  <2> QED BY <1>2, <2>1, ElsewhereCounts DEF TogglePause
<1>3. CASE Step
  BY <1>3, StepCounts
<1>4. CASE Message
  BY <1>4, MessageCounts
<1>5. CASE Tick
  BY <1>5, TickCounts
<1>6. CASE UNCHANGED vars
  <2>1. TypeOK'
    BY <1>6 DEF Counted, TypeOK, vars
  <2> QED BY <1>6, <2>1, ElsewhereCounts DEF vars
<1> QED BY <1>1, <1>2, <1>3, <1>4, <1>5, <1>6 DEF Next

\* The pending fields of a seat and the frames on their way keep their types;
\* the press counter stays below its modulus.
THEOREM PipelineTypeCorrect == Spec => []TypeOK
<1>1. Counted => TypeOK
  BY DEF Counted
<1> QED BY InitCounts, NextCounts, <1>1, PTL DEF Spec

\* No press is lost or fired twice between the keyboard and the simulation,
\* except where the eight bits of pending_shots wrap.
THEOREM PressesAreCounted == Spec => []EveryPressIsCounted
<1>1. Counted => EveryPressIsCounted
  BY DEF Counted
<1> QED BY InitCounts, NextCounts, <1>1, PTL DEF Spec
=============================================================================
