------------------------- MODULE StatePlaybackProofs --------------------------
(***************************************************************************)
(* What a client draws, for every number of players, enemies, bullets and  *)
(* ticks, and any number of frames on their way.                           *)
(***************************************************************************)
EXTENDS StatePlayback, SequenceTheorems, TLAPS

-----------------------------------------------------------------------------
(* The invariant.  A state goes from the simulation over the connection    *)
(* into the mailbox, becomes the target and then the previous state; at    *)
(* each place it may be lost, but it never overtakes another one.          *)

\* s is a state of this match, no newer than the simulation.
WasSent(s) ==
  /\ s \in State
  /\ s.at \in 1 .. sim.at
  /\ sim.alive \subseteq s.alive
  /\ s.at = sim.at => s.bullets = sim.bullets

\* s is older than t, by one step of the pool if none was lost between them.
Before(s, t) ==
  s.at # 0 =>
    /\ s.at < t.at
    /\ t.alive \subseteq s.alive
    /\ t.at = s.at + 1 => FireThenFree(s.bullets, t.bullets, t.at)

\* The states the client holds.
Held == {previous, target, box}

\* Everything on its way is in the order it was sent in.
InOrder ==
  /\ down \in Seq({Started} \cup State)
  /\ \A s \in Held : s = Blank \/ WasSent(s)
  /\ target # Blank => Before(previous, target)
  /\ box # Blank => Before(previous, box) /\ Before(target, box)
  /\ \A i \in 1 .. Len(down) : IsState(down[i]) =>
       WasSent(down[i]) /\ \A s \in Held : Before(s, down[i])
  /\ \A i, j \in 1 .. Len(down) :
       i < j /\ IsState(down[i]) /\ IsState(down[j]) => Before(down[i], down[j])

\* What the match object remembers is the state it drew last, and its
\* explosions are those since the first.
RemembersWhatItDrew ==
  /\ drawn.at = 0 =>
       seen = {} /\ DOMAIN drawn.ships = {} /\ \A e \in Enemies : boom[e] = 0
  /\ drawn.at # 0 =>
       drawn.at = target.at /\ seen = target.alive /\ target.alive \subseteq first
  /\ DeathsExplodeOnce

\* A seat's bytes are of a state that was there.
SeatsWereTaken ==
  \A k \in 1 .. Seats : leftover[k] # Nobody => leftover[k].at # 0

Inv == TypeOK /\ InOrder /\ RemembersWhatItDrew /\ SeatsWereTaken

-----------------------------------------------------------------------------
(* The pipeline. *)

\* The empty state.
LEMMA BlankType ==
  /\ Blank \in State /\ Blank.at = 0 /\ Blank.alive = {} /\ Blank.players = {}
  /\ \A b \in Bullets : Blank.bullets[b] = 0
BY PlaybackAssumption DEF Blank, State, Ticks

\* A state of the client is empty or has a tick.
LEMMA HeldStates ==
  ASSUME Inv, NEW s \in Held
  PROVE  s \in State /\ (s # Blank => WasSent(s) /\ s.at # 0)
BY BlankType DEF Inv, InOrder, WasSent

\* A tick of the simulation is behind all that was sent before.
LEMMA TickKeepsOrder ==
  ASSUME Inv, Tick
  PROVE  /\ sim' \in State
         /\ InOrder'
<1>1. PICK alive, bullets, over :
        /\ alive \in SUBSET sim.alive /\ bullets \in [Bullets -> Ticks]
        /\ over \in BOOLEAN
        /\ FireThenFree(sim.bullets, bullets, sim.at + 1)
        /\ sim' = [sim EXCEPT !.at = @ + 1, !.alive = alive,
                              !.bullets = bullets, !.over = over]
  BY DEF Tick
<1>2. /\ sim \in State /\ sim.at < MaxTick /\ sim.at \in Nat /\ MaxTick \in Nat
      /\ down' = Append(down, sim') /\ UNCHANGED <<previous, target, box>>
      /\ down \in Seq({Started} \cup State)
  BY PlaybackAssumption DEF Tick, Inv, TypeOK, InOrder, State, Ticks, session
<1>3. /\ sim' \in State /\ sim'.at = sim.at + 1 /\ sim'.alive = alive
      /\ sim'.bullets = bullets
  <2>1. PICK now \in Ticks : now = sim.at + 1
    BY <1>2 DEF Ticks
  <2>2. alive \in SUBSET Enemies
    BY <1>1, <1>2 DEF State
  <2>3. sim' = [sim EXCEPT !.at = now, !.alive = alive, !.bullets = bullets,
                           !.over = over]
    BY <1>1, <2>1
  <2> QED
    BY <1>1, <1>2, <2>1, <2>2, <2>3 DEF State
<1>4. ASSUME NEW s, WasSent(s)
      PROVE  WasSent(s)' /\ Before(s, sim')
  BY <1>1, <1>2, <1>3, <1>4 DEF WasSent, Before
<1>5. WasSent(sim)'
  BY <1>2, <1>3 DEF WasSent
<1>6. /\ down' \in Seq({Started} \cup State) /\ Len(down') = Len(down) + 1
      /\ \A i \in 1 .. Len(down) : down'[i] = down[i]
      /\ down'[Len(down) + 1] = sim'
      /\ Len(down) \in Nat
  BY <1>2, <1>3, AppendProperties
<1>7. \A s \in Held : (s = Blank \/ WasSent(s)') /\ Before(s, sim')
  BY <1>4, HeldStates, BlankType DEF Before
<1>8. ASSUME NEW i \in 1 .. Len(down'), IsState(down'[i])
      PROVE  WasSent(down[i])' /\ \A s \in Held : Before(s, down'[i])
  BY <1>4, <1>5, <1>6, <1>7, <1>8 DEF Inv, InOrder
<1>9. ASSUME NEW i \in 1 .. Len(down'), NEW j \in 1 .. Len(down'), i < j,
             IsState(down'[i]), IsState(down'[j])
      PROVE  Before(down'[i], down'[j])
  BY <1>4, <1>6, <1>9 DEF Inv, InOrder
<1>10. Held' = Held
  BY <1>2 DEF Held
<1> QED
  BY <1>2, <1>3, <1>6, <1>7, <1>8, <1>9, <1>10 DEF Inv, InOrder, Before

\* Leaving changes nothing the order is about.
LEMMA LeaveKeepsOrder ==
  ASSUME Inv, NEW p \in Ids, Leave(p)
  PROVE  sim' \in State /\ InOrder'
<1>1. /\ sim' = [sim EXCEPT !.players = @ \ {p}] /\ sim \in State
      /\ UNCHANGED <<down, previous, target, box>>
  BY DEF Leave, Inv, TypeOK, session
<1>2. /\ sim' \in State /\ sim'.at = sim.at /\ sim'.alive = sim.alive
      /\ sim'.bullets = sim.bullets
  BY <1>1 DEF State
<1>3. \A s : WasSent(s)' <=> WasSent(s)
  BY <1>2 DEF WasSent
<1> QED
  BY <1>1, <1>2, <1>3 DEF Inv, InOrder, Held, Before

\* A late lobby update overtakes nothing.
LEMMA LateReadyKeepsOrder ==
  ASSUME Inv, LateReady
  PROVE  InOrder'
<1>1. /\ down' = Append(down, Started) /\ down \in Seq({Started} \cup State)
      /\ UNCHANGED <<sim, previous, target, box>>
  BY DEF LateReady, Inv, InOrder, session
<1>2. /\ down' \in Seq({Started} \cup State) /\ Len(down') = Len(down) + 1
      /\ \A i \in 1 .. Len(down) : down'[i] = down[i]
      /\ down'[Len(down) + 1] = Started
      /\ Len(down) \in Nat
  BY <1>1, AppendProperties
<1>3. ASSUME NEW i \in 1 .. Len(down'), IsState(down'[i])
      PROVE  i \in 1 .. Len(down) /\ down'[i] = down[i]
  BY <1>2, <1>3 DEF IsState
<1>4. \A s : WasSent(s)' <=> WasSent(s)
  BY <1>1 DEF WasSent
<1>5. \A s : \A i \in 1 .. Len(down') : IsState(down'[i]) =>
        (Before(s, down'[i]) <=> Before(s, down[i]))
  BY <1>3
<1> QED
  BY <1>1, <1>2, <1>3, <1>4 DEF Inv, InOrder, Held, Before

\* The first frame arrives; if it is a state it is newer than what was taken
\* and older than what is still on its way.
LEMMA ArrivalKeepsOrder ==
  ASSUME Inv, down # <<>>, down' = Tail(down),
         UNCHANGED <<sim, previous, target>>,
         box' = IF IsState(Head(down)) THEN Head(down) ELSE box
  PROVE  InOrder' /\ {box, previous, target}' \subseteq State
<1>1. /\ down \in Seq({Started} \cup State)
      /\ Len(down) \in Nat \ {0}
      /\ Head(down) = down[1] /\ Head(down) \in {Started} \cup State
  BY EmptySeq, HeadTailProperties DEF Inv, InOrder
<1>2. /\ down' \in Seq({Started} \cup State) /\ Len(down') = Len(down) - 1
      /\ \A i \in 1 .. Len(down') : i + 1 \in 1 .. Len(down) /\ down'[i] = down[i + 1]
      /\ 1 \in 1 .. Len(down)
  BY <1>1, HeadTailProperties
<1>3. \A s : WasSent(s)' <=> WasSent(s)
  BY DEF WasSent
<1>4. CASE IsState(Head(down))
  <2>1. box' = down[1] /\ WasSent(down[1]) /\ box' \in State
    BY <1>1, <1>2, <1>4 DEF Inv, InOrder, WasSent
  <2>2. Before(previous, down[1]) /\ Before(target, down[1])
    BY <1>1, <1>2, <1>4 DEF Inv, InOrder, Held
  <2>3. \A i \in 1 .. Len(down') : IsState(down'[i]) =>
          /\ WasSent(down'[i]) /\ Before(down[1], down'[i])
          /\ Before(previous, down'[i]) /\ Before(target, down'[i])
    <3>1. \A i \in 1 .. Len(down') : 1 < i + 1
      BY <1>1, <1>2
    <3> QED
      BY <1>1, <1>2, <1>4, <3>1 DEF Inv, InOrder, Held
  <2>4. \A i, j \in 1 .. Len(down') :
          i < j /\ IsState(down'[i]) /\ IsState(down'[j])
            => Before(down'[i], down'[j])
    <3>1. \A i, j \in 1 .. Len(down') : i < j => i + 1 < j + 1
      BY <1>1, <1>2
    <3> QED
      BY <1>2, <3>1 DEF Inv, InOrder
  <2>5. \A s \in Held' : s = previous \/ s = target \/ s = down[1]
    BY <2>1 DEF Held
  <2>6. target' # Blank => Before(previous, target)'
    BY DEF Inv, InOrder, Before
  <2>7. {previous, target} \subseteq State
    BY DEF Inv, TypeOK
  <2> QED
    BY <1>2, <1>3, <2>1, <2>2, <2>3, <2>4, <2>5, <2>6, <2>7
    DEF Inv, InOrder, Held, Before
<1>5. CASE ~ IsState(Head(down))
  <2>1. UNCHANGED box
    BY <1>5
  <2>2. \A i, j \in 1 .. Len(down') : i < j => i + 1 < j + 1
    BY <1>1, <1>2
  <2> QED
    BY <1>2, <1>3, <2>1, <2>2 DEF Inv, TypeOK, InOrder, Held, Before
<1> QED
  BY <1>4, <1>5

\* Taking a state moves what the client holds one place on.
LEMMA TakeKeepsOrder ==
  ASSUME Inv, Take, UNCHANGED <<sim, down>>
  PROVE  /\ InOrder' /\ {box, previous, target}' \subseteq State
         /\ \/ UNCHANGED <<previous, target>>
            \/ /\ previous' = target /\ target' # Blank
               /\ Before(target, target')
<1>1. CASE box = Blank
  <2>1. UNCHANGED session
    BY <1>1 DEF Take
  <2> QED
    BY <2>1 DEF Inv, TypeOK, InOrder, Held, WasSent, Before, session
<1>2. CASE box # Blank
  <2>1. target' = box /\ previous' = target /\ box' = Blank
    BY <1>2 DEF Take, Shift
  <2>2. \A s : WasSent(s)' <=> WasSent(s)
    BY DEF WasSent
  <2>3. Before(target, box)
    BY <1>2 DEF Inv, InOrder
  <2>4. \A s : Before(Blank, s)
    BY BlankType DEF Before
  <2>5. \A s \in Held' : s \in Held \/ s = Blank
    BY <2>1 DEF Held
  <2>6. Held \subseteq State
    BY HeldStates
  <2>7. Before(previous, target)' /\ {box, previous, target}' \subseteq State
    BY <2>1, <2>3, <2>6, BlankType DEF Held, Before
  <2>8. \A i \in 1 .. Len(down) : IsState(down[i]) =>
          \A s \in Held' : Before(s, down[i])
    BY <2>4, <2>5 DEF Inv, InOrder
  <2>9. \A s \in Held' : s = Blank \/ WasSent(s)
    BY <2>5 DEF Inv, InOrder
  <2> QED
    BY <1>2, <2>1, <2>2, <2>3, <2>7, <2>8, <2>9 DEF Inv, InOrder, Before
<1> QED
  BY <1>1, <1>2

-----------------------------------------------------------------------------
(* The picture. *)

\* A state the client holds, or the empty one.
Drawable(s) == s \in State /\ (s.at = 0 => s.players = {})

\* Ships are drawn between places they have been in, whatever is read from the
\* empty seats.
LEMMA InterpolationType ==
  ASSUME NEW old, Drawable(old), NEW new, Drawable(new),
         NEW left \in [1 .. Seats -> {Nobody} \cup [id : Ids, at : Ticks]],
         \A k \in 1 .. Seats : left[k] # Nobody => left[k].at # 0,
         NEW picture \in Interpolations(old, new, left)
  PROVE  /\ DOMAIN picture = {"at", "ships", "stray"}
         /\ picture.at = new.at
         /\ DOMAIN picture.ships = new.players
         /\ \A p \in DOMAIN picture.ships : picture.ships[p] \in Ship
         /\ picture.stray \in BOOLEAN
<1>1. PICK reads \in HoleReads(old, new, left) :
        picture = [at |-> new.at,
                   ships |-> [p \in new.players |->
                     IF \E r \in reads : r.id = p
                     THEN [from |-> old.at,
                           to |-> (CHOOSE r \in reads : r.id = p).at]
                     ELSE Path(old, new, p)],
                   stray |-> \E r \in reads : r.id \notin new.players]
  BY DEF Interpolations
<1>2. \A r \in reads : r.at \in Ticks \ {0} /\ r.id \in old.players
  BY DEF HoleReads
<1>3. /\ \A p \in new.players : new.at \in Ticks \ {0}
      /\ \A p \in old.players : old.at \in Ticks \ {0}
  BY DEF Drawable, State
<1>4. ASSUME NEW p \in new.players
      PROVE  picture.ships[p] \in Ship
  <2>1. CASE \E r \in reads : r.id = p
    <3>1. PICK read \in reads : read = CHOOSE r \in reads : r.id = p
      BY <2>1
    <3>2. picture.ships[p] = [from |-> old.at, to |-> read.at]
      BY <1>1, <2>1, <3>1
    <3> QED
      BY <1>2, <1>3, <3>2 DEF Ship
  <2>2. CASE ~ \E r \in reads : r.id = p
    BY <1>1, <1>3, <2>2 DEF Path, Ship
  <2> QED
    BY <2>1, <2>2
<1> QED
  BY <1>1, <1>4

\* The bytes of a seat are of a player that sat there.
LEMMA TakeSeats ==
  ASSUME Inv, Take
  PROVE  /\ leftover' \in [1 .. Seats -> {Nobody} \cup [id : Ids, at : Ticks]]
         /\ SeatsWereTaken'
<1>1. CASE box = Blank
  BY <1>1 DEF Take, session, Inv, TypeOK, SeatsWereTaken
<1>2. CASE box # Blank
  <2>1. box \in State /\ box.at # 0
    BY <1>2, HeldStates DEF Held
  <2>2. \A k \in 1 .. Seats : InSeat(box.players, k) # {} =>
          (CHOOSE p \in InSeat(box.players, k) : TRUE) \in Ids
    BY <2>1 DEF InSeat, State
  <2> DEFINE sits(k) == CHOOSE p \in InSeat(box.players, k) : TRUE
  <2> HIDE DEF sits
  <2>3. leftover' = [k \in 1 .. Seats |->
               IF view = "desktop_pvp" /\ InSeat(box.players, k) # {}
               THEN [id |-> sits(k), at |-> box.at]
               ELSE leftover[k]]
    BY <1>2 DEF Take, sits
  <2>4. box.at \in Ticks
    BY <2>1 DEF State
  <2>5. \A k \in 1 .. Seats : InSeat(box.players, k) # {} =>
          [id |-> sits(k), at |-> box.at] \in [id : Ids, at : Ticks]
    BY <2>2, <2>4 DEF sits
  <2> QED
    BY <2>1, <2>3, <2>5 DEF Inv, TypeOK, SeatsWereTaken
<1> QED
  BY <1>1, <1>2

\* A fixed step of the playing screen.
LEMMA StepKeeps ==
  ASSUME Inv, Step
  PROVE  Inv'
<1>1. /\ screen = "PLAYING" /\ Take
      /\ UNCHANGED <<view, audio_ready, sim, down>>
      /\ drawn' \in Interpolations(previous', target', leftover')
      /\ boom' = [e \in Enemies |->
                    IF LooksForDeaths /\ e \in seen \ target'.alive
                    THEN boom[e] + 1 ELSE boom[e]]
      /\ seen' = target'.alive
      /\ first' = IF drawn.at = 0 THEN target'.alive ELSE first
      /\ screen' \in {"PLAYING", "END"}
  BY DEF Step, Exploding, NowSeen, client
<1>2. /\ InOrder' /\ {box, previous, target}' \subseteq State
      /\ \/ UNCHANGED <<previous, target>>
         \/ previous' = target /\ target' # Blank /\ Before(target, target')
  BY <1>1, TakeKeepsOrder
<1>3. /\ leftover' \in [1 .. Seats -> {Nobody} \cup [id : Ids, at : Ticks]]
      /\ SeatsWereTaken'
  BY <1>1, TakeSeats
<1>4. Drawable(previous') /\ Drawable(target') /\ (target' # Blank => target'.at # 0)
  BY <1>2, BlankType DEF Drawable, InOrder, Held, WasSent
<1>5. /\ DOMAIN drawn' = {"at", "ships", "stray"}
      /\ drawn'.at = target'.at
      /\ DOMAIN drawn'.ships = target'.players
      /\ \A p \in DOMAIN drawn'.ships : drawn'.ships[p] \in Ship
      /\ drawn'.stray \in BOOLEAN
  BY <1>1, <1>3, <1>4, InterpolationType DEF SeatsWereTaken
<1>6. /\ target' \in State /\ target'.at \in Ticks
      /\ target'.players \subseteq Ids /\ target'.alive \subseteq Enemies
  BY <1>2 DEF State
<1>7. boom \in [Enemies -> Nat] /\ boom' \in [Enemies -> Nat]
  <2>1. boom \in [Enemies -> Nat]
    BY DEF Inv, TypeOK
  <2> QED
    BY <1>1, <2>1
<1>8. TypeOK'
  BY <1>1, <1>2, <1>3, <1>5, <1>6, <1>7 DEF Inv, TypeOK, Screens
<1>9. RemembersWhatItDrew'
  <2>0. LooksForDeaths' <=> LooksForDeaths
    BY <1>1 DEF LooksForDeaths, OnDesktop
  <2>1. CASE drawn.at = 0
    <3>1. seen = {} /\ \A e \in Enemies : boom'[e] = 0
      BY <1>1, <1>7, <2>1 DEF Inv, RemembersWhatItDrew
    <3>2. target'.at = 0 => target'.alive = {} /\ target'.players = {}
      BY <1>4, BlankType
    <3> QED
      BY <1>1, <1>5, <2>0, <2>1, <3>1, <3>2
      DEF RemembersWhatItDrew, DeathsExplodeOnce
  <2>2. CASE drawn.at # 0
    <3>1. /\ drawn.at = target.at /\ seen = target.alive
          /\ target.alive \subseteq first
          /\ \A e \in Enemies :
               boom[e] = IF /\ LooksForDeaths
                            /\ e \in first /\ e \notin target.alive
                         THEN 1 ELSE 0
      BY <2>2 DEF Inv, RemembersWhatItDrew, DeathsExplodeOnce
    <3>2. target'.at # 0 /\ target'.alive \subseteq target.alive
      BY <1>2, <1>4, <2>2, <3>1 DEF Before
    <3>3. first' = first
      BY <1>1, <2>2
    <3>4. \A e \in Enemies :
            boom'[e] = IF /\ LooksForDeaths
                          /\ e \in first /\ e \notin target'.alive
                       THEN 1 ELSE 0
      BY <1>1, <1>7, <3>1, <3>2
    <3> QED
      BY <1>1, <1>5, <2>0, <3>1, <3>2, <3>3, <3>4
      DEF RemembersWhatItDrew, DeathsExplodeOnce
  <2> QED
    BY <2>1, <2>2
<1> QED
  BY <1>2, <1>3, <1>8, <1>9 DEF Inv

\* The match object begins with nothing drawn.
LEMMA NothingDrawn ==
  ASSUME seen = {}, first = {}, boom = [e \in Enemies |-> 0],
         drawn = [at |-> 0, ships |-> <<>>, stray |-> FALSE]
  PROVE  /\ RemembersWhatItDrew
         /\ seen \subseteq Enemies /\ first \subseteq Enemies
         /\ boom \in [Enemies -> Nat]
         /\ DOMAIN drawn = {"at", "ships", "stray"} /\ drawn.at = 0
         /\ DOMAIN drawn.ships = {} /\ drawn.stray \in BOOLEAN
BY DEF RemembersWhatItDrew, DeathsExplodeOnce

\* Everything but a fixed step leaves the picture alone or begins anew.
LEMMA OthersKeep ==
  ASSUME Inv, UNCHANGED <<client, previous, target, leftover>>, InOrder',
         sim' \in State, box' \in State, screen' \in Screens,
         \/ UNCHANGED match
         \/ /\ seen' = {} /\ first' = {} /\ boom' = [e \in Enemies |-> 0]
            /\ drawn' = [at |-> 0, ships |-> <<>>, stray |-> FALSE]
  PROVE  Inv'
<1>1. \A i \in DOMAIN down' : down'[i] = Started \/ down'[i] \in State
  <2>1. down' \in Seq({Started} \cup State)
    BY DEF InOrder
  <2> QED
    BY <2>1, ElementOfSeq, LenProperties
<1>2. CASE UNCHANGED match
  BY <1>1, <1>2 DEF Inv, TypeOK, RemembersWhatItDrew, DeathsExplodeOnce,
                    LooksForDeaths, OnDesktop, SeatsWereTaken, match, client
<1>3. CASE /\ seen' = {} /\ first' = {} /\ boom' = [e \in Enemies |-> 0]
           /\ drawn' = [at |-> 0, ships |-> <<>>, stray |-> FALSE]
  <2>1. /\ DOMAIN drawn' = {"at", "ships", "stray"} /\ drawn'.at = 0
        /\ DOMAIN drawn'.ships = {} /\ drawn'.stray \in BOOLEAN
        /\ boom' \in [Enemies -> Nat]
    BY <1>3
  <2>2. RemembersWhatItDrew'
    BY <1>3, <2>1 DEF RemembersWhatItDrew, DeathsExplodeOnce
  <2>3. 0 \in Ticks
    BY PlaybackAssumption DEF Ticks
  <2> QED
    BY <1>1, <1>3, <2>1, <2>2, <2>3 DEF Inv, TypeOK, SeatsWereTaken, client
<1> QED
  BY <1>2, <1>3

\* A match starts with nothing taken and nothing drawn.
LEMMA InvAtFirst == Init => Inv
<1> SUFFICES ASSUME Init PROVE Inv
  OBVIOUS
<1>1. /\ view \in Views /\ audio_ready \in BOOLEAN /\ down = <<Started>> /\ screen = "LOBBY"
      /\ box = Blank /\ previous = Blank /\ target = Blank
      /\ leftover = [k \in 1 .. Seats |-> Nobody]
      /\ sim = [Blank EXCEPT !.players = Ids,
                             !.alive = IF InCoop THEN Enemies ELSE {}]
  BY DEF Init
<1>2. sim \in State
  <2>1. PICK alive \in SUBSET Enemies :
          sim = [Blank EXCEPT !.players = Ids, !.alive = alive]
    BY <1>1
  <2> QED
    BY <2>1, BlankType DEF State
<1>3. /\ RemembersWhatItDrew
      /\ seen \subseteq Enemies /\ first \subseteq Enemies
      /\ boom \in [Enemies -> Nat]
      /\ DOMAIN drawn = {"at", "ships", "stray"} /\ drawn.at = 0
      /\ DOMAIN drawn.ships = {} /\ drawn.stray \in BOOLEAN
  BY NothingDrawn DEF Init
<1>4. /\ down \in Seq({Started} \cup State) /\ Len(down) = 1 /\ down[1] = Started
  BY <1>1
<1>5. \A i \in 1 .. Len(down) : ~ IsState(down[i])
  BY <1>4 DEF IsState
<1>6. InOrder
  BY <1>1, <1>4, <1>5 DEF InOrder, Held
<1>7. 0 \in Ticks
  BY PlaybackAssumption DEF Ticks
<1>8. TypeOK
  BY <1>1, <1>2, <1>3, <1>4, <1>7, BlankType DEF TypeOK, Screens
<1> QED
  BY <1>1, <1>3, <1>6, <1>8 DEF Inv, SeatsWereTaken

\* A step that changes nothing keeps the order.
LEMMA NothingMoves ==
  ASSUME Inv, UNCHANGED <<sim, down, box, previous, target>>
  PROVE  InOrder'
BY DEF Inv, InOrder, Held, WasSent, Before

\* The invariant holds, whatever is lost, late, paused or started anew.
LEMMA InvHolds == Spec => []Inv
<1>1. Inv /\ [Next]_vars => Inv'
  <2> SUFFICES ASSUME Inv, [Next]_vars PROVE Inv'
    OBVIOUS
  <2>1. sim \in State /\ box \in State /\ screen \in Screens
    BY DEF Inv, TypeOK
  <2>2. CASE Tick
    <3>1. UNCHANGED <<client, screen, session, match>>
      BY <2>2 DEF Tick
    <3> QED
      BY <2>1, <2>2, <3>1, TickKeepsOrder, OthersKeep DEF session
  <2>3. ASSUME NEW p \in Ids, Leave(p) PROVE Inv'
    <3>1. UNCHANGED <<client, screen, session, match>>
      BY <2>3 DEF Leave
    <3> QED
      BY <2>1, <2>3, <3>1, LeaveKeepsOrder, OthersKeep DEF session
  <2>4. CASE LateReady
    <3>1. UNCHANGED <<client, sim, screen, session, match>>
      BY <2>4 DEF LateReady
    <3> QED
      BY <2>1, <2>4, <3>1, LateReadyKeepsOrder, OthersKeep DEF session
  <2>5. CASE ReceiveState
    <3>1. /\ UNCHANGED <<client, sim, screen, previous, target, leftover, match>>
          /\ down # <<>> /\ down' = Tail(down)
          /\ IsState(Head(down)) /\ box' = Head(down)
      BY <2>5 DEF ReceiveState, PutInBox
    <3>2. InOrder' /\ box' \in State
      BY <3>1, ArrivalKeepsOrder
    <3> QED
      BY <2>1, <3>1, <3>2, OthersKeep
  <2>6. CASE ReceiveStart
    <3>1. /\ UNCHANGED <<client, sim, session>>
          /\ down # <<>> /\ down' = Tail(down) /\ ~ IsState(Head(down))
          /\ screen' \in {screen, "PLAYING"}
          /\ \/ UNCHANGED match
             \/ /\ seen' = {} /\ first' = {} /\ boom' = [e \in Enemies |-> 0]
                /\ drawn' = [at |-> 0, ships |-> <<>>, stray |-> FALSE]
      BY <2>6 DEF ReceiveStart
    <3>2. InOrder'
      BY <3>1, ArrivalKeepsOrder DEF session
    <3>3. screen' \in Screens
      BY <2>1, <3>1 DEF Screens
    <3> QED
      BY <2>1, <3>1, <3>2, <3>3, OthersKeep DEF session
  <2>7. CASE TogglePause
    <3>1. /\ UNCHANGED <<client, sim, down, session, match>>
          /\ screen' \in Screens
      BY <2>7 DEF TogglePause, Screens
    <3> QED
      BY <2>1, <3>1, NothingMoves, OthersKeep DEF session
  <2>8. CASE Step
    BY <2>8, StepKeeps
  <2>9. CASE UNCHANGED vars
    BY <2>1, <2>9, NothingMoves, OthersKeep DEF vars, session
  <2> QED
    BY <2>2, <2>3, <2>4, <2>5, <2>6, <2>7, <2>8, <2>9 DEF Next
<1> QED
  BY <1>1, InvAtFirst, PTL DEF Spec

-----------------------------------------------------------------------------
(* The theorems. *)

\* TypeOK: with it, a ship is drawn between places it has been in.
THEOREM TypeCorrect == Spec => []TypeOK
<1>1. Inv => TypeOK
  BY DEF Inv
<1> QED
  BY <1>1, InvHolds, PTL

\* DeathsExplodeOnce: where the client looks for explosions an enemy explodes
\* once, however many states were lost, slept through or drawn twice; a desktop
\* without an audio device explodes none.
THEOREM DeathsAreShownOnce == Spec => []DeathsExplodeOnce
<1>1. Inv => DeathsExplodeOnce
  BY DEF Inv, RemembersWhatItDrew
<1> QED
  BY <1>1, InvHolds, PTL

\* OnlyLostStatesBlendBullets: between two states that follow each other a slot
\* holds the same bullet, as the pool is filled before it is emptied.
THEOREM BulletsBlendOnlyOverGaps == Spec => []OnlyLostStatesBlendBullets
<1>1. Inv => OnlyLostStatesBlendBullets
  <2> SUFFICES ASSUME Inv, NEW b \in Bullets,
                      previous.bullets[b] # 0, target.bullets[b] # 0,
                      ~ (target.at > previous.at + 1)
               PROVE  previous.bullets[b] = target.bullets[b]
    BY DEF OnlyLostStatesBlendBullets, Blended
  <2>1. previous # Blank /\ target # Blank
    BY BlankType
  <2>2. /\ previous.at # 0 /\ previous \in State /\ target \in State
    BY <2>1, HeldStates DEF Held
  <2>3. Before(previous, target)
    BY <2>1 DEF Inv, InOrder
  <2>4. previous.at \in Int /\ target.at \in Int
    BY <2>2 DEF State, Ticks
  <2>5. target.at = previous.at + 1
    BY <2>2, <2>3, <2>4 DEF Before
  <2>6. FireThenFree(previous.bullets, target.bullets, target.at)
    BY <2>2, <2>3, <2>5 DEF Before
  <2> QED
    BY <2>6 DEF FireThenFree
<1> QED
  BY <1>1, InvHolds, PTL

-----------------------------------------------------------------------------
(* Where the empty seats of a team are not read: everywhere but in the     *)
(* desktop's PvP loop.                                                     *)

\* What is drawn then: each ship on its way from the previous state, if it was
\* in it, to the target.
DrawnFromStates ==
  /\ \A k \in 1 .. Seats : leftover[k] = Nobody
  /\ view # "desktop_pvp"
  /\ drawn.at # 0 =>
       drawn = [at |-> target.at,
                ships |-> [p \in target.players |-> Path(previous, target, p)],
                stray |-> FALSE]
  /\ drawn.at = 0 => DOMAIN drawn.ships = {} /\ ~ drawn.stray

\* Without anything to read in the empty seats only the two states are drawn.
LEMMA PathsOnly ==
  ASSUME NEW old, NEW new, NEW left, \A k \in 1 .. Seats : left[k] = Nobody,
         NEW picture \in Interpolations(old, new, left)
  PROVE  picture = [at |-> new.at,
                    ships |-> [p \in new.players |-> Path(old, new, p)],
                    stray |-> FALSE]
<1>1. HoleReads(old, new, left) = {{}}
  BY DEF HoleReads
<1> QED
  BY <1>1 DEF Interpolations

\* A fixed step draws the two states it holds.
LEMMA StepDraws ==
  ASSUME DrawnFromStates, Step
  PROVE  /\ drawn' = [at |-> target'.at,
                      ships |-> [p \in target'.players |->
                                   Path(previous', target', p)],
                      stray |-> FALSE]
         /\ \A k \in 1 .. Seats : leftover'[k] = Nobody
         /\ \/ UNCHANGED <<previous, target>>
            \/ previous' = target /\ target' # Blank
<1>1. Take /\ drawn' \in Interpolations(previous', target', leftover')
  BY DEF Step
<1>2. \A k \in 1 .. Seats : leftover'[k] = Nobody
  BY <1>1 DEF Take, DrawnFromStates, session
<1>3. \/ UNCHANGED <<previous, target>>
      \/ previous' = target /\ target' # Blank
  BY <1>1 DEF Take, Shift, session
<1> QED
  BY <1>1, <1>2, <1>3, PathsOnly

\* The empty state has no players.
LEMMA NoTickNoPlayers == Inv => (target.at = 0 => target.players = {})
BY HeldStates, BlankType DEF Held

\* It stays so.
LEMMA DrawnHolds ==
  ASSUME "desktop_pvp" \notin Views
  PROVE  Spec => []DrawnFromStates
<1>1. Init => DrawnFromStates
  BY DEF Init, DrawnFromStates
<1>2. Inv /\ Inv' /\ DrawnFromStates /\ [Next]_vars => DrawnFromStates'
  <2> SUFFICES ASSUME Inv, Inv', DrawnFromStates, [Next]_vars
               PROVE  DrawnFromStates'
    OBVIOUS
  <2>1. CASE Step
    <3>1. /\ drawn' = [at |-> target'.at,
                       ships |-> [p \in target'.players |->
                                    Path(previous', target', p)],
                       stray |-> FALSE]
          /\ \A k \in 1 .. Seats : leftover'[k] = Nobody
      BY <2>1, StepDraws
    <3>2. target'.at = 0 => target'.players = {}
      <4>1. Inv' => (target.at = 0 => target.players = {})'
        BY NoTickNoPlayers, PTL
      <4> QED
        BY <4>1
    <3> QED
      BY <2>1, <3>1, <3>2 DEF Step, DrawnFromStates, client
  <2>2. CASE ReceiveStart
    <3>1. \/ UNCHANGED match
          \/ drawn' = [at |-> 0, ships |-> <<>>, stray |-> FALSE]
      BY <2>2 DEF ReceiveStart
    <3> QED
      BY <2>2, <3>1
      DEF ReceiveStart, DrawnFromStates, session, match, client, Path
  <2>3. CASE \/ Tick \/ LateReady \/ ReceiveState \/ TogglePause
             \/ UNCHANGED vars \/ \E p \in Ids : Leave(p)
    <3>1. UNCHANGED <<client, previous, target, leftover, drawn>>
      BY <2>3 DEF Tick, LateReady, ReceiveState, TogglePause, vars, Leave,
                  session, match
    <3> QED
      BY <3>1 DEF DrawnFromStates, client, Path
  <2> QED
    BY <2>1, <2>2, <2>3 DEF Next
<1> QED
  BY <1>1, <1>2, InvHolds, PTL DEF Spec

\* NoShipJumps: a ship goes on from where it was being drawn to.  The desktop
\* in PvP is left out: there a ship may jump to where a seat's old bytes say.
THEOREM ShipsDoNotJump ==
  ASSUME "desktop_pvp" \notin Views
  PROVE  Spec => NoShipJumps
<1> DEFINE GoesOn ==
             \A p \in DOMAIN drawn.ships \cap DOMAIN drawn'.ships :
               drawn'.ships[p] # drawn.ships[p]
                 => drawn'.ships[p].from = drawn.ships[p].to
<1>1. DrawnFromStates /\ [Next]_vars => [GoesOn]_vars
  <2> SUFFICES ASSUME DrawnFromStates, Next PROVE GoesOn
    OBVIOUS
  <2>1. CASE Step
    <3>1. /\ drawn' = [at |-> target'.at,
                       ships |-> [p \in target'.players |->
                                    Path(previous', target', p)],
                       stray |-> FALSE]
          /\ \/ UNCHANGED <<previous, target>>
             \/ previous' = target /\ target' # Blank
      BY <2>1, StepDraws
    <3>2. CASE drawn.at = 0
      BY <3>2 DEF DrawnFromStates
    <3>3. CASE drawn.at # 0
      <4>1. /\ DOMAIN drawn.ships = target.players
            /\ \A p \in target.players :
                 drawn.ships[p] = Path(previous, target, p)
        BY <3>3 DEF DrawnFromStates
      <4>2. /\ DOMAIN drawn'.ships = target'.players
            /\ \A p \in target'.players :
                 drawn'.ships[p] = Path(previous', target', p)
        BY <3>1
      <4>3. CASE UNCHANGED <<previous, target>>
        BY <4>1, <4>2, <4>3
      <4>4. CASE previous' = target
        <5>1. ASSUME NEW p \in target.players \cap target'.players
              PROVE  drawn'.ships[p].from = drawn.ships[p].to
          <6>1. drawn'.ships[p] = Path(target, target', p)
            BY <4>2, <4>4, <5>1
          <6>2. drawn.ships[p] = Path(previous, target, p)
            BY <4>1, <5>1
          <6>3. Path(target, target', p).from = target.at
            BY <5>1 DEF Path
          <6>4. Path(previous, target, p).to = target.at
            BY DEF Path
          <6> QED
            BY <6>1, <6>2, <6>3, <6>4
        <5> QED
          BY <4>1, <4>2, <5>1
      <4> QED
        BY <3>1, <4>3, <4>4
    <3> QED
      BY <3>2, <3>3
  <2>2. CASE ReceiveStart
    BY <2>2 DEF ReceiveStart, match
  <2>3. CASE \/ Tick \/ LateReady \/ ReceiveState \/ TogglePause
             \/ \E p \in Ids : Leave(p)
    BY <2>3 DEF Tick, LateReady, ReceiveState, TogglePause, Leave, match
  <2> QED
    BY <2>1, <2>2, <2>3 DEF Next
<1> QED
  BY <1>1, DrawnHolds, PTL DEF Spec, NoShipJumps

\* ShipsFollowTheStates: what the roadmap says of ids and empty seats is so
\* everywhere but on the desktop in PvP.
THEOREM ShipsFollow ==
  ASSUME "desktop_pvp" \notin Views
  PROVE  Spec => []ShipsFollowTheStates
<1>1. DrawnFromStates => ShipsFollowTheStates
  BY DEF DrawnFromStates, ShipsFollowTheStates, Path
<1> QED
  BY <1>1, DrawnHolds, PTL
=============================================================================
