---------------------------- MODULE InputPipeline ----------------------------
(***************************************************************************)
(* The way of a key from one machine's keyboard to the simulation of an    *)
(* online match: the client samples the keys at every fixed step of the    *)
(* playing screen and sends them (PLAYER_INPUT), the server keeps what it  *)
(* read in the pending fields of the seat, and the timer hands one input   *)
(* per tick to the simulation.  Client and server run at their own pace    *)
(* and the connection delivers in order, with any delay.                   *)
(*                                                                         *)
(* Both clients are meant: they sample alike, and the focus a browser tab  *)
(* loses releases its keys as a user does.  What the simulation makes of   *)
(* its inputs is in PvPSim and CoopSim.                                    *)
(***************************************************************************)
EXTENDS Integers, Sequences, FiniteSets

CONSTANTS
  Players,      \* this machine's players
  Moves,        \* BUTTON_LEFT, BUTTON_RIGHT
  SHOOT,        \* BUTTON_SHOOT
  ShotModulus,  \* values of pending_shots, a uint8_t: 256
  MaxInFlight,  \* bound on the frames on their way
  MaxOwed       \* bound on the presses not yet spent

ASSUME PipelineAssumption ==
  /\ SHOOT \notin Moves
  /\ ShotModulus \in Nat \ {0, 1}
  /\ MaxInFlight \in Nat \ {0}
  /\ MaxOwed \in Nat \ {0}

VARIABLES
  keys,    \* the buttons each player holds
  screen,  \* PLAYING or PAUSED
  sampled, \* the buttons of the last frame sent
  up,      \* PLAYER_INPUT frames on their way
  seats,   \* the pending fields of each player's PlayerConnection
  inputs,  \* inputs_ of the last tick
  owed,    \* presses sampled less SHOOTs handed to the simulation; -1 says
           \* that there was a SHOOT too many
  lost     \* presses that went when pending_shots wrapped

vars == <<keys, screen, sampled, up, seats, inputs, owed, lost>>

Buttons == Moves \cup {SHOOT}
Frame == [Players -> SUBSET Buttons]
Nothing == [p \in Players |-> {}]

Seat == [prev_shoot_held : BOOLEAN, pending_shots : 0 .. ShotModulus - 1,
         pending_movement : SUBSET Moves]

-----------------------------------------------------------------------------
(* The server's part. *)

\* pending_shots++ in eight bits: (n + 1) % ShotModulus.
OneMore(n) == IF n + 1 = ShotModulus THEN 0 ELSE n + 1

\* Faulty: every frame that holds SHOOT counts.
HoldsShoot(seat, buttons) == SHOOT \in buttons

\* A press is a SHOOT that the frame before did not hold.
IsNewShot(seat, buttons) == SHOOT \in buttons /\ ~seat.prev_shoot_held

\* Faulty: movement is added to and never taken away.
MovedBy(seat, buttons) == seat.pending_movement \cup (buttons \cap Moves)

Movement(seat, buttons) == buttons \cap Moves

\* The PLAYER_INPUT case for one player.
ReadInput(seat, buttons) ==
  [prev_shoot_held |-> SHOOT \in buttons,
   pending_shots |-> IF IsNewShot(seat, buttons)
                     THEN OneMore(seat.pending_shots)
                     ELSE seat.pending_shots,
   pending_movement |-> Movement(seat, buttons)]

HasShot(seat) == seat.pending_shots > 0

\* getPlayerInput: the buttons of this tick, and the seat with one press less.
InputOf(seat) ==
  seat.pending_movement \cup (IF HasShot(seat) THEN {SHOOT} ELSE {})

\* Faulty: the press stays in the seat.
KeepPress(seat) == seat

SpendPress(seat) ==
  IF HasShot(seat) THEN [seat EXCEPT !.pending_shots = @ - 1] ELSE seat

-----------------------------------------------------------------------------
(* Actions. *)

Init ==
  /\ keys = Nothing
  /\ screen = "PLAYING"
  /\ sampled = Nothing
  /\ up = <<>>
  /\ seats = [p \in Players |-> [prev_shoot_held |-> FALSE,
                                 pending_shots |-> 0, pending_movement |-> {}]]
  /\ inputs = Nothing
  /\ owed = [p \in Players |-> 0]
  /\ lost = [p \in Players |-> 0]

\* A player changes what it holds.  MaxOwed bounds its presses.
Keyboard(p, buttons) ==
  /\ SHOOT \in buttons => SHOOT \in keys[p] \/ owed[p] < MaxOwed
  /\ keys' = [keys EXCEPT ![p] = buttons]
  /\ UNCHANGED <<screen, sampled, up, seats, inputs, owed, lost>>

\* ESC, on both screens.
TogglePause ==
  /\ screen' = IF screen = "PLAYING" THEN "PAUSED" ELSE "PLAYING"
  /\ UNCHANGED <<keys, sampled, up, seats, inputs, owed, lost>>

IsPress(p) == SHOOT \in keys[p] /\ SHOOT \notin sampled[p]

\* A fixed step of the playing screen polls the keys and sends them.  The
\* paused screen does neither.
Step ==
  /\ screen = "PLAYING"
  /\ Len(up) < MaxInFlight
  /\ sampled' = keys
  /\ up' = Append(up, keys)
  /\ owed' = [p \in Players |-> IF IsPress(p) THEN owed[p] + 1 ELSE owed[p]]
  /\ UNCHANGED <<keys, screen, seats, inputs, lost>>

\* .message with the oldest frame, in the order of its players.
Message ==
  /\ up # <<>>
  /\ seats' = [p \in Players |-> ReadInput(seats[p], Head(up)[p])]
  /\ up' = Tail(up)
  /\ lost' = [p \in Players |->
                IF seats'[p].pending_shots < seats[p].pending_shots
                THEN lost[p] + ShotModulus ELSE lost[p]]
  /\ UNCHANGED <<keys, screen, sampled, inputs, owed>>

\* update of the game: one input per seat goes to the simulation.
Tick ==
  /\ inputs' = [p \in Players |-> InputOf(seats[p])]
  /\ seats' = [p \in Players |-> SpendPress(seats[p])]
  /\ owed' = [p \in Players |-> IF SHOOT \in inputs'[p] /\ owed[p] >= 0
                                THEN owed[p] - 1 ELSE owed[p]]
  /\ UNCHANGED <<keys, screen, sampled, up, lost>>

Next ==
  \/ \E p \in Players, buttons \in SUBSET Buttons : Keyboard(p, buttons)
  \/ TogglePause
  \/ Step
  \/ Message
  \/ Tick

Spec == Init /\ [][Next]_vars

\* The frame loop, the event loop and its timer go on; the user owes nothing.
FairSpec == Spec /\ WF_vars(Step) /\ WF_vars(Message) /\ WF_vars(Tick)

-----------------------------------------------------------------------------
(* Properties. *)

\* The type invariant.
TypeOK ==
  /\ keys \in Frame
  /\ screen \in {"PLAYING", "PAUSED"}
  /\ sampled \in Frame
  /\ up \in Seq(Frame)
  /\ seats \in [Players -> Seat]
  /\ inputs \in Frame
  /\ owed \in [Players -> Int]
  /\ lost \in [Players -> Nat]

\* What the server knew of SHOOT just before it reads frame i.
HeldBefore(p, i) ==
  IF i = 1 THEN seats[p].prev_shoot_held ELSE SHOOT \in up[i - 1][p]

PressesInFlight(p) ==
  {i \in 1 .. Len(up) : SHOOT \in up[i][p] /\ ~HeldBefore(p, i)}

\* A press the client sampled is on its way, or pending, or was handed to the
\* simulation, and no SHOOT was handed to it that nobody pressed: across
\* pauses, with any number of frames between two ticks and ticks between two
\* frames.  Presses get lost only by the wrap of the eight-bit counter, as
\* many as it counts at a time.
EveryPressIsCounted ==
  \A p \in Players :
    owed[p] = seats[p].pending_shots + Cardinality(PressesInFlight(p))
                + lost[p]

\* A ship ends up moving as its player's keys say, when those stay as they
\* are and the game is not paused, whatever was pressed before.
ShipFollowsTheKeys ==
  \A p \in Players, move \in SUBSET Moves :
    <>[](screen = "PLAYING" /\ keys[p] \cap Moves = move)
      => <>[](inputs[p] \cap Moves = move)

\* game.h: "held-down fire only counts as one shot per press rather than one
\* per message".  A player that goes on holding SHOOT, or goes on not holding
\* it, does not fire for ever, paused or not.
HeldFireFallsSilent ==
  \A p \in Players :
    (<>[](SHOOT \notin keys[p]) \/ <>[](SHOOT \in keys[p]))
      => <>[](SHOOT \notin inputs[p])
=============================================================================
