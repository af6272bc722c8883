------------------------------ MODULE MCPvPSim ------------------------------
(* A finite instance of PvPSim for TLC. *)
EXTENDS PvPSim, TLC

CONSTANTS a1, a2, b1

\* A full team against one whose second player never came or has left.
Trio == {a1, a2, b1}
TwoOnOne == (a1 :> 1) @@ (a2 :> 1) @@ (b1 :> 2)
=============================================================================
