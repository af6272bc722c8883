----------------------------- MODULE MCCoopSim ------------------------------
(* Finite instances of CoopSim for TLC. *)
EXTENDS CoopSim, TLC

PlayerSymmetry == Permutations(Players)
=============================================================================
