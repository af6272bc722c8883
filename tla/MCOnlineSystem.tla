--------------------------- MODULE MCOnlineSystem ---------------------------
(* Finite instances of OnlineSystem, without symmetry: for liveness. *)
EXTENDS OnlineSystem

SmallKinds == {PvP(2, 1), PvP(1, 2)}

TeamKinds == {PvP(2, 2)}
=============================================================================
