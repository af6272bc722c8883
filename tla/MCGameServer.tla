---------------------------- MODULE MCGameServer ----------------------------
(* Finite instances of GameServer for TLC. *)
EXTENDS ServerKeepsPromise, TLC

\* Any permutation of the sockets maps a behaviour to a behaviour.
SocketSymmetry == Permutations(Sockets)

TeamKinds == {PvP(2, 2), Coop}

MixedKinds == {Coop, PvP(2, 1)}
=============================================================================
