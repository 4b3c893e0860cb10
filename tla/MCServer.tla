------------------------------ MODULE MCServer ------------------------------
(* Values of the constants of module Server that a .cfg cannot write.      *)
EXTENDS Seats, TLC

MCSockets == {4, 5, 6}

\* Two clients at a time: a third connection is one that comes back.
TwoSockets == {4, 5}

Symmetry == Permutations(Objects) \cup Permutations(GameIds) \cup Permutations(Names)
=============================================================================
