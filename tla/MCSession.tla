------------------------------ MODULE MCSession ------------------------------
(* Values of the constants of module Session that a .cfg cannot write.     *)
EXTENDS SessionProperties, TLC

TwoSockets == {4, 5}

\* srv.sent holds the notices of the last step, and no step depends on it.
View == <<[srv EXCEPT !.sent = {}], read_fds, phase, wires>>

Symmetry == Permutations(Objects) \cup Permutations(GameIds) \cup Permutations(Names)
=============================================================================
