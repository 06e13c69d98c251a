--------------------------- MODULE MCNodeRegistry ---------------------------
(* Machines and connections are interchangeable. *)
EXTENDS NodeRegistry, TLC

Symmetry == Permutations(Machines) \cup Permutations(Conns)
=============================================================================
