--------------------------- MODULE MCConfigRollout ---------------------------
(* Two nodes, two edits, four seconds. *)
EXTENDS ConfigRollout, TLC

CONSTANTS n1, n2

\* No definition tells one node from another.
NodeSymmetry == Permutations(Nodes)
=============================================================================
