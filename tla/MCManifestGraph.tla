--------------------------- MODULE MCManifestGraph --------------------------
(* Small instances of ManifestGraph for TLC. *)
EXTENDS ManifestGraph, TLC

CONSTANTS p1, p2, x, y, z

\* Neither processes nor components are ordered or told apart.
Symmetry == Permutations(Procs) \union Permutations(Comps)
=============================================================================
