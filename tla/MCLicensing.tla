---------------------------- MODULE MCLicensing ----------------------------
(* Small instances of Licensing for TLC. *)
EXTENDS Licensing, TLC

CONSTANTS p, q, a, b, c, d

\* No process and no project is distinguished, and only safety is checked.
MCSymmetry == Permutations(Procs) \union Permutations(Projects)
=============================================================================
