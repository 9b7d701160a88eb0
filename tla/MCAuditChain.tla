---------------------------- MODULE MCAuditChain ----------------------------
(* Small instances of AuditChain for TLC. *)
EXTENDS AuditChain, TLC

CONSTANTS a, b, c

MCSymmetry == Permutations(Procs)
=============================================================================
