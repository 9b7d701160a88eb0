--------------------------- MODULE MCCommitProtocol -------------------------
(* Small instances of CommitProtocol for TLC. *)
EXTENDS CommitProtocol, TLC

CONSTANTS c1, c2, t1, t2, f1, f2, a, b
=============================================================================
