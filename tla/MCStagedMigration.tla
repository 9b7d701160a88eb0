------------------------- MODULE MCStagedMigration --------------------------
(* Small instances of StagedMigration for TLC. *)
EXTENDS StagedMigration, TLC

CONSTANTS c1, t1, f1, f2, a, b
=============================================================================
