---------------------------- MODULE MCConfigStore ---------------------------
(* Small instances of ConfigStore for TLC. *)
EXTENDS ConfigStore, TLC

CONSTANTS a, b, c
=============================================================================
