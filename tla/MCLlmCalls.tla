----------------------------- MODULE MCLlmCalls -----------------------------
(* A small instance of LlmCalls for TLC: two processes, and two providers of  *)
(* which one has models of one price and the other a cheaper small model.     *)
EXTENDS LlmCalls

CONSTANTS a, b, cheap, dear

MCPrice ==
    [q \in Providers |-> [t \in Tiers |-> IF q = cheap /\ t = "low" THEN 1 ELSE 2]]
=============================================================================
