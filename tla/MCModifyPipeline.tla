-------------------------- MODULE MCModifyPipeline --------------------------
(* A small instance of ModifyPipeline for TLC: a content with weaker tests   *)
(* that are flaky, one the security gate blocks, and one that fails both the *)
(* gate and its tests.                                                       *)
EXTENDS ModifyPipeline

CONSTANTS t1, start, weak, unsafe, broken

MCContents == {start, weak, unsafe, broken}
MCTests == [c \in MCContents |-> IF c = weak THEN 0 ELSE 1]
MCFlaws == [c \in MCContents |-> CASE c = start  -> {}
                                   [] c = weak   -> {"flaky"}
                                   [] c = unsafe -> {"unsafe"}
                                   [] c = broken -> {"unsafe", "failing"}]
=============================================================================
