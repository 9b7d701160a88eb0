-------------------------- MODULE VersionedHistory --------------------------
(***************************************************************************)
(* What the commit of a component promises, without files, journal or      *)
(* processes: a history that only grows, in which an operation stands at   *)
(* most once, and acknowledgements only of operations that stand in it.    *)
(***************************************************************************)
EXTENDS Naturals, Sequences

CONSTANT Ids   \* what an operation is known by; 0 is the component's creation

VARIABLES history, acked

vars == <<history, acked>>

InHistory(id) == \E i \in 1..Len(history) : history[i] = id

Init == history = <<0>> /\ acked = {}

Record(id) ==
    /\ ~ InHistory(id)
    /\ history' = Append(history, id)
    /\ UNCHANGED acked

Acknowledge(id) ==
    /\ InHistory(id)
    /\ acked' = acked \union {id}
    /\ UNCHANGED history

Next == \E id \in Ids : Record(id) \/ Acknowledge(id)

Spec == Init /\ [][Next]_vars
=============================================================================
