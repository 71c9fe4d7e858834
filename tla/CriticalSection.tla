--------------------------- MODULE CriticalSection ---------------------------
(***************************************************************************)
(* What a critical section promises: at most one process is inside, and it *)
(* leaves before another one enters.                                       *)
(***************************************************************************)
CONSTANT Procs
VARIABLE inside

Init == inside = {}

Enter(p) == inside = {} /\ inside' = {p}

Leave(p) == inside = {p} /\ inside' = {}

Next == \E p \in Procs : Enter(p) \/ Leave(p)

Spec == Init /\ [][Next]_inside
==============================================================================
