---------------------------- MODULE MCTaskWriter ----------------------------
(* Callers p1 and p2 of one task and p3 of another task of the same request. *)
EXTENDS TaskWriterProperties, TLC

CONSTANTS p1, p2, p3, tA, tB

Callers == [p \in Procs |-> IF p = p3 THEN tB ELSE tA]

(* tA: groups of two generations, checkpoints; tB: no groups, policy "off". *)
Interval == [t \in Tasks |-> IF t = tA THEN 2 ELSE 1]
Policy   == [t \in Tasks |-> t = tA]

SameTask == Permutations({p1, p2})
=============================================================================
