-------------------------- MODULE MCOperationStore --------------------------
(* The history of one task and its saved points: each transaction appends an *)
(* event, t2 a point as well; both offer a selected success.                 *)
EXTENDS OperationStoreProperties

CONSTANTS p1, p2, p3, history, points, t1, t2

WritesOf == [t \in Txs |-> IF t = t2 THEN {history, points} ELSE {history}]
=============================================================================
