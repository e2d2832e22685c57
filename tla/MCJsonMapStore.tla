--------------------------- MODULE MCJsonMapStore ---------------------------
(* Instances of JsonMapStore for TLC. *)
EXTENDS JsonMapStore

CONSTANTS h1, h2, operator

(* Every process is a request of one Server. *)
MCOneHandle == [p \in Procs |-> h1]

(* The operator's command has its own handle on the same document. *)
MCTwoHandles == [p \in Procs |-> IF p = operator THEN h2 ELSE h1]
=============================================================================
