------------------------------ MODULE AtomicMap ------------------------------
(***************************************************************************)
(* What the registries promise their callers: a map on which every         *)
(* operation happens at one instant between its call and its return, or    *)
(* fails and leaves the map alone.                                         *)
(***************************************************************************)
EXTENDS StoredMap

CONSTANT Procs      \* the goroutines and commands that call the map

VARIABLES
    map,            \* the map
    op,             \* op[p]: the operation p has called, or NoOp
    answer          \* answer[p]: what p's last operation returned

vars == <<map, op, answer>>

Init ==
    /\ map = EmptyMap
    /\ op = [p \in Procs |-> NoOp]
    /\ answer = [p \in Procs |-> Ok]

Call(p) ==
    /\ op[p] = NoOp
    /\ \E o \in Ops : op' = [op EXCEPT ![p] = o]
    /\ answer' = [answer EXCEPT ![p] = Ok]
    /\ UNCHANGED map

(* The operation happens, and p has its answer. *)
Perform(p) ==
    /\ op[p] # NoOp
    /\ map' = Apply(op[p], map)
    /\ answer' = [answer EXCEPT ![p] = Answer(op[p], map)]
    /\ op' = [op EXCEPT ![p] = NoOp]

Fail(p) ==
    /\ op[p] # NoOp
    /\ answer' = [answer EXCEPT ![p] = Failed]
    /\ op' = [op EXCEPT ![p] = NoOp]
    /\ UNCHANGED map

Next == \E p \in Procs : Call(p) \/ Perform(p) \/ Fail(p)

Spec == Init /\ [][Next]_vars

(* Every call is answered. *)
FairSpec == Spec /\ \A p \in Procs : WF_vars(Perform(p) \/ Fail(p))
=============================================================================
