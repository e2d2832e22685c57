---------------------------- MODULE JsonMapStore ----------------------------
(***************************************************************************)
(* src/mapstore.go: a map[string]V kept as one JSON document under one key *)
(* of the SecretStore.  mutate locks the mutex of its jsonMapStore value,  *)
(* loads the document, runs a closure on the copy and saves the whole copy *)
(* if the closure changed it.  The mutex belongs to the jsonMapStore VALUE *)
(* (a handle here); the document belongs to the store, and several handles *)
(* may name the same document: Pairing.RemovePrincipal makes its own       *)
(* refresh and session stores, and a command line makes its own Pairing.   *)
(***************************************************************************)
EXTENDS StoredMap

CONSTANTS
    Procs,          \* the goroutines and commands that use the document
    Handles,        \* the jsonMapStore values, each with its own mutex
    HandleOf,       \* HandleOf[p]: the handle that p goes through
    Nobody          \* owner of a free mutex

ASSUME HandlesAssumption == /\ HandleOf \in [Procs -> Handles]
                            /\ Nobody \notin Procs

(* All of Procs share one jsonMapStore value, as the requests of one       *)
(* Server do for clients, refresh tokens and sessions.                     *)
OneHandle == \A p, q \in Procs : HandleOf[p] = HandleOf[q]

VARIABLES
    doc,            \* the document in the SecretStore
    mu,             \* mu[h]: who holds the mutex of handle h
    pc,             \* pc[p]: where p is in get or mutate
    op,             \* op[p]: the operation p runs
    copy,           \* copy[p]: the map p unmarshalled
    answer          \* answer[p]: what p's last operation returned

vars == <<doc, mu, pc, op, copy, answer>>

Init ==
    /\ doc = EmptyMap
    /\ mu = [h \in Handles |-> Nobody]
    /\ pc = [p \in Procs |-> "idle"]
    /\ op = [p \in Procs |-> NoOp]
    /\ copy = [p \in Procs |-> EmptyMap]
    /\ answer = [p \in Procs |-> Ok]

(* p calls get or mutate. *)
Call(p) ==
    /\ pc[p] = "idle"
    /\ pc' = [pc EXCEPT ![p] = "lock"]
    /\ \E o \in Ops : op' = [op EXCEPT ![p] = o]
    /\ answer' = [answer EXCEPT ![p] = Ok]
    /\ UNCHANGED <<doc, mu, copy>>

(* Mutation of Lock: the mutex is taken only for reading the document. *)
LockIsFree(p) ==
    /\ pc[p] = "lock"
    /\ mu' = [mu EXCEPT ![HandleOf[p]] = p]
    /\ pc' = [pc EXCEPT ![p] = "load"]
    /\ UNCHANGED <<doc, op, copy, answer>>

(* s.mu.Lock() *)
Lock(p) ==
    /\ pc[p] = "lock"
    /\ mu[HandleOf[p]] = Nobody
    /\ mu' = [mu EXCEPT ![HandleOf[p]] = p]
    /\ pc' = [pc EXCEPT ![p] = "load"]
    /\ UNCHANGED <<doc, op, copy, answer>>

(* store.Get and json.Unmarshal succeed. *)
Load(p) ==
    /\ pc[p] = "load"
    /\ copy' = [copy EXCEPT ![p] = doc]
    /\ pc' = [pc EXCEPT ![p] = "modify"]
    /\ UNCHANGED <<doc, mu, op, answer>>

(* Returning with answer a runs the deferred Unlock and drops the copy. *)
ReturnWith(p, a) ==
    /\ mu' = [mu EXCEPT ![HandleOf[p]] = Nobody]
    /\ pc' = [pc EXCEPT ![p] = "idle"]
    /\ op' = [op EXCEPT ![p] = NoOp]
    /\ copy' = [copy EXCEPT ![p] = EmptyMap]
    /\ answer' = [answer EXCEPT ![p] = a]

(* store.Get or json.Unmarshal fails. *)
LoadFails(p) ==
    /\ pc[p] = "load"
    /\ ReturnWith(p, Failed)
    /\ UNCHANGED doc

(* Mutation of LeaveUnsaved: a changed map is dropped, and its caller told *)
(* that the change was made.                                               *)
LeaveAnyUnsaved(p) ==
    /\ pc[p] = "modify"
    /\ ReturnWith(p, Answer(op[p], copy[p]))
    /\ UNCHANGED doc

(* get returns, or the closure reports that it changed nothing. *)
LeaveUnsaved(p) ==
    /\ pc[p] = "modify"
    /\ ~Changed(op[p], copy[p])
    /\ ReturnWith(p, Answer(op[p], copy[p]))
    /\ UNCHANGED doc

(* Mutation of Save: a path of mutate that forgets the deferred Unlock. *)
SaveStillLocked(p) ==
    /\ pc[p] = "modify"
    /\ Changed(op[p], copy[p])
    /\ doc' = Apply(op[p], copy[p])
    /\ pc' = [pc EXCEPT ![p] = "idle"]
    /\ op' = [op EXCEPT ![p] = NoOp]
    /\ copy' = [copy EXCEPT ![p] = EmptyMap]
    /\ answer' = [answer EXCEPT ![p] = Answer(op[p], copy[p])]
    /\ UNCHANGED mu

(* The changed copy replaces the document. *)
Save(p) ==
    /\ pc[p] = "modify"
    /\ Changed(op[p], copy[p])
    /\ doc' = Apply(op[p], copy[p])
    /\ ReturnWith(p, Answer(op[p], copy[p]))

(* store.Set fails: the document keeps its old content. *)
SaveFails(p) ==
    /\ pc[p] = "modify"
    /\ Changed(op[p], copy[p])
    /\ ReturnWith(p, Failed)
    /\ UNCHANGED doc

Next ==
    \E p \in Procs :
        \/ Call(p)
        \/ Lock(p)
        \/ Load(p)
        \/ LoadFails(p)
        \/ LeaveUnsaved(p)
        \/ Save(p)
        \/ SaveFails(p)

Spec == Init /\ [][Next]_vars

(***************************************************************************)
(* A SecretStore call returns, so a process that holds the mutex goes on   *)
(* (weak fairness).  sync.Mutex is starvation-free: a waiter that finds it *)
(* free again and again gets it (strong fairness of Lock).                 *)
(***************************************************************************)
Fairness ==
    \A p \in Procs :
        /\ SF_vars(Lock(p))
        /\ WF_vars(Load(p) \/ LoadFails(p))
        /\ WF_vars(LeaveUnsaved(p) \/ Save(p) \/ SaveFails(p))

FairSpec == Spec /\ Fairness

-----------------------------------------------------------------------------
PcValues == {"idle", "lock", "load", "modify"}

(* Types of the variables. *)
TypeOK ==
    /\ doc \in Maps
    /\ mu \in [Handles -> Procs \cup {Nobody}]
    /\ pc \in [Procs -> PcValues]
    /\ op \in [Procs -> Ops \cup {NoOp}]
    /\ copy \in [Procs -> Maps]
    /\ answer \in [Procs -> Answers]

Inside(p) == pc[p] \in {"load", "modify"}

(* A process between Lock and Unlock owns the mutex of its handle. *)
LockHeld == \A p \in Procs : Inside(p) => mu[HandleOf[p]] = p

(* A copy about to be modified still equals the document.  mutate's        *)
(* correctness rests on this: it saves the whole copy.                     *)
CopyIsCurrent == \A p \in Procs : pc[p] = "modify" => copy[p] = doc

Inv == TypeOK /\ LockHeld /\ CopyIsCurrent

(***************************************************************************)
(* "the atomic read-modify-write both registries are built on"             *)
(* (src/mapstore.go:31): whatever is saved is the closure's effect on the  *)
(* document that is stored at that moment.                                 *)
(***************************************************************************)
ReadModifyWriteIsAtomic ==
    [][\A p \in Procs : Save(p) => doc' = Apply(op[p], doc)]_vars

Atomic == INSTANCE AtomicMap WITH map <- doc

(* Through one handle the store is an atomic map whose content is the      *)
(* document: mutate performs its operation when it saves, or when it finds *)
(* nothing to save; the steps before that are invisible.                   *)
ImplementsAtomicMap == Atomic!Spec

(* ... in which every call is eventually answered. *)
CallsAreAnswered == Atomic!FairSpec
=============================================================================
