------------------------- MODULE JsonMapStoreProofs -------------------------
(***************************************************************************)
(* Proofs about JsonMapStore, for any set of processes, keys and owners.   *)
(* The inductive invariant is Inv.  Types need no assumption beyond the    *)
(* module's; that a copy is current needs OneHandle (the two-handle run    *)
(* refutes it otherwise), and from it follow the atomicity of every save   *)
(* and the refinement of AtomicMap.                                        *)
(***************************************************************************)
EXTENDS JsonMapStore, TLAPS

(* The closures keep a map a map. *)
LEMMA ApplyType ==
    ASSUME NEW o \in Ops, NEW m \in Maps
    PROVE  Apply(o, m) \in Maps
<1>1. CASE o \in [kind : {"put", "update"}, key : Keys, val : Vals]
    <2>1. o.kind \in {"put", "update"} /\ o.key \in Keys /\ o.val \in Vals
        BY <1>1
    <2>2. [m EXCEPT ![o.key] = o.val] \in Maps
        BY <2>1 DEF Maps
    <2> QED BY <2>1, <2>2 DEF Apply
<1>2. CASE o \in [kind : {"take", "get"}, key : Keys]
    <2>1. o.kind \in {"take", "get"} /\ o.key \in Keys
        BY <1>2
    <2>2. [m EXCEPT ![o.key] = Absent] \in Maps
        BY <2>1 DEF Maps
    <2> QED BY <2>1, <2>2 DEF Apply
<1>3. CASE o \in [kind : {"purge"}, val : Vals]
    <2>1. o.kind = "purge" /\ o.val \in Vals
        BY <1>3
    <2>2. [k \in Keys |-> IF m[k] = o.val THEN Absent ELSE m[k]] \in Maps
        BY DEF Maps
    <2> QED BY <2>1, <2>2 DEF Apply
<1> QED BY <1>1, <1>2, <1>3 DEF Ops

(* A closure that reports no change leaves the map it was given as it was, *)
(* so mutate loses nothing by not saving it.                               *)
LEMMA UnchangedApply ==
    ASSUME NEW o \in Ops, NEW m \in Maps, ~Changed(o, m)
    PROVE  Apply(o, m) = m
<1>1. CASE o \in [kind : {"put", "update"}, key : Keys, val : Vals]
    <2>1. o.kind = "update" /\ m[o.key] = Absent
        BY <1>1 DEF Changed
    <2> QED BY <2>1 DEF Apply
<1>2. CASE o \in [kind : {"take", "get"}, key : Keys]
    <2>1. CASE o.kind = "take"
        <3>1. o.key \in Keys /\ m[o.key] = Absent
            BY <1>2, <2>1 DEF Changed
        <3>2. [m EXCEPT ![o.key] = Absent] = m
            BY <3>1 DEF Maps
        <3> QED BY <2>1, <3>2 DEF Apply
    <2>2. CASE o.kind = "get"
        BY <2>2 DEF Apply
    <2> QED BY <1>2, <2>1, <2>2
<1>3. CASE o \in [kind : {"purge"}, val : Vals]
    <2>1. o.kind = "purge" /\ \A k \in Keys : m[k] # o.val
        BY <1>3 DEF Changed
    <2>2. [k \in Keys |-> IF m[k] = o.val THEN Absent ELSE m[k]] = m
        BY <2>1 DEF Maps
    <2> QED BY <2>1, <2>2 DEF Apply
<1> QED BY <1>1, <1>2, <1>3 DEF Ops

(* What an operation answers is an entry, "absent" or Ok. *)
LEMMA AnswerType ==
    ASSUME NEW o \in Ops, NEW m \in Maps
    PROVE  Answer(o, m) \in Answers
<1>1. CASE o.kind \in {"get", "take", "update"}
    <2>1. o.key \in Keys
        BY <1>1 DEF Ops
    <2>2. m[o.key] \in Vals \cup {Absent}
        BY <2>1 DEF Maps
    <2> QED BY <1>1, <2>2 DEF Answer, Answers
<1>2. CASE ~(o.kind \in {"get", "take", "update"})
    BY <1>2 DEF Answer, Answers
<1> QED BY <1>1, <1>2

(* NoOp is not an operation: a process with an operation is in get or      *)
(* mutate.                                                                 *)
LEMMA NoOpIsNoOperation == NoOp \notin Ops
<1>1. NoOp.kind = "none"
    BY DEF NoOp
<1>2. \A o \in Ops : o.kind # "none"
    BY DEF Ops
<1> QED BY <1>1, <1>2
-----------------------------------------------------------------------------
(* A process has an operation exactly while it is in get or mutate. *)
Busy == \A p \in Procs : pc[p] # "idle" <=> op[p] \in Ops

LEMMA InitType == Init => TypeOK /\ Busy
<1>1. EmptyMap \in Maps
    BY DEF EmptyMap, Maps
<1>2. Ok \in Answers
    BY DEF Answers
<1> QED BY <1>1, <1>2, NoOpIsNoOperation DEF Init, TypeOK, Busy, PcValues

LEMMA NextType == TypeOK /\ Busy /\ [Next]_vars => TypeOK' /\ Busy'
<1> SUFFICES ASSUME TypeOK, Busy, [Next]_vars
             PROVE  TypeOK' /\ Busy'
    OBVIOUS
<1>e. EmptyMap \in Maps
    BY DEF EmptyMap, Maps
<1>a. Ok \in Answers /\ Failed \in Answers
    BY DEF Answers
<1> USE HandlesAssumption, NoOpIsNoOperation DEF TypeOK, Busy, PcValues
<1>r. ASSUME NEW p \in Procs, NEW a \in Answers, ReturnWith(p, a), doc' \in Maps
      PROVE  TypeOK' /\ Busy'
    BY <1>r, <1>e DEF ReturnWith
<1>1. ASSUME NEW p \in Procs, Call(p)
      PROVE  TypeOK' /\ Busy'
    BY <1>1, <1>a DEF Call
<1>2. ASSUME NEW p \in Procs, Lock(p)
      PROVE  TypeOK' /\ Busy'
    BY <1>2 DEF Lock
<1>3. ASSUME NEW p \in Procs, Load(p)
      PROVE  TypeOK' /\ Busy'
    BY <1>3 DEF Load
<1>4. ASSUME NEW p \in Procs, LoadFails(p)
      PROVE  TypeOK' /\ Busy'
    BY <1>4, <1>r, <1>a DEF LoadFails
<1>5. ASSUME NEW p \in Procs, LeaveUnsaved(p)
      PROVE  TypeOK' /\ Busy'
    <2>1. op[p] \in Ops /\ copy[p] \in Maps
        BY <1>5 DEF LeaveUnsaved
    <2>2. Answer(op[p], copy[p]) \in Answers
        BY <2>1, AnswerType
    <2> QED BY <1>5, <1>r, <2>2 DEF LeaveUnsaved
<1>6. ASSUME NEW p \in Procs, Save(p)
      PROVE  TypeOK' /\ Busy'
    <2>1. op[p] \in Ops /\ copy[p] \in Maps
        BY <1>6 DEF Save
    <2>2. Answer(op[p], copy[p]) \in Answers /\ Apply(op[p], copy[p]) \in Maps
        BY <2>1, AnswerType, ApplyType
    <2> QED BY <1>6, <1>r, <2>2 DEF Save
<1>7. ASSUME NEW p \in Procs, SaveFails(p)
      PROVE  TypeOK' /\ Busy'
    BY <1>7, <1>r, <1>a DEF SaveFails
<1>8. CASE UNCHANGED vars
    BY <1>8 DEF vars
<1> QED BY <1>1, <1>2, <1>3, <1>4, <1>5, <1>6, <1>7, <1>8 DEF Next

(* Type correctness of the document store, whatever handles are used. *)
THEOREM TypeCorrect == Spec => []TypeOK
<1>1. Init => TypeOK /\ Busy
    BY InitType
<1>2. TypeOK /\ Busy /\ [Next]_vars => TypeOK' /\ Busy'
    BY NextType
<1> QED BY <1>1, <1>2, PTL DEF Spec
-----------------------------------------------------------------------------
(* With one mutex at most one process is between Lock and Unlock. *)
LEMMA OneInside ==
    ASSUME OneHandle, LockHeld, TypeOK,
           NEW p \in Procs, NEW q \in Procs, Inside(p), Inside(q)
    PROVE  p = q
BY DEF OneHandle, LockHeld

LEMMA InitInv == Init => Inv
<1> SUFFICES ASSUME Init PROVE Inv
    OBVIOUS
<1>1. TypeOK
    BY InitType
<1>2. LockHeld /\ CopyIsCurrent
    BY DEF Init, LockHeld, Inside, CopyIsCurrent
<1> QED BY <1>1, <1>2 DEF Inv

(* Each step keeps the mutex with the process inside, and the only step    *)
(* that changes the document is taken by the only process inside.          *)
LEMMA NextInv == OneHandle /\ Inv /\ Busy /\ [Next]_vars => Inv'
<1> SUFFICES ASSUME OneHandle, Inv, Busy, [Next]_vars
             PROVE  Inv'
    OBVIOUS
<1>t. TypeOK /\ LockHeld /\ CopyIsCurrent /\ TypeOK'
    BY NextType DEF Inv
<1> SUFFICES LockHeld' /\ CopyIsCurrent'
    BY <1>t DEF Inv
<1>l. ASSUME NEW p \in Procs, Inside(p), ReturnWith(p, answer'[p])
      PROVE  LockHeld'
    <2> SUFFICES ASSUME NEW q \in Procs, Inside(q)'
                 PROVE  mu'[HandleOf[q]] = q
        BY DEF LockHeld
    <2>1. q # p /\ Inside(q)
        BY <1>l, <1>t DEF ReturnWith, Inside, TypeOK
    <2> QED BY <1>l, <1>t, <2>1, OneInside
<1>c. ASSUME NEW p \in Procs, Inside(p), ReturnWith(p, answer'[p])
      PROVE  CopyIsCurrent'
    <2> SUFFICES ASSUME NEW q \in Procs, pc'[q] = "modify"
                 PROVE  copy'[q] = doc'
        BY DEF CopyIsCurrent
    <2>1. q # p /\ Inside(q)
        BY <1>c, <1>t DEF ReturnWith, Inside, TypeOK
    <2> QED BY <1>c, <1>t, <2>1, OneInside
<1>1. ASSUME NEW p \in Procs, Call(p)
      PROVE  LockHeld' /\ CopyIsCurrent'
    BY <1>1, <1>t DEF Call, LockHeld, Inside, CopyIsCurrent, TypeOK
<1>2. ASSUME NEW p \in Procs, Lock(p)
      PROVE  LockHeld' /\ CopyIsCurrent'
    <2>1. \A q \in Procs : HandleOf[q] = HandleOf[p] /\ HandleOf[p] \in Handles
        BY HandlesAssumption DEF OneHandle
    <2>2. \A q \in Procs : ~Inside(q)
        BY <1>2, <1>t, <2>1, HandlesAssumption DEF Lock, LockHeld
    <2>3. LockHeld'
        BY <1>2, <1>t, <2>1, <2>2 DEF Lock, LockHeld, Inside, TypeOK
    <2>4. CopyIsCurrent'
        BY <1>2, <1>t, <2>2 DEF Lock, CopyIsCurrent, Inside, TypeOK
    <2> QED BY <2>3, <2>4
<1>3. ASSUME NEW p \in Procs, Load(p)
      PROVE  LockHeld' /\ CopyIsCurrent'
    BY <1>3, <1>t DEF Load, LockHeld, Inside, CopyIsCurrent, TypeOK
<1>r. ASSUME NEW p \in Procs, LoadFails(p) \/ LeaveUnsaved(p) \/ Save(p) \/ SaveFails(p)
      PROVE  LockHeld' /\ CopyIsCurrent'
    <2>1. Inside(p)
        BY <1>r DEF LoadFails, LeaveUnsaved, Save, SaveFails, Inside
    <2>2. ReturnWith(p, answer'[p])
        BY <1>r, <1>t DEF LoadFails, LeaveUnsaved, Save, SaveFails, ReturnWith, TypeOK
    <2> QED BY <1>l, <1>c, <2>1, <2>2
<1>8. CASE UNCHANGED vars
    BY <1>8, <1>t DEF vars, LockHeld, Inside, CopyIsCurrent
<1> QED BY <1>1, <1>2, <1>3, <1>r, <1>8 DEF Next

(* Inv is an invariant of processes that share a handle. *)
LEMMA InvHolds == OneHandle => (Spec => [](Inv /\ Busy))
<1>1. OneHandle /\ Init => Inv /\ Busy
    BY InitInv, InitType
<1>2. OneHandle /\ Inv /\ Busy /\ [Next]_vars => Inv' /\ Busy'
    BY NextInv, NextType DEF Inv
<1>3. ASSUME OneHandle PROVE Spec => [](Inv /\ Busy)
    <2>1. Init => Inv /\ Busy
        BY <1>1, <1>3
    <2>2. Inv /\ Busy /\ [Next]_vars => Inv' /\ Busy'
        BY <1>2, <1>3
    <2> QED BY <2>1, <2>2, PTL DEF Spec
<1> QED BY <1>3

(* Among processes that share a handle, the copy a closure runs on is      *)
(* always the document that is stored at that moment.                      *)
THEOREM CopiesAreCurrent == OneHandle => (Spec => []CopyIsCurrent)
<1>1. Inv => CopyIsCurrent
    BY DEF Inv
<1> QED BY <1>1, InvHolds, PTL

(* Among processes that share a handle nothing saved is ever lost: each    *)
(* Save applies its closure to the document it replaces.                   *)
THEOREM SavesAreAtomic == OneHandle => (Spec => ReadModifyWriteIsAtomic)
<1>1. ASSUME OneHandle PROVE Spec => ReadModifyWriteIsAtomic
    <2>1. Inv /\ [Next]_vars
             => [\A p \in Procs : Save(p) => doc' = Apply(op[p], doc)]_vars
        BY DEF Inv, CopyIsCurrent, Save
    <2>2. Spec => [](Inv /\ Busy)
        BY <1>1, InvHolds
    <2> QED BY <2>1, <2>2, PTL DEF Spec, ReadModifyWriteIsAtomic
<1> QED BY <1>1

(* The initial document is the initial map. *)
LEMMA InitRefines == Init => Atomic!Init
BY DEF Init, Atomic!Init, EmptyMap, Atomic!EmptyMap, NoOp, Atomic!NoOp

(* Every step of the store is a step of the atomic map or changes none of  *)
(* its variables.                                                          *)
LEMMA NextRefines ==
    Inv /\ Busy /\ [Next]_vars => [Atomic!Next]_Atomic!vars
<1> SUFFICES ASSUME Inv, Busy, [Next]_vars
             PROVE  [Atomic!Next]_Atomic!vars
    OBVIOUS
<1>t. TypeOK /\ CopyIsCurrent
    BY DEF Inv
<1> USE DEF Atomic!vars
<1>o. /\ Atomic!NoOp = NoOp
      /\ Atomic!Ops = Ops
      /\ \A o, m : Atomic!Apply(o, m) = Apply(o, m)
      /\ \A o, m : Atomic!Answer(o, m) = Answer(o, m)
    BY DEF NoOp, Atomic!NoOp, Ops, Atomic!Ops, Apply, Atomic!Apply, Answer, Atomic!Answer
<1>1. ASSUME NEW p \in Procs, Call(p)
      PROVE  Atomic!Call(p)
    <2>1. op[p] = NoOp
        BY <1>1, <1>t DEF Call, Busy, TypeOK
    <2> QED BY <1>1, <1>o, <2>1 DEF Call, Atomic!Call
<1>2. ASSUME NEW p \in Procs, Lock(p) \/ Load(p)
      PROVE  UNCHANGED Atomic!vars
    BY <1>2 DEF Lock, Load
<1>3. ASSUME NEW p \in Procs, LoadFails(p) \/ SaveFails(p)
      PROVE  Atomic!Fail(p)
    <2>1. op[p] # NoOp
        BY <1>3, NoOpIsNoOperation DEF LoadFails, SaveFails, Busy
    <2> QED BY <1>3, <1>o, <2>1 DEF LoadFails, SaveFails, ReturnWith, Atomic!Fail
<1>4. ASSUME NEW p \in Procs, LeaveUnsaved(p)
      PROVE  Atomic!Perform(p)
    <2>1. op[p] \in Ops /\ op[p] # NoOp /\ copy[p] = doc /\ doc \in Maps
        BY <1>4, <1>t, NoOpIsNoOperation DEF LeaveUnsaved, Busy, CopyIsCurrent, TypeOK
    <2>2. Apply(op[p], doc) = doc
        BY <1>4, <2>1, UnchangedApply DEF LeaveUnsaved
    <2> QED BY <1>4, <1>o, <2>1, <2>2 DEF LeaveUnsaved, ReturnWith, Atomic!Perform
<1>5. ASSUME NEW p \in Procs, Save(p)
      PROVE  Atomic!Perform(p)
    <2>1. op[p] # NoOp /\ copy[p] = doc
        BY <1>5, <1>t, NoOpIsNoOperation DEF Save, Busy, CopyIsCurrent
    <2> QED BY <1>5, <1>o, <2>1 DEF Save, ReturnWith, Atomic!Perform
<1>8. CASE UNCHANGED vars
    BY <1>8 DEF vars
<1> QED BY <1>1, <1>2, <1>3, <1>4, <1>5, <1>8 DEF Next, Atomic!Next

(* Requests that share a handle see an atomic map: this is what lets the   *)
(* other modules take a registry operation as one step.                    *)
THEOREM StoreIsAtomicMap == OneHandle => (Spec => ImplementsAtomicMap)
<1>1. ASSUME OneHandle PROVE Spec => ImplementsAtomicMap
    <2>1. Spec => [](Inv /\ Busy)
        BY <1>1, InvHolds
    <2> QED BY <2>1, InitRefines, NextRefines, PTL DEF Spec, ImplementsAtomicMap, Atomic!Spec
<1> QED BY <1>1
=============================================================================
