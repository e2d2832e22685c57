--------------------------- MODULE FirstUseProofs ---------------------------
(***************************************************************************)
(* Calls that do not overlap always return the stored secret.  The         *)
(* inductive invariant says why: a call that is about to store still faces *)
(* an empty slot, because nobody else was let in since its Get.            *)
(***************************************************************************)
EXTENDS FirstUse, TLAPS

(* The calls that saw an empty slot have the store to themselves.          *)
Exclusive ==
    /\ \A p, q \in Callers : want[p] # None /\ want[q] # None => p = q
    /\ \A p \in Callers : want[p] # None => slot[want[p]] = None

Inv == FirstUseTypeOK /\ Exclusive /\ ReturnedIsStored

LEMMA TypesKept == FirstUseTypeOK /\ [FirstUseNext]_secretStore => FirstUseTypeOK'
<1> SUFFICES ASSUME FirstUseTypeOK, [FirstUseNext]_secretStore
             PROVE  FirstUseTypeOK'
    OBVIOUS
<1> USE DEF FirstUseTypeOK
<1>1. ASSUME NEW p \in Callers, NEW s \in Slots, Finds(p, s)
      PROVE  FirstUseTypeOK'
    BY <1>1 DEF Finds
<1>2. ASSUME NEW p \in Callers, NEW s \in Slots, Misses(p, s)
      PROVE  FirstUseTypeOK'
    BY <1>2 DEF Misses
<1>3. ASSUME NEW p \in Callers, NEW s \in Slots, Rotate(p, s)
      PROVE  FirstUseTypeOK'
    BY <1>3 DEF Rotate, Generate
<1>4. ASSUME NEW p \in Callers, Stores(p)
      PROVE  FirstUseTypeOK'
    BY <1>4 DEF Stores, Generate
<1>5. ASSUME NEW p \in Callers, GivesUp(p)
      PROVE  FirstUseTypeOK'
    BY <1>5 DEF GivesUp
<1>6. CASE DeleteAll
    BY <1>6 DEF DeleteAll
<1>7. CASE UNCHANGED secretStore
    BY <1>7 DEF secretStore
<1> QED
    BY <1>1, <1>2, <1>3, <1>4, <1>5, <1>6, <1>7 DEF FirstUseNext

(* Every value of the constants: types. *)
THEOREM TypeCorrect == FirstUseSpec => []FirstUseTypeOK
<1>1. FirstUseInit => FirstUseTypeOK
    BY DEF FirstUseInit, FirstUseTypeOK
<1> QED
    BY <1>1, TypesKept, PTL DEF FirstUseSpec

LEMMA InvKept ==
    ASSUME Alone, Inv, [FirstUseNext]_secretStore
    PROVE  Exclusive' /\ ReturnedIsStored'
<1> USE FirstUseAssumption DEF Inv, FirstUseTypeOK, Exclusive, ReturnedIsStored
<1>1. ASSUME NEW p \in Callers, NEW s \in Slots, Finds(p, s)
      PROVE  Exclusive' /\ ReturnedIsStored'
    BY <1>1 DEF Finds
<1>2. ASSUME NEW p \in Callers, NEW s \in Slots, Misses(p, s)
      PROVE  Exclusive' /\ ReturnedIsStored'
  <2>1. \A q \in Callers : want'[q] = IF q = p THEN s ELSE None
      BY <1>2 DEF Misses, Begins
  <2>2. slot'[s] = None
      BY <1>2 DEF Misses
  <2> QED
      BY <1>2, <2>1, <2>2 DEF Misses
<1>3. ASSUME NEW p \in Callers, NEW s \in Slots, Rotate(p, s)
      PROVE  Exclusive' /\ ReturnedIsStored'
  <2>1. \A q \in Callers : want'[q] = None
      BY <1>3 DEF Rotate, Begins
  <2>2. PICK v \in Secrets : Generate(s, v) /\ told' = [told EXCEPT ![s] = {v}]
      BY <1>3 DEF Rotate
  <2> QED
      BY <2>1, <2>2 DEF Generate
<1>4. ASSUME NEW p \in Callers, Stores(p)
      PROVE  Exclusive' /\ ReturnedIsStored'
  <2>1. PICK v \in Secrets :
           /\ Generate(want[p], v)
           /\ told' = [told EXCEPT ![want[p]] = @ \cup {v}]
      BY <1>4 DEF Stores
  <2>2. want[p] \in Slots /\ slot[want[p]] = None
      BY <1>4 DEF Stores
  <2>3. told[want[p]] = {}
      BY <2>2
  <2>4. \A q \in Callers : want'[q] = None
      BY <1>4 DEF Stores
  <2>5. ReturnedIsStored'
      BY <2>1, <2>2, <2>3 DEF Generate
  <2> QED
      BY <2>4, <2>5
<1>5. ASSUME NEW p \in Callers, GivesUp(p)
      PROVE  Exclusive' /\ ReturnedIsStored'
    BY <1>5 DEF GivesUp
<1>6. CASE DeleteAll
    BY <1>6 DEF DeleteAll
<1>7. CASE UNCHANGED secretStore
    BY <1>7 DEF secretStore
<1> QED
    BY <1>1, <1>2, <1>3, <1>4, <1>5, <1>6, <1>7 DEF FirstUseNext

(***************************************************************************)
(* If no two calls overlap, a secret that was returned is the stored one   *)
(* until it is rotated or reset, with any number of slots, failing Sets    *)
(* and processes that die between Get and Set (src/pairing.go:42-64,       *)
(* src/token.go:186-238).                                                  *)
(***************************************************************************)
THEOREM StableAlone == Alone => (FirstUseSpec => []ReturnedIsStored)
<1> SUFFICES ASSUME Alone PROVE FirstUseSpec => []ReturnedIsStored
    OBVIOUS
<1>1. FirstUseInit => Inv
    BY FirstUseAssumption
    DEF FirstUseInit, Inv, FirstUseTypeOK, Exclusive, ReturnedIsStored
<1>2. Inv /\ [FirstUseNext]_secretStore => Inv'
    BY InvKept, TypesKept DEF Inv
<1>3. Inv => ReturnedIsStored
    BY DEF Inv
<1> QED
    BY <1>1, <1>2, <1>3, PTL DEF FirstUseSpec
=============================================================================
