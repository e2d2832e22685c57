------------------------------ MODULE FirstUse ------------------------------
(***************************************************************************)
(* Secrets that are generated on first use: the shared pairing code        *)
(* (src/pairing.go, Code and Rotate) and the two signing keys              *)
(* (src/token.go, loadOrCreateHMACKey and loadOrCreateEd25519).  All three *)
(* are a Get and, if nothing is stored, a Set of fresh randomness, with no *)
(* lock from one to the other; so any two processes, and for the pairing   *)
(* code any two requests of one server, can meet in between.               *)
(*                                                                         *)
(* A Get that fails, or finds an entry that is no key, is answered with an *)
(* error and changes nothing, so no action stands for it.                  *)
(***************************************************************************)
CONSTANTS
    Slots,          \* keys of the SecretStore that hold a generated secret
    Rotatable,      \* those that Rotate replaces: the shared pairing code
    Callers,        \* calls in progress
    Secrets,        \* random values, each generated once
    Alone,          \* no two calls overlap
    None            \* nothing

ASSUME FirstUseAssumption ==
    /\ Rotatable \subseteq Slots
    /\ Alone \in BOOLEAN
    /\ None \notin Slots \cup Secrets

VARIABLES
    slot,           \* slot[s]: what the SecretStore holds, or None
    want,           \* want[p]: the slot that p found absent, or None
    made,           \* the secrets that were generated so far
    told            \* history: told[s] is what calls have returned for s
                    \* since it was last rotated or reset

secretStore == <<slot, want, made, told>>

FirstUseInit ==
    /\ slot = [s \in Slots |-> None]
    /\ want = [p \in Callers |-> None]
    /\ made = {}
    /\ told = [s \in Slots |-> {}]

-----------------------------------------------------------------------------
(* Caller p may begin a call. *)
Begins(p) ==
    /\ want[p] = None
    /\ Alone => \A q \in Callers : want[q] = None

(* Get finds a value, and the call returns it. *)
Finds(p, s) ==
    /\ Begins(p)
    /\ slot[s] # None
    /\ told' = [told EXCEPT ![s] = @ \cup {slot[s]}]
    /\ UNCHANGED <<slot, want, made>>

(* Get finds nothing. *)
Misses(p, s) ==
    /\ Begins(p)
    /\ slot[s] = None
    /\ want' = [want EXCEPT ![p] = s]
    /\ UNCHANGED <<slot, made, told>>

(* A fresh secret v is generated and stored in s. *)
Generate(s, v) ==
    /\ v \in Secrets \ made
    /\ made' = made \cup {v}
    /\ slot' = [slot EXCEPT ![s] = v]

(* Mutation of Stores: the call returns before the store has its secret. *)
StoresNothing(p) ==
    /\ want[p] # None
    /\ \E v \in Secrets \ made :
          /\ made' = made \cup {v}
          /\ told' = [told EXCEPT ![want[p]] = @ \cup {v}]
    /\ want' = [want EXCEPT ![p] = None]
    /\ UNCHANGED slot

(* Set succeeds, and the call returns the secret that it generated. *)
Stores(p) ==
    /\ want[p] # None
    /\ \E v \in Secrets :
          /\ Generate(want[p], v)
          /\ told' = [told EXCEPT ![want[p]] = @ \cup {v}]
    /\ want' = [want EXCEPT ![p] = None]

(* Set fails, or the process dies before it: nothing is returned. *)
GivesUp(p) ==
    /\ want[p] # None
    /\ want' = [want EXCEPT ![p] = None]
    /\ UNCHANGED <<slot, made, told>>

(* Rotate stores a fresh code whatever was there: earlier codes are void. *)
Rotate(p, s) ==
    /\ Begins(p)
    /\ s \in Rotatable
    /\ \E v \in Secrets : Generate(s, v) /\ told' = [told EXCEPT ![s] = {v}]
    /\ UNCHANGED want

(* SecretStore.DeleteAll, at any moment. *)
DeleteAll ==
    /\ slot' = [s \in Slots |-> None]
    /\ told' = [s \in Slots |-> {}]
    /\ UNCHANGED <<want, made>>

FirstUseNext ==
    \/ \E p \in Callers :
          \/ \E s \in Slots : Finds(p, s) \/ Misses(p, s) \/ Rotate(p, s)
          \/ Stores(p)
          \/ GivesUp(p)
    \/ DeleteAll

FirstUseSpec == FirstUseInit /\ [][FirstUseNext]_secretStore

-----------------------------------------------------------------------------
FirstUseTypeOK ==
    /\ slot \in [Slots -> Secrets \cup {None}]
    /\ want \in [Callers -> Slots \cup {None}]
    /\ made \subseteq Secrets
    /\ told \in [Slots -> SUBSET Secrets]

(***************************************************************************)
(* "Code returns the pairing code, generating and persisting one on first  *)
(* use so it is stable across restarts." (src/pairing.go:42-43); a signing *)
(* key "is generated once and reused" (src/token.go:15): until somebody    *)
(* rotates or resets it, whoever was given a secret was given the stored   *)
(* one, so the code an operator was shown is accepted and the key a server *)
(* signs with is the one the next start will load.                         *)
(***************************************************************************)
ReturnedIsStored == \A s \in Slots : told[s] \subseteq {slot[s]}
=============================================================================
