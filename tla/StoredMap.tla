------------------------------ MODULE StoredMap ------------------------------
(***************************************************************************)
(* The documents the OAuth layer keeps in its SecretStore - registered     *)
(* clients, refresh tokens, browser sessions, named principals - are each  *)
(* one map, marshalled as a whole under one key (src/mapstore.go).  This   *)
(* module holds the closures those registries hand to jsonMapStore.mutate, *)
(* as pure operators on a map.  The value of an entry is abstracted to its *)
(* owner, which is all that the closures look at.                          *)
(***************************************************************************)

CONSTANTS
    Keys,       \* opaque tokens, client ids or principal names
    Vals,       \* the owner an entry is stored for
    Absent,     \* the key is not in the map
    Ok,         \* answer of an operation that returns no entry
    Failed      \* answer of an operation the store made fail

ASSUME MarksAreNotVals == /\ Absent \notin Vals
                          /\ Ok \notin Vals
                          /\ Failed \notin Vals
                          /\ Absent # Ok
                          /\ Absent # Failed
                          /\ Ok # Failed

Maps == [Keys -> Vals \cup {Absent}]

EmptyMap == [k \in Keys |-> Absent]

(* put: register or issue.  update: write an existing entry only.  take:   *)
(* exchange a refresh token.  purge: remove everything of one owner.       *)
Ops == [kind : {"put", "update"}, key : Keys, val : Vals]
          \cup [kind : {"take", "get"}, key : Keys]
          \cup [kind : {"purge"}, val : Vals]

(* The operation of a process that runs none. *)
NoOp == [kind |-> "none"]

Answers == Vals \cup {Absent, Ok, Failed}

(* What the closure leaves in the map it was given. *)
Apply(o, m) ==
    CASE o.kind = "put"    -> [m EXCEPT ![o.key] = o.val]
      [] o.kind = "update" -> IF m[o.key] = Absent THEN m
                              ELSE [m EXCEPT ![o.key] = o.val]
      [] o.kind = "take"   -> [m EXCEPT ![o.key] = Absent]
      [] o.kind = "purge"  -> [k \in Keys |-> IF m[k] = o.val THEN Absent ELSE m[k]]
      [] o.kind = "get"    -> m

(* What the closure reports: only a changed map is saved. *)
Changed(o, m) ==
    \/ o.kind = "put"
    \/ o.kind \in {"update", "take"} /\ m[o.key] # Absent
    \/ o.kind = "purge" /\ \E k \in Keys : m[k] = o.val

(* Mutation of Answer: the caller is told the key. *)
AnswerWithKey(o, m) ==
    IF o.kind \in {"get", "take", "update"} THEN o.key ELSE Ok

(* What the caller learns from the map the closure ran on. *)
Answer(o, m) ==
    IF o.kind \in {"get", "take", "update"} THEN m[o.key] ELSE Ok
=============================================================================
