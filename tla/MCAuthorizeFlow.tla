-------------------------- MODULE MCAuthorizeFlow --------------------------
(***************************************************************************)
(* Instances of AuthorizeFlow for TLC: a host with one key per resource,   *)
(* or a single resource with two keys of which enrollment writes any.      *)
(***************************************************************************)
EXTENDS AuthorizeFlow, TLC

(* Host mode: each resource keeps its own key; "status" has none.         *)
MCHostKeysOf == [x \in Resources |-> {x} \cap Keys]

(* Single-resource mode: no projection. *)
MCPlainKeysOf == [x \in Resources |-> Keys]

(* Nothing, or a set for the first resource.  Singletons, and sets beside  *)
(* singletons, come from enrollments.                                      *)
MCBindings == {Unbound, [Unbound EXCEPT !["slack"] = Members]}

MCSymmetry == Permutations(Tabs) \cup Permutations(Members)
=============================================================================
