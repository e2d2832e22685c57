-------------------------- MODULE MCTokenEndpoint --------------------------
(***************************************************************************)
(* Instances of TokenEndpoint for TLC: two clients, and two people who     *)
(* approve them.  The stored binding "all" means something else to each    *)
(* resource, and projecting twice is not projecting once.                  *)
(***************************************************************************)
EXTENDS TokenEndpoint, TLC

MCApprovals ==
    {[client |-> "editor", redirect |-> "local", verifier |-> "v1",
      resource |-> "slack", name |-> "alice", binding |-> "all"],
     [client |-> "agent", redirect |-> "web", verifier |-> "v2",
      resource |-> "mail", name |-> "bob", binding |-> "all"]}

MCBindings == {"all", "slackOnly", "none"}

(* Each resource keeps its own part of "all" and nothing of other values.  *)
MCBindingFor ==
    [x \in {"slack", "mail"} |-> [b \in MCBindings |->
        IF x = "slack" /\ b = "all" THEN "slackOnly" ELSE "none"]]

MCSymmetry == Permutations(Codes) \cup Permutations(Tokens) \cup Permutations(Requests)
=============================================================================
