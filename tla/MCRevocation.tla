---------------------------- MODULE MCRevocation ----------------------------
(* Instances of Revocation for TLC. *)
EXTENDS Revocation, TLC

MCSymmetry ==
    Permutations(Requests) \cup Permutations(Sessions)
        \cup Permutations(Codes) \cup Permutations(Tokens)
=============================================================================
