--------------------------- MODULE ApprovalLedger ---------------------------
(***************************************************************************)
(* What the token endpoint promises about approvals, in the terms of a     *)
(* ledger: an approval has one entry, which is a code, a refresh token or  *)
(* in the hands of one request, and it moves from one to the next with its *)
(* grant unchanged until it is lost.  Lost means lost: no entry comes back.*)
(* A crash loses what is not a refresh token.                              *)
(***************************************************************************)
CONSTANTS
    Codes,          \* approvals, one code each
    Grants          \* what can be approved

VARIABLES
    ledger,         \* a set of entries [of, form, grant]
    approved        \* the approvals that were entered so far

vars == <<ledger, approved>>

Init == ledger = {} /\ approved = {}

(* A person approves g. *)
Approve(c, g) ==
    /\ c \notin approved
    /\ approved' = approved \cup {c}
    /\ ledger' = ledger \cup {[of |-> c, form |-> "code", grant |-> g]}

(* A request takes the code or the refresh token. *)
Take(e) ==
    /\ e.form \in {"code", "token"}
    /\ ledger' = (ledger \ {e}) \cup {[e EXCEPT !.form = "hand"]}
    /\ UNCHANGED approved

(* It is answered with a refresh token for the same grant, ... *)
Renew(e) ==
    /\ e.form = "hand"
    /\ ledger' = (ledger \ {e}) \cup {[e EXCEPT !.form = "token"]}
    /\ UNCHANGED approved

(* ... or with an error. *)
Lose(e) ==
    /\ e.form = "hand"
    /\ ledger' = ledger \ {e}
    /\ UNCHANGED approved

Crash ==
    /\ ledger' = {e \in ledger : e.form = "token"}
    /\ UNCHANGED approved

Next ==
    \/ \E c \in Codes, g \in Grants : Approve(c, g)
    \/ \E e \in ledger : Take(e) \/ Renew(e) \/ Lose(e)
    \/ Crash

Spec == Init /\ [][Next]_vars
=============================================================================
