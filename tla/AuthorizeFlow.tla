--------------------------- MODULE AuthorizeFlow ---------------------------
(***************************************************************************)
(* The authorize endpoint: the rounds of an approval (src/authorize.go,    *)
(* src/authorize_step.go, src/enroll_flow.go, src/choose_page.go) in the   *)
(* tabs of one browser, which share a session cookie (src/session.go),     *)
(* against an operator who edits the named principals (src/principal.go).  *)
(*                                                                         *)
(* The flow keeps no state on the server between rounds: the step and the  *)
(* entered code ride in the page, and each POST verifies the identity anew.*)
(* A binding value is the set of its members, empty when the key is not    *)
(* there; a value with several members is a set to choose from.  Client,   *)
(* redirect and request parameters are validated in every round against    *)
(* data that never changes, so a tab's request is taken to be valid.       *)
(***************************************************************************)
EXTENDS Naturals, FiniteSets

CONSTANTS
    Names,              \* named principals
    Anonymous,          \* the identity of the shared code: name ""
    Tabs,               \* tabs of the browser, each with one authorize flow
    Resources,          \* audiences
    Enrolls,            \* the resources an enrollment is configured for
    Keys, Members,      \* binding keys, and members of their values
    KeysOf,             \* KeysOf[x]: the keys BindingForResource keeps for x
    OperatorBindings,   \* what the operator binds principals to
    MaxEdits,           \* bound: the operator's commands
    None                \* nothing

Bindings == [Keys -> SUBSET Members]
Unbound == [k \in Keys |-> {}]

ASSUME FlowAssumption ==
    /\ Anonymous \notin Names
    /\ None \notin Names \cup {Anonymous}
    /\ Enrolls \subseteq Resources
    /\ KeysOf \in [Resources -> SUBSET Keys]
    /\ IsFiniteSet(Members)
    /\ OperatorBindings \subseteq Bindings
    /\ MaxEdits \in Nat

(* A pairing code names its owner; a fresh one is numbered by the edit.    *)
PairingCodes == [name : Names \cup {Anonymous}, secret : 0..MaxEdits]
SharedCode == [name |-> Anonymous, secret |-> 0]

Grants == [name : Names \cup {Anonymous}, binding : Bindings]
Records == [secret : 0..MaxEdits, binding : Bindings]

(* What a token for resource x would carry of binding b. *)
Projected(b, x) == [k \in Keys |-> IF k \in KeysOf[x] THEN b[k] ELSE {}]

SetValued(b) == {k \in Keys : Cardinality(b[k]) > 1}

(* What the enrollment callback of x can return: by its contract one       *)
(* member per key, of its own keys, and at least one.                      *)
Patches ==
    [x \in Resources |->
        {b \in Bindings : /\ b # Unbound
                          /\ SetValued(b) = {}
                          /\ \A k \in Keys \ KeysOf[x] : b[k] = {}}]

VARIABLES
    record,         \* record[n]: the stored principal, or None
    edits,          \* how many commands the operator has run
    cookie,         \* whose session the browser's cookie names, or None
    page,           \* page[t]: the page in tab t
    stage,          \* stage[t]: where the POST of tab t is in its handler
    grant,          \* grant[t]: the identity and binding that POST carries
    issued,         \* issued[t]: the grant of t's authorization code, or None
    starter,        \* history: who t's initial approval identified, or None
    stored          \* history: the stored binding that POST last read or wrote

vars == <<record, edits, cookie, page, stage, grant, issued, starter, stored>>
history == <<starter, stored>>

(* A blank tab; one that shows a round; one that is over. *)
Blank == [step |-> "blank", resource |-> None, code |-> None]
Over == [Blank EXCEPT !.step = "over"]

Init ==
    /\ record \in [Names -> {None} \cup [secret : {0}, binding : OperatorBindings]]
    /\ edits = 0
    /\ cookie = None
    /\ page = [t \in Tabs |-> Blank]
    /\ stage = [t \in Tabs |-> "idle"]
    /\ grant = [t \in Tabs |-> None]
    /\ issued = [t \in Tabs |-> None]
    /\ starter = [t \in Tabs |-> None]
    /\ stored = [t \in Tabs |-> Unbound]

-----------------------------------------------------------------------------
(* A client sends the browser to GET /authorize: the approval form. *)
Open(t) ==
    /\ page[t].step \in {"blank", "over"}
    /\ \E x \in Resources :
          page' = [page EXCEPT ![t] = [Blank EXCEPT !.step = "approval", !.resource = x]]
    /\ issued' = [issued EXCEPT ![t] = None]
    /\ starter' = [starter EXCEPT ![t] = None]
    /\ stored' = [stored EXCEPT ![t] = Unbound]
    /\ UNCHANGED <<record, edits, cookie, stage, grant>>

(* The stored principal of name x, whose current binding the grant takes.  *)
GrantOf(x) ==
    IF x = Anonymous THEN [name |-> x, binding |-> Unbound]
    ELSE IF x \in Names /\ record[x] # None
         THEN [name |-> x, binding |-> record[x].binding]
         ELSE None

CodeIsCurrent(code) ==
    \/ code = SharedCode
    \/ /\ code.name \in Names
       /\ record[code.name] # None
       /\ record[code.name].secret = code.secret

(* Mutation of Identify: a session wins over an entered code. *)
IdentifySessionFirst(code) ==
    IF cookie # None THEN GrantOf(cookie)
    ELSE IF code # None /\ CodeIsCurrent(code) THEN GrantOf(code.name) ELSE None

(* verifyIdentity: an entered code wins, without one the session counts.   *)
Identify(code) ==
    IF code # None
    THEN IF CodeIsCurrent(code) THEN GrantOf(code.name) ELSE None
    ELSE IF cookie # None THEN GrantOf(cookie) ELSE None

(* The code that comes with a POST: typed into the approval form, where it *)
(* may be left out, and hidden in every later page.  (A wrong code only    *)
(* shows the approval form again.)                                         *)
Entered(t, code) ==
    IF page[t].step = "approval"
    THEN \/ code \in {None, SharedCode}
         \/ code \in PairingCodes /\ CodeIsCurrent(code)
    ELSE code = page[t].code

(* POST /authorize, an identity is verified. *)
Submit(t) ==
    /\ page[t].step \in {"approval", "enroll", "choice", "chooser"}
    /\ stage[t] = "idle"
    /\ \E code \in PairingCodes \cup {None} :
          /\ Entered(t, code)
          /\ Identify(code) # None
          /\ grant' = [grant EXCEPT ![t] = Identify(code)]
          /\ page' = [page EXCEPT ![t].code = code]
    /\ stage' = [stage EXCEPT ![t] = "verified"]
    /\ starter' = IF page[t].step = "approval"
                  THEN [starter EXCEPT ![t] = grant'[t].name] ELSE starter
    /\ stored' = [stored EXCEPT ![t] = grant'[t].binding]
    /\ UNCHANGED <<record, edits, cookie, issued>>

(* POST /authorize, none is: the approval form is shown again. *)
SubmitUnverified(t) ==
    /\ page[t].step \in {"approval", "enroll", "choice", "chooser"}
    /\ stage[t] = "idle"
    /\ \E code \in PairingCodes \cup {None} : Entered(t, code) /\ Identify(code) = None
    /\ page' = [page EXCEPT ![t] = [Blank EXCEPT !.step = "approval",
                                                 !.resource = page[t].resource]]
    /\ starter' = [starter EXCEPT ![t] = None]
    /\ UNCHANGED <<record, edits, cookie, stage, grant, issued, stored>>

(* The handler answers with the page of a further round. *)
Show(t, step) ==
    /\ page' = [page EXCEPT ![t].step = step]
    /\ stage' = [stage EXCEPT ![t] = "idle"]
    /\ grant' = [grant EXCEPT ![t] = None]
    /\ stored' = [stored EXCEPT ![t] = Unbound]
    /\ UNCHANGED <<record, edits, cookie, issued, starter>>

(* ... or with an error page, which ends the flow, ... *)
ShowError(t) ==
    /\ page' = [page EXCEPT ![t] = Over]
    /\ stage' = [stage EXCEPT ![t] = "idle"]
    /\ grant' = [grant EXCEPT ![t] = None]
    /\ stored' = [stored EXCEPT ![t] = Unbound]
    /\ starter' = [starter EXCEPT ![t] = None]
    /\ UNCHANGED <<record, edits, cookie, issued>>

(* ... or goes on with grant g. *)
Proceed(t, s, g) ==
    /\ stage' = [stage EXCEPT ![t] = s]
    /\ grant' = [grant EXCEPT ![t] = g]
    /\ UNCHANGED <<record, edits, cookie, page, issued, history>>

(* Enrollment applies: it is configured and the principal is named. *)
MayEnroll(t) ==
    stage[t] = "verified" /\ page[t].resource \in Enrolls /\ grant[t].name # Anonymous

IsEnrollRound(t) == MayEnroll(t) /\ page[t].step \in {"enroll", "choice"}

(* Mutation of NeedsEnrollment: bound for anything is bound. *)
NeedsAnyBinding(t) ==
    MayEnroll(t) /\ ~IsEnrollRound(t) /\ grant[t].binding = Unbound

(* Unbound for THIS resource. *)
NeedsEnrollment(t) ==
    /\ MayEnroll(t) /\ ~IsEnrollRound(t)
    /\ Projected(grant[t].binding, page[t].resource) = Unbound

(* The person asks to enroll anew: update_credentials of the approval form.*)
AsksToEnroll(t) == MayEnroll(t) /\ page[t].step = "approval"

ShowEnrollForm(t) ==
    /\ NeedsEnrollment(t) \/ AsksToEnroll(t)
    /\ Show(t, "enroll")

(* The enrollment callback fails, or fields are missing. *)
EnrollFails(t) == IsEnrollRound(t) /\ Show(t, "enroll")

(* It asks for a choice. *)
EnrollAsks(t) == IsEnrollRound(t) /\ Show(t, "choice")

(* It returns neither a binding nor an option: an error page. *)
EnrollBroken(t) == IsEnrollRound(t) /\ ShowError(t)

(* It returns a binding. *)
EnrollSucceeds(t) == IsEnrollRound(t) /\ Proceed(t, "merge", grant[t])

Overlay(b, patch) == [k \in Keys |-> IF patch[k] # {} THEN patch[k] ELSE b[k]]

(* Mutation of Merged: the patch goes over the binding the POST carries.   *)
MergedIntoCarried(t, patch) == Overlay(grant[t].binding, patch)

(* The patch over the binding that is stored now. *)
Merged(t, patch) == Overlay(record[grant[t].name].binding, patch)

(* MergePrincipalBinding; the code is issued for the FRESH merged binding. *)
Merge(t) ==
    /\ stage[t] = "merge"
    /\ record[grant[t].name] # None
    /\ \E patch \in Patches[page[t].resource] :
          /\ record' = [record EXCEPT ![grant[t].name].binding = Merged(t, patch)]
          /\ grant' = [grant EXCEPT ![t].binding = Merged(t, patch)]
          /\ stored' = [stored EXCEPT ![t] = Merged(t, patch)]
    /\ stage' = [stage EXCEPT ![t] = "issue"]
    /\ UNCHANGED <<edits, cookie, page, issued, starter>>

(* The principal is gone, or the store fails: an error page. *)
MergeFails(t) == stage[t] = "merge" /\ ShowError(t)

(* No enrollment round: neither form nor callback is due. *)
Diverts(t) == IsEnrollRound(t) \/ NeedsEnrollment(t)

(* Some key has several members to choose from. *)
MustChoose(t) == grant[t].name # Anonymous /\ SetValued(grant[t].binding) # {}

ShowChooser(t) ==
    /\ stage[t] = "verified" /\ ~Diverts(t) /\ MustChoose(t)
    /\ page[t].step # "chooser"
    /\ Show(t, "chooser")

(* Mutation of Chosen: every key takes what was submitted for it. *)
ChosenForAnyKey(b, pick) ==
    IF \A k \in SetValued(b) : pick[k] \in b[k]
    THEN [k \in Keys |-> IF b[k] # {} THEN {pick[k]} ELSE {}]
    ELSE None

(* Mutation of Chosen: the keys without a set are not copied. *)
ChosenKeysOnly(b, pick) ==
    IF \A k \in SetValued(b) : pick[k] \in b[k]
    THEN [k \in SetValued(b) |-> {pick[k]}]
    ELSE None

(* resolveBindingChoices: binding b with the picked member for each set,   *)
(* or None if a pick is not a member of its set.                           *)
Chosen(b, pick) ==
    IF \A k \in SetValued(b) : pick[k] \in b[k]
    THEN [k \in Keys |-> IF k \in SetValued(b) THEN {pick[k]} ELSE b[k]]
    ELSE None

(* The submitted picks - whatever page they were made on - resolve the     *)
(* STORED binding.                                                         *)
Choose(t) ==
    /\ stage[t] = "verified" /\ ~Diverts(t) /\ MustChoose(t)
    /\ page[t].step = "chooser"
    /\ \E pick \in [Keys -> Members] :
          /\ Chosen(grant[t].binding, pick) # None
          /\ Proceed(t, "issue", [grant[t] EXCEPT !.binding = Chosen(@, pick)])

(* They do not: the stored set has changed, or nothing was picked. *)
ChooseAgain(t) ==
    /\ stage[t] = "verified" /\ ~Diverts(t) /\ MustChoose(t)
    /\ page[t].step = "chooser"
    /\ Show(t, "chooser")

NothingToChoose(t) ==
    /\ stage[t] = "verified" /\ ~Diverts(t) /\ ~MustChoose(t)
    /\ Proceed(t, "issue", grant[t])

(* maybeStartSession, which may be off or fail, and issueAndRedirect. *)
Issue(t) ==
    /\ stage[t] = "issue"
    /\ cookie' \in IF page[t].code # None THEN {cookie, grant[t].name} ELSE {cookie}
    /\ issued' = [issued EXCEPT ![t] =
                    [name |-> grant[t].name, binding |-> grant[t].binding,
                     resource |-> page[t].resource,
                     round |-> page[t].step, entered |-> page[t].code # None]]
    /\ page' = [page EXCEPT ![t] = Over]
    /\ stage' = [stage EXCEPT ![t] = "idle"]
    /\ grant' = [grant EXCEPT ![t] = None]
    /\ UNCHANGED <<record, edits, history>>

(* The session's lifetime passes. *)
SessionExpires ==
    /\ cookie # None /\ cookie' = None
    /\ UNCHANGED <<record, edits, page, stage, grant, issued, history>>

-----------------------------------------------------------------------------
(* The operator's commands; each is one save of the principals. *)
Edit(n, rec) ==
    /\ edits < MaxEdits
    /\ edits' = edits + 1
    /\ record' = [record EXCEPT ![n] = rec]
    /\ UNCHANGED <<page, stage, grant, issued, history>>

(* What a nil binding leaves a name with: the stored one. *)
Kept(n) == IF record[n] = None THEN Unbound ELSE record[n].binding

(* AddPrincipal: a new or an existing name, a fresh code, and a binding    *)
(* that may be nil.                                                        *)
Add(n) ==
    /\ \E b \in OperatorBindings \cup {Kept(n)} :
          Edit(n, [secret |-> edits + 1, binding |-> b])
    /\ UNCHANGED cookie

SetBinding(n) ==
    /\ record[n] # None
    /\ \E b \in OperatorBindings : Edit(n, [record[n] EXCEPT !.binding = b])
    /\ UNCHANGED cookie

(* RotatePrincipal: a fresh code, the binding stays. *)
Rotate(n) ==
    /\ record[n] # None
    /\ Edit(n, [record[n] EXCEPT !.secret = edits + 1])
    /\ UNCHANGED cookie

(* RemovePrincipal purges the sessions of n, too. *)
Remove(n) ==
    /\ Edit(n, None)
    /\ cookie' = IF cookie = n THEN None ELSE cookie

Next ==
    \/ \E t \in Tabs :
          \/ Open(t) \/ Submit(t) \/ SubmitUnverified(t)
          \/ ShowEnrollForm(t) \/ EnrollFails(t) \/ EnrollAsks(t)
          \/ EnrollBroken(t) \/ EnrollSucceeds(t) \/ Merge(t) \/ MergeFails(t)
          \/ ShowChooser(t) \/ Choose(t) \/ ChooseAgain(t) \/ NothingToChoose(t)
          \/ Issue(t)
    \/ SessionExpires
    \/ \E n \in Names : Add(n) \/ SetBinding(n) \/ Rotate(n) \/ Remove(n)

Spec == Init /\ [][Next]_vars

-----------------------------------------------------------------------------
Steps == {"blank", "approval", "enroll", "choice", "chooser", "over"}

IssuedGrants ==
    [name : Names \cup {Anonymous}, binding : Bindings, resource : Resources,
     round : Steps, entered : BOOLEAN]

TypeOK ==
    /\ record \in [Names -> Records \cup {None}]
    /\ edits \in 0..MaxEdits
    /\ cookie \in Names \cup {Anonymous, None}
    /\ page \in [Tabs -> [step : Steps, resource : Resources \cup {None},
                          code : PairingCodes \cup {None}]]
    /\ stage \in [Tabs -> {"idle", "verified", "merge", "issue"}]
    /\ grant \in [Tabs -> Grants \cup {None}]
    /\ issued \in [Tabs -> IssuedGrants \cup {None}]
    /\ starter \in [Tabs -> Names \cup {Anonymous, None}]
    /\ stored \in [Tabs -> Bindings]

(***************************************************************************)
(* Where an enrollment is configured, no authorization code exists for a   *)
(* named principal that is unbound for the resource: "Unbound means        *)
(* unbound FOR THIS RESOURCE" (src/authorize.go:167-169), whatever the     *)
(* operator and the other tabs do between the rounds.                      *)
(***************************************************************************)
NoCodeWhileUnbound ==
    \A t \in Tabs :
        issued[t] # None /\ issued[t].name # Anonymous /\ issued[t].resource \in Enrolls
            => Projected(issued[t].binding, issued[t].resource) # Unbound

(***************************************************************************)
(* A code carries only what the store held for the principal when the      *)
(* issuing POST read or wrote it: "Choices are validated against the       *)
(* STORED binding" (src/authorize.go:178-179), never against a chooser     *)
(* page that was rendered from an older record.  Every key of the stored   *)
(* binding is there, and outside enrollment with exactly one member.       *)
(***************************************************************************)
ChoicesComeFromTheStore ==
    \A t \in Tabs : issued[t] # None =>
        \A k \in Keys :
            /\ issued[t].binding[k] \subseteq stored[t][k]
            /\ stored[t][k] # {} => issued[t].binding[k] # {}
            /\ issued[t].round \notin {"enroll", "choice"} =>
                  Cardinality(issued[t].binding[k]) <= 1

(***************************************************************************)
(* A person who entered a code is who the code is issued for, through      *)
(* every round and whoever's session the browser's other tabs start:       *)
(* "an entered pairing code wins" (src/authorize.go:99-100).               *)
(***************************************************************************)
EnteredCodeDecides ==
    \A t \in Tabs : issued[t] # None /\ issued[t].entered => issued[t].name = starter[t]

(***************************************************************************)
(* Enrolling for one resource leaves the principal's bindings for others   *)
(* as they are, also when two tabs enroll at once: "one tool's enrollment  *)
(* must not clobber another's" (src/principal.go:112-113).                 *)
(***************************************************************************)
EnrollmentsAccumulate ==
    [][\A t \in Tabs, n \in Names :
          stage'[t] # stage[t] /\ record'[n] # record[n] =>
              \A k \in Keys \ KeysOf[page[t].resource] :
                  record'[n].binding[k] = record[n].binding[k]]_vars

(***************************************************************************)
(* "enrollment/chooser rounds re-verify the same identity and are not      *)
(* re-pairings" (src/authorize.go:80-81)                                   *)
(***************************************************************************)
RoundsKeepTheIdentity ==
    \A t \in Tabs : issued[t] # None => issued[t].name = starter[t]

(***************************************************************************)
(* "a set-valued binding needs the person to pick one member per key       *)
(* before a token can carry a singleton" (src/authorize.go:176-177): the   *)
(* token made from an authorization code carries no set.                   *)
(***************************************************************************)
TokensCarryNoSets ==
    \A t \in Tabs : issued[t] # None =>
        SetValued(Projected(issued[t].binding, issued[t].resource)) = {}
=============================================================================
