--------------------------- MODULE ApprovalForms ---------------------------
(***************************************************************************)
(* The forms of an approval, and what is typed into them: the pairing code *)
(* (src/pairing.go, src/principal.go), the credentials that an enrollment  *)
(* asks for (src/enroll_flow.go) and the choice from a binding's set       *)
(* (src/choose_page.go).  Composes PairingCode, EnrollForm and BindingSets *)
(* with FirstUse, for the shared code is generated on first use.           *)
(*                                                                         *)
(* AuthorizeFlow has the races between tabs, sessions and the operator;    *)
(* here is one browser without a session, each POST one step, and the      *)
(* texts that AuthorizeFlow abstracts from.                                *)
(***************************************************************************)
EXTENDS FirstUse, PairingCode, EnrollForm, BindingSets

CONSTANTS
    Names,              \* named principals
    Anonymous,          \* the operator, whose code is the shared one
    Shared,             \* the slot of the shared code
    Server,             \* the caller of Code
    Enrollments,        \* what the embedding tool may configure
    Bindings,           \* what the operator binds principals to
    EnrolledBindings,   \* what the callback returns
    Typed,              \* the habits that people type a code with
    SecretEntries,      \* what people type into a secret field
    PlainEntries        \* ... and into one that is not

(* Codes have a prefix, digits, and hyphens in the same places; keys and   *)
(* texts are what Go types them.  Entries of secret fields can be told from*)
(* others wherever they turn up.                                           *)
ASSUME ApprovalFormsAssumption ==
    /\ Server \in Callers
    /\ Shared \in Rotatable
    /\ Anonymous \notin Names
    /\ None \notin Names \cup {Anonymous}
    /\ \A c \in Secrets :
          /\ c = PairingPrefix \o Body(c)
          /\ Body(c) \in Seq(Digits \cup {"-"})
          /\ \A d \in Secrets :
                /\ Len(Body(d)) = Len(Body(c))
                /\ \A i \in DOMAIN Body(c) : Body(d)[i] = "-" <=> Body(c)[i] = "-"
    /\ Enrollments \subseteq
          [callback : BOOLEAN,
           modes : Seq([key : Seq(STRING),
                        fields : Seq([key : Seq(STRING), secret : BOOLEAN,
                                      optional : BOOLEAN])])]
    /\ \A b \in Bindings \cup EnrolledBindings : \A k \in DOMAIN b : b[k] \in Seq(STRING)
    /\ \A entry \in PlainEntries : Trimmed(entry) \notin SecretEntries \ {Blank}

VARIABLES
    enrollment,     \* the configured enrollment
    record,         \* record[n]: the stored code and binding of n, or None
    page,           \* the page in the browser
    received,       \* history: the request that the callback got in the last
                    \* step, with what was in the form, or None
    issued          \* history: the binding in the authorization code issued in
                    \* the last step, the stored one and the page, or None

vars == <<secretStore, enrollment, record, page, received, issued>>

Over == [step |-> "over", code |-> <<>>]
Approval == [step |-> "approval", code |-> <<>>]

Init ==
    /\ FirstUseInit
    /\ enrollment \in {e \in Enrollments : Validate(e)}
    /\ record = [n \in Names |-> None]
    /\ page = Over
    /\ received = None
    /\ issued = None

-----------------------------------------------------------------------------
(* The histories are of the last step only. *)
Forgotten == received' = None /\ issued' = None

(* The operator, and the code's first use: a POST that finds no shared code*)
(* generates one before it verifies.                                       *)
OperatorActs ==
    /\ \/ Misses(Server, Shared) \/ Stores(Server) \/ GivesUp(Server)
       \/ Rotate(Server, Shared)
    /\ UNCHANGED <<enrollment, record, page>>
    /\ Forgotten

(* AddPrincipal, with a binding or with nil, which keeps the stored one.   *)
AddPrincipal(n) ==
    /\ \E v \in Secrets \ made :
          /\ made' = made \cup {v}
          /\ \E b \in Bindings \cup (IF record[n] = None THEN {<<>>} ELSE {record[n].binding}) :
                record' = [record EXCEPT ![n] = [code |-> v, binding |-> b]]
    /\ UNCHANGED <<slot, want, told, enrollment, page>>
    /\ Forgotten

(* SetPrincipalBinding: the code stays. *)
SetPrincipalBinding(n) ==
    /\ record[n] # None
    /\ \E b \in Bindings \cup {<<>>} : record' = [record EXCEPT ![n].binding = b]
    /\ UNCHANGED <<secretStore, enrollment, page>>
    /\ Forgotten

RemovePrincipal(n) ==
    /\ record[n] # None
    /\ record' = [record EXCEPT ![n] = None]
    /\ UNCHANGED <<secretStore, enrollment, page>>
    /\ Forgotten

Reset ==
    /\ DeleteAll
    /\ record' = [n \in Names |-> None]
    /\ UNCHANGED <<enrollment, page>>
    /\ Forgotten

-----------------------------------------------------------------------------
(* VerifyPrincipal: whom a text identifies.  candidates has the shared code*)
(* first.                                                                  *)
CurrentCode(x) ==
    IF x = Anonymous THEN slot[Shared]
    ELSE IF record[x] = None THEN None ELSE record[x].code

VerifyPrincipal(input) ==
    LET got == NormalizePairing(input)
        matched == {x \in Names \cup {Anonymous} :
                      CurrentCode(x) # None /\ EqualPairing(got, CurrentCode(x))}
    IN  IF Anonymous \in matched THEN Anonymous
        ELSE IF matched = {} THEN None ELSE CHOOSE x \in matched : TRUE

Binding(x) == IF x = Anonymous THEN <<>> ELSE record[x].binding

Open ==
    /\ page = Over
    /\ page' = Approval
    /\ UNCHANGED <<secretStore, enrollment, record>>
    /\ Forgotten

(* issueAndRedirect *)
Issue(binding, stored) ==
    /\ issued' = [binding |-> binding, stored |-> stored, step |-> page.step]
    /\ page' = Over

(* renderPage: the form shows values, with a mode selected. *)
EnrollPage(code, key, values) ==
    [step |-> "enroll", code |-> code,
     mode |-> IF key = <<>> THEN enrollment.modes[1].key ELSE key,
     values |-> values]

(* renderBindingChooser *)
ChooserPage(code, binding) ==
    [step |-> "chooser", code |-> code,
     offers |-> [k \in SetValuedKeys(binding) |-> ToSet(BindingSet(binding[k]))]]

(* What is typed into the approval form: a code that somebody was given,   *)
(* or nothing but its prefix.                                              *)
CodesTyped == {Spelling(c, habit) : c \in made, habit \in Typed} \cup {PairingPrefix}

(* What the chooser's page can post for these keys: an option each, and    *)
(* nothing for a key that it does not have.                                *)
Picks(keys) ==
    {choice \in [keys -> UNION ({{<<>>}} \cup {page.offers[k] : k \in DOMAIN page.offers})] :
        \A k \in keys : choice[k] \in IF k \in DOMAIN page.offers
                                       THEN page.offers[k] ELSE {<<>>}}

(* A POST of the page with this step, with a code that identifies x. *)
Post(step, code, x) ==
    /\ page.step = step
    /\ Finds(Server, Shared)
    /\ x = VerifyPrincipal(code)
    /\ UNCHANGED enrollment

(* No code is right: the approval form again, in whatever round. *)
PostUnverified ==
    /\ page.step # "over"
    /\ \E code \in IF page.step = "approval" THEN CodesTyped ELSE {page.code} :
          Post(page.step, code, None)
    /\ page' = Approval
    /\ UNCHANGED record
    /\ Forgotten

(* resolveSetBindings: a binding with sets needs a choice; a choice - its  *)
(* page may be stale - resolves the STORED binding.  Before that, a        *)
(* principal that is unbound is diverted to the enrollment.                *)
GoOn(x, code, choice) ==
    IF x # Anonymous /\ DOMAIN Binding(x) = {}
    THEN page' = EnrollPage(code, <<>>, <<>>) /\ issued' = None
    ELSE IF SetValuedKeys(Binding(x)) = {}
    THEN Issue(Binding(x), Binding(x))
    ELSE IF choice # None /\ ChoicesValid(Binding(x), choice)
    THEN Issue(ResolveBindingChoices(Binding(x), choice), Binding(x))
    ELSE page' = ChooserPage(code, Binding(x)) /\ issued' = None

SubmitCode ==
    \E code \in CodesTyped, x \in Names \cup {Anonymous} :
        /\ Post("approval", code, x)
        /\ GoOn(x, code, None)
        /\ UNCHANGED record
        /\ received' = None

SubmitPicks ==
    \E x \in Names \cup {Anonymous} :
        /\ Post("chooser", page.code, x)
        /\ \E choice \in Picks(DOMAIN Binding(x)) : GoOn(x, page.code, choice)
        /\ UNCHANGED record
        /\ received' = None

(* update_credentials: a bound principal asks for the form, too. *)
SubmitUpdate ==
    \E code \in CodesTyped, x \in Names :
        /\ Post("approval", code, x)
        /\ page' = EnrollPage(code, <<>>, <<>>)
        /\ UNCHANGED record
        /\ Forgotten

-----------------------------------------------------------------------------
Inputs == EnrollInputs(enrollment, page.values)

(* What a person may leave in the inputs of the page. *)
Fillings ==
    {filled \in [DOMAIN Inputs -> SecretEntries \cup PlainEntries] :
        \A i \in DOMAIN Inputs :
            filled[i] \in IF Inputs[i].secret THEN SecretEntries ELSE PlainEntries}

(* finish: the callback's outcome.  (An empty choice or binding is the     *)
(* callback's bug; AuthorizeFlow has it.)                                  *)
Finish(x, m, values) ==
    \/ /\ page' = EnrollPage(page.code, m.key, values)              \* an error
       /\ UNCHANGED record /\ issued' = None
    \/ /\ page' = [step |-> "choice", code |-> page.code, mode |-> m.key]
       /\ UNCHANGED record /\ issued' = None
    \/ \E b \in EnrolledBindings :                              \* a binding
          LET merged == [k \in DOMAIN b \cup DOMAIN Binding(x) |->
                            IF k \in DOMAIN b THEN b[k] ELSE Binding(x)[k]]
          IN  /\ record' = [record EXCEPT ![x].binding = merged]
              /\ Issue(merged, merged)

(* submitFields, from a form with mode m selected, filled in like this:    *)
(* the callback is called unless a required field was left blank.          *)
SubmitFields ==
    \E x \in Names, key \in {m.key : m \in ToSet(enrollment.modes)} :
        /\ Post("enroll", page.code, x)
        /\ \E filled \in Fillings, m \in ModesOf(enrollment, key) :
              LET values == CollectValues(m, Inputs, filled)
              IN  IF Missing(m, values) = {}
                  THEN /\ received' = [mode |-> key, values |-> values,
                                       inputs |-> Inputs, filled |-> filled]
                       /\ Finish(x, m, NonSecret(m, values))
                  ELSE /\ page' = EnrollPage(page.code, m.key, NonSecret(m, values))
                       /\ UNCHANGED record
                       /\ Forgotten

(* submitChoice: an option was picked, or none was. *)
SubmitChoice ==
    \E x \in Names :
        /\ Post("choice", page.code, x)
        /\ \E m \in ModesOf(enrollment, page.mode) : Finish(x, m, <<>>)
        /\ received' = None

Next ==
    \/ OperatorActs \/ Reset
    \/ \E n \in Names : AddPrincipal(n) \/ SetPrincipalBinding(n) \/ RemovePrincipal(n)
    \/ Open \/ PostUnverified
    \/ SubmitCode \/ SubmitUpdate \/ SubmitPicks \/ SubmitFields \/ SubmitChoice

Spec == Init /\ [][Next]_vars

-----------------------------------------------------------------------------
TypeOK ==
    /\ FirstUseTypeOK
    /\ Validate(enrollment)
    /\ \A n \in Names : record[n] # None => record[n].code \in made
    /\ page.step \in {"over", "approval", "enroll", "choice", "chooser"}
    /\ page.step \in {"enroll", "choice"} =>
          Cardinality(ModesOf(enrollment, page.mode)) = 1
    /\ page.step = "chooser" => \A k \in DOMAIN page.offers : page.offers[k] # {}

(***************************************************************************)
(* However a code is spelled - with its prefix or without, in either case, *)
(* with confusable letters, with any separators - it identifies who it     *)
(* belongs to now, and a code that was rotated, removed or reset           *)
(* identifies nobody (src/pairing.go:54-55, 86-89).  The exception is a    *)
(* code whose own digits begin like the prefix, typed without it.          *)
(***************************************************************************)
CodesIdentifyTheirOwners ==
    \A c \in made, habit \in Habits :
        (BeginsLikePrefix(c) => habit.prefix # <<>>)
        =>  LET x == VerifyPrincipal(Spelling(c, habit))
            IN  \/ x # None /\ CurrentCode(x) = c
                \/ x = None /\ \A y \in Names \cup {Anonymous} : CurrentCode(y) # c

(***************************************************************************)
(* What was typed into a secret field is in no page that is shown later,   *)
(* not even where another mode has a field of the same key that is no      *)
(* secret: a secret "is never logged and never re-echoed into a re-rendered*)
(* form" (src/enrollment.go:35-36).  Where joined keys are unique.         *)
(***************************************************************************)
SecretsAreNotEchoed ==
    KeysJoinUniquely(enrollment) /\ page.step = "enroll" =>
        \A i \in DOMAIN Inputs : Inputs[i].value \notin SecretEntries \ {Blank}

(***************************************************************************)
(* The callback gets, for every field of the mode that the person selected *)
(* and for no other, what was typed into its input, though all modes are   *)
(* posted and may share keys: input names "are namespaced per mode (so a   *)
(* key shared across modes doesn't shadow itself in the POST)"             *)
(* (src/enroll_view.go:31-32).                                             *)
(***************************************************************************)
CallbackGetsWhatWasTyped ==
    KeysJoinUniquely(enrollment) /\ received # None =>
        LET own == {i \in DOMAIN received.inputs : received.inputs[i].mode = received.mode}
        IN  /\ DOMAIN received.values = {received.inputs[i].key : i \in own}
            /\ \A i \in own :
                  received.values[received.inputs[i].key] = Trimmed(received.filled[i])

(***************************************************************************)
(* A code that is not issued from an enrollment carries, for every key of  *)
(* the binding stored at that moment, one value that a person reads in it: *)
(* the whole text, or one of the members listed between its commas, though *)
(* the chooser's page was made from an earlier binding                     *)
(* (src/choose_page.go:14-18).                                             *)
(***************************************************************************)
ChoicesAreListed ==
    issued # None /\ issued.step \in {"approval", "chooser"} =>
        /\ DOMAIN issued.binding = DOMAIN issued.stored
        /\ \A k \in DOMAIN issued.stored :
              issued.binding[k] \in
                  IF Cardinality(ListedIn(issued.stored[k])) > 1
                  THEN ListedIn(issued.stored[k])
                  ELSE {issued.stored[k]} \cup ListedIn(issued.stored[k])
=============================================================================
