------------------------ MODULE AuthorizeFlowProofs ------------------------
(***************************************************************************)
(* Proofs about AuthorizeFlow, for any names, tabs, resources, binding     *)
(* keys and any number of operator's edits.  The invariants speak of what  *)
(* a tab's POST carries from one step of its handler to the next; nothing  *)
(* that another tab or the operator does in between reaches it there.      *)
(***************************************************************************)
EXTENDS AuthorizeFlow, FiniteSetTheorems, TLAPS

LEMMA ProjectedType ==
    ASSUME NEW b \in Bindings, NEW x \in Resources
    PROVE  Projected(b, x) \in Bindings
BY DEF Projected, Bindings

LEMMA UnboundType == Unbound \in Bindings
BY DEF Unbound, Bindings

LEMMA OverlayType ==
    ASSUME NEW b \in Bindings, NEW patch \in Bindings
    PROVE  Overlay(b, patch) \in Bindings
BY DEF Overlay, Bindings

(* A choice leaves, for every key, one of the stored members or what was   *)
(* there.                                                                  *)
LEMMA ChosenType ==
    ASSUME NEW b \in Bindings, NEW pick \in [Keys -> Members], Chosen(b, pick) # None
    PROVE  /\ Chosen(b, pick) \in Bindings
           /\ Chosen(b, pick) = [k \in Keys |-> IF k \in SetValued(b) THEN {pick[k]} ELSE b[k]]
           /\ \A k \in SetValued(b) : pick[k] \in b[k]
BY DEF Chosen, Bindings

(* What identifies somebody identifies a principal that is stored now.     *)
LEMMA IdentifyType ==
    ASSUME TypeOK, NEW code \in PairingCodes \cup {None}, Identify(code) # None
    PROVE  /\ Identify(code) \in Grants
           /\ Identify(code).name = Anonymous => Identify(code).binding = Unbound
           /\ code # None => Identify(code).name = code.name
<1> USE FlowAssumption, UnboundType
        DEF TypeOK, GrantOf, Grants, Records, PairingCodes, SharedCode, CodeIsCurrent
<1>1. CASE code # None
    <2>1. Identify(code) = GrantOf(code.name) /\ code.name \in Names \cup {Anonymous}
        BY <1>1 DEF Identify
    <2> QED BY <2>1, <1>1 DEF Identify
<1>2. CASE code = None
    <2>1. Identify(code) = GrantOf(cookie)
        BY <1>2 DEF Identify
    <2> QED BY <2>1, <1>2 DEF Identify
<1> QED BY <1>1, <1>2
-----------------------------------------------------------------------------
Rounds == {"approval", "enroll", "choice", "chooser"}

(* What a tab's POST has in hand in each stage of its handler. *)
InHand(t) ==
    /\ page[t].step \in Rounds => page[t].resource \in Resources
    /\ stage[t] # "idle" => page[t].step \in Rounds
    /\ IF stage[t] = "idle" THEN grant[t] = None ELSE grant[t] \in Grants
    /\ stage[t] = "merge" => grant[t].name \in Names /\ page[t].step \in {"enroll", "choice"}
    /\ issued[t] # None => page[t].step = "over"

Held == \A t \in Tabs : InHand(t)

LEMMA InitType == Init => TypeOK /\ Held
<1> SUFFICES ASSUME Init PROVE TypeOK /\ Held
    OBVIOUS
<1> USE FlowAssumption, UnboundType DEF Init, Blank
<1>1. TypeOK
    BY DEF TypeOK, Records, Steps
<1>2. Held
    BY DEF Held, InHand, Rounds
<1> QED BY <1>1, <1>2

(* Steps that end a POST with another page, ... *)
LEMMA ShowType ==
    ASSUME TypeOK, Held, NEW t \in Tabs, NEW step \in Rounds,
           page[t].step \in Rounds, Show(t, step)
    PROVE  TypeOK' /\ Held'
<1> USE UnboundType DEF Show
<1>1. TypeOK'
    BY DEF TypeOK, Rounds, Steps
<1>2. \A u \in Tabs : /\ page'[u].step = IF u = t THEN step ELSE page[u].step
                      /\ page'[u].resource = page[u].resource
    BY DEF TypeOK
<1>3. issued[t] = None
    BY DEF Held, InHand, Rounds
<1>4. Held'
    BY <1>2, <1>3 DEF Held, InHand, TypeOK
<1> QED BY <1>1, <1>4

LEMMA ShowErrorType ==
    ASSUME TypeOK, Held, NEW t \in Tabs, ShowError(t)
    PROVE  TypeOK' /\ Held'
BY UnboundType DEF ShowError, TypeOK, Held, InHand, Rounds, Steps, Over, Blank

(* ... and steps that go on. *)
LEMMA ProceedType ==
    ASSUME TypeOK, Held, NEW t \in Tabs, NEW s \in {"verified", "merge", "issue"},
           NEW g \in Grants, stage[t] # "idle", Proceed(t, s, g),
           s = "merge" => g.name \in Names /\ page[t].step \in {"enroll", "choice"}
    PROVE  TypeOK' /\ Held'
BY DEF Proceed, TypeOK, Held, InHand, history

LEMMA EditType ==
    ASSUME TypeOK, Held, NEW n \in Names, NEW rec \in Records \cup {None}, Edit(n, rec),
           cookie' \in {cookie, None}
    PROVE  TypeOK' /\ Held'
BY FlowAssumption DEF Edit, TypeOK, Held, InHand, history

(* Every page that follows a POST: which one, and in which rounds.         *)
LEMMA PageShown ==
    ASSUME TypeOK, Held, NEW t \in Tabs,
           \/ ShowEnrollForm(t) \/ EnrollFails(t) \/ EnrollAsks(t)
           \/ ShowChooser(t) \/ ChooseAgain(t)
    PROVE  stage[t] # "idle" /\ \E step \in {"enroll", "choice", "chooser"} : Show(t, step)
BY DEF ShowEnrollForm, EnrollFails, EnrollAsks, ShowChooser, ChooseAgain, IsEnrollRound,
       NeedsEnrollment, AsksToEnroll, MayEnroll

LEMMA NextType == TypeOK /\ Held /\ [Next]_vars => TypeOK' /\ Held'
<1> SUFFICES ASSUME TypeOK, Held, [Next]_vars
             PROVE  TypeOK' /\ Held'
    OBVIOUS
<1> USE FlowAssumption
<1>1. ASSUME NEW t \in Tabs, Open(t)
      PROVE  TypeOK' /\ Held'
    <2>1. PICK x \in Resources :
              page' = [page EXCEPT ![t] = [step |-> "approval", resource |-> x, code |-> None]]
        BY <1>1 DEF Open, Blank
    <2>2. TypeOK'
        BY <1>1, <2>1, UnboundType DEF Open, TypeOK, Steps
    <2>3. stage[t] = "idle"
        BY <1>1 DEF Open, Held, InHand, Rounds
    <2>4. Held'
        BY <1>1, <2>1, <2>3 DEF Open, TypeOK, Held, InHand, Rounds
    <2> QED BY <2>2, <2>4
<1>2. ASSUME NEW t \in Tabs, Submit(t)
      PROVE  TypeOK' /\ Held'
    <2>1. PICK code \in PairingCodes \cup {None} :
              /\ Identify(code) # None
              /\ grant' = [grant EXCEPT ![t] = Identify(code)]
              /\ page' = [page EXCEPT ![t].code = code]
        BY <1>2 DEF Submit
    <2>2. Identify(code) \in Grants
        BY <2>1, IdentifyType
    <2>3. grant'[t] = Identify(code) /\ grant'[t].name \in Names \cup {Anonymous}
          /\ grant'[t].binding \in Bindings
        BY <2>1, <2>2 DEF TypeOK, Grants
    <2>4. TypeOK'
        BY <1>2, <2>1, <2>2, <2>3 DEF Submit, TypeOK
    <2>5. Held'
        BY <1>2, <2>1, <2>2 DEF Submit, TypeOK, Held, InHand, Rounds
    <2> QED BY <2>4, <2>5
<1>3. ASSUME NEW t \in Tabs, SubmitUnverified(t)
      PROVE  TypeOK' /\ Held'
    BY <1>3 DEF SubmitUnverified, TypeOK, Held, InHand, Rounds, Steps, Blank
<1>4. ASSUME NEW t \in Tabs,
             \/ ShowEnrollForm(t) \/ EnrollFails(t) \/ EnrollAsks(t)
             \/ ShowChooser(t) \/ ChooseAgain(t)
      PROVE  TypeOK' /\ Held'
    <2>1. page[t].step \in Rounds /\ \E step \in Rounds : Show(t, step)
        BY <1>4, PageShown DEF Held, InHand, Rounds
    <2> QED BY <2>1, ShowType
<1>5. ASSUME NEW t \in Tabs, EnrollBroken(t) \/ MergeFails(t)
      PROVE  TypeOK' /\ Held'
    BY <1>5, ShowErrorType DEF EnrollBroken, MergeFails
<1>6. ASSUME NEW t \in Tabs, EnrollSucceeds(t)
      PROVE  TypeOK' /\ Held'
    <2>1. /\ stage[t] # "idle" /\ grant[t] \in Grants
          /\ grant[t].name \in Names /\ page[t].step \in {"enroll", "choice"}
        BY <1>6 DEF EnrollSucceeds, IsEnrollRound, MayEnroll, Held, InHand, Grants
    <2> QED BY <1>6, <2>1, ProceedType DEF EnrollSucceeds
<1>7. ASSUME NEW t \in Tabs, Merge(t)
      PROVE  TypeOK' /\ Held'
    <2> DEFINE n == grant[t].name
    <2>1. /\ n \in Names /\ grant[t] \in Grants
          /\ page[t].resource \in Resources /\ page[t].step \in {"enroll", "choice"}
          /\ record[n] \in Records
        BY <1>7 DEF Merge, Held, InHand, Rounds, TypeOK
    <2>2. PICK patch \in Patches[page[t].resource] :
              /\ record' = [record EXCEPT ![n].binding = Merged(t, patch)]
              /\ grant' = [grant EXCEPT ![t].binding = Merged(t, patch)]
              /\ stored' = [stored EXCEPT ![t] = Merged(t, patch)]
        BY <1>7 DEF Merge
    <2>3. patch \in Bindings
        BY <2>1, <2>2 DEF Patches
    <2>4. Merged(t, patch) \in Bindings
        BY <2>1, <2>3, OverlayType DEF Merged, Records
    <2>5. record' \in [Names -> Records \cup {None}]
        BY <2>1, <2>2, <2>4 DEF TypeOK, Records
    <2>6. grant' \in [Tabs -> Grants \cup {None}] /\ grant'[t] \in Grants
        BY <2>1, <2>2, <2>4 DEF TypeOK, Grants
    <2>7. TypeOK'
        BY <1>7, <2>2, <2>4, <2>5, <2>6 DEF Merge, TypeOK
    <2>8. Held'
        BY <1>7, <2>1, <2>2, <2>6 DEF Merge, TypeOK, Held, InHand, Rounds
    <2> QED BY <2>7, <2>8
<1>8. ASSUME NEW t \in Tabs, Choose(t)
      PROVE  TypeOK' /\ Held'
    <2>1. grant[t] \in Grants /\ stage[t] = "verified"
        BY <1>8 DEF Choose, Held, InHand
    <2>2. PICK pick \in [Keys -> Members] :
              /\ Chosen(grant[t].binding, pick) # None
              /\ Proceed(t, "issue",
                    [grant[t] EXCEPT !.binding = Chosen(grant[t].binding, pick)])
        BY <1>8, <2>1 DEF Choose, Grants
    <2>3. [grant[t] EXCEPT !.binding = Chosen(grant[t].binding, pick)] \in Grants
        BY <2>1, <2>2, ChosenType DEF Grants
    <2> QED BY <2>1, <2>2, <2>3, ProceedType
<1>9. ASSUME NEW t \in Tabs, NothingToChoose(t)
      PROVE  TypeOK' /\ Held'
    <2>1. grant[t] \in Grants /\ stage[t] # "idle"
        BY <1>9 DEF NothingToChoose, Held, InHand
    <2> QED BY <1>9, <2>1, ProceedType DEF NothingToChoose
<1>10. ASSUME NEW t \in Tabs, Issue(t)
       PROVE  TypeOK' /\ Held'
    <2>1. /\ grant[t] \in Grants /\ page[t].resource \in Resources
          /\ page[t].step \in Steps
        BY <1>10 DEF Issue, Held, InHand, Rounds, TypeOK
    <2>2. [name |-> grant[t].name, binding |-> grant[t].binding,
           resource |-> page[t].resource, round |-> page[t].step,
           entered |-> page[t].code # None] \in IssuedGrants
        BY <2>1 DEF IssuedGrants, Grants
    <2>3. cookie' \in Names \cup {Anonymous, None}
        BY <1>10, <2>1 DEF Issue, Grants, TypeOK
    <2>4. TypeOK'
        BY <1>10, <2>2, <2>3 DEF Issue, TypeOK, history, Over, Blank, Steps
    <2>5. Held'
        BY <1>10 DEF Issue, TypeOK, Held, InHand, Rounds, Over, Blank
    <2> QED BY <2>4, <2>5
<1>11. CASE SessionExpires
    BY <1>11 DEF SessionExpires, TypeOK, Held, InHand, history
<1>12. ASSUME NEW n \in Names, Add(n) \/ SetBinding(n) \/ Rotate(n) \/ Remove(n)
       PROVE  TypeOK' /\ Held'
    <2>1. ASSUME Add(n)
          PROVE  \E rec \in Records : Edit(n, rec)
        <3>1. Kept(n) \in Bindings
            BY UnboundType DEF Kept, TypeOK, Records
        <3>2. PICK b \in OperatorBindings \cup {Kept(n)} :
                  Edit(n, [secret |-> edits + 1, binding |-> b])
            BY <2>1 DEF Add
        <3>3. [secret |-> edits + 1, binding |-> b] \in Records
            BY <3>1, <3>2 DEF Edit, TypeOK, Records
        <3> QED BY <3>2, <3>3
    <2>2. ASSUME SetBinding(n)
          PROVE  \E rec \in Records : Edit(n, rec)
        BY <2>2 DEF SetBinding, TypeOK, Records
    <2>3. ASSUME Rotate(n)
          PROVE  \E rec \in Records : Edit(n, rec)
        <3>1. Edit(n, [record[n] EXCEPT !.secret = edits + 1]) /\ record[n] \in Records
            BY <2>3 DEF Rotate, TypeOK
        <3>2. edits + 1 \in 0..MaxEdits
            BY <3>1 DEF Edit, TypeOK
        <3>3. [record[n] EXCEPT !.secret = edits + 1] \in Records
            BY <3>1, <3>2 DEF Records
        <3> QED BY <3>1, <3>3
    <2>4. cookie' \in {cookie, None}
        BY <1>12 DEF Add, SetBinding, Rotate, Remove
    <2> QED BY <1>12, <2>1, <2>2, <2>3, <2>4, EditType DEF Remove
<1>13. CASE UNCHANGED vars
    BY <1>13 DEF vars, TypeOK, Held, InHand
<1> QED BY <1>1, <1>2, <1>3, <1>4, <1>5, <1>6, <1>7, <1>8, <1>9, <1>10, <1>11, <1>12, <1>13
        DEF Next

(* Type correctness of the rounds of an approval. *)
THEOREM TypeCorrect == Spec => []TypeOK
BY InitType, NextType, PTL DEF Spec
-----------------------------------------------------------------------------
(* A code that was entered names the person, from the first POST of the    *)
(* approval to its authorization code.                                     *)
EnteredNames(t) ==
    /\ page[t].code # None =>
          /\ page[t].code.name = starter[t]
          /\ stage[t] # "idle" => grant[t].name = page[t].code.name
    /\ issued[t] # None /\ issued[t].entered => issued[t].name = starter[t]

(* An approval that is at its end keeps the binding it is to be issued     *)
(* for in step with what the store held.                                   *)
BindingInHand(t) ==
    /\ stage[t] # "idle" /\ grant[t].name = Anonymous => grant[t].binding = Unbound
    /\ stage[t] \in {"verified", "merge"} => grant[t].binding = stored[t]
    /\ stage[t] = "issue" =>
          /\ \A k \in Keys :
                /\ grant[t].binding[k] \subseteq stored[t][k]
                /\ stored[t][k] # {} => grant[t].binding[k] # {}
                /\ page[t].step \notin {"enroll", "choice"} =>
                      Cardinality(grant[t].binding[k]) <= 1
          /\ grant[t].name # Anonymous /\ page[t].resource \in Enrolls =>
                Projected(grant[t].binding, page[t].resource) # Unbound

(* ... and what was issued is as it was. *)
BindingIssued(t) ==
    issued[t] # None =>
        /\ \A k \in Keys :
              /\ issued[t].binding[k] \subseteq stored[t][k]
              /\ stored[t][k] # {} => issued[t].binding[k] # {}
              /\ issued[t].round \notin {"enroll", "choice"} =>
                    Cardinality(issued[t].binding[k]) <= 1
        /\ issued[t].name # Anonymous /\ issued[t].resource \in Enrolls =>
              Projected(issued[t].binding, issued[t].resource) # Unbound

CarriedBy(t) == EnteredNames(t) /\ BindingInHand(t) /\ BindingIssued(t)

Carried == \A t \in Tabs : CarriedBy(t)

LEMMA InitCarried == Init => Carried
BY DEF Init, Carried, CarriedBy, EnteredNames, BindingInHand, BindingIssued, Blank

(* A value that is no set has at most one member. *)
LEMMA NoSetIsSmall ==
    ASSUME NEW b \in Bindings, NEW k \in Keys, k \notin SetValued(b)
    PROVE  Cardinality(b[k]) <= 1
<1>1. IsFiniteSet(b[k])
    BY FlowAssumption, FS_Subset DEF Bindings
<1>2. Cardinality(b[k]) \in Nat
    BY <1>1, FS_CardinalityType
<1> QED BY <1>2 DEF SetValued

(* A choice keeps to the stored binding, key by key, ... *)
LEMMA ChosenFromStored ==
    ASSUME NEW b \in Bindings, NEW pick \in [Keys -> Members], Chosen(b, pick) # None
    PROVE  \A k \in Keys :
              /\ Chosen(b, pick)[k] \subseteq b[k]
              /\ b[k] # {} => Chosen(b, pick)[k] # {}
              /\ Cardinality(Chosen(b, pick)[k]) <= 1
<1> SUFFICES ASSUME NEW k \in Keys
             PROVE  /\ Chosen(b, pick)[k] \subseteq b[k]
                    /\ b[k] # {} => Chosen(b, pick)[k] # {}
                    /\ Cardinality(Chosen(b, pick)[k]) <= 1
    OBVIOUS
<1>1. CASE k \in SetValued(b)
    <2>1. Chosen(b, pick)[k] = {pick[k]} /\ pick[k] \in b[k]
        BY <1>1, ChosenType
    <2>2. Cardinality({pick[k]}) = 1
        BY FS_Singleton
    <2> QED BY <2>1, <2>2
<1>2. CASE k \notin SetValued(b)
    <2>1. Chosen(b, pick)[k] = b[k]
        BY <1>2, ChosenType
    <2> QED BY <1>2, <2>1, NoSetIsSmall
<1> QED BY <1>1, <1>2

(* ... and so leaves nobody unbound. *)
LEMMA StillBound ==
    ASSUME NEW b \in Bindings, NEW c \in Bindings, NEW x \in Resources,
           \A k \in Keys : b[k] # {} => c[k] # {},
           Projected(b, x) # Unbound
    PROVE  Projected(c, x) # Unbound
BY DEF Projected, Unbound, Bindings

(* An enrollment binds for its resource. *)
LEMMA MergedIsBound ==
    ASSUME NEW b \in Bindings, NEW x \in Resources, NEW patch \in Patches[x]
    PROVE  /\ Overlay(b, patch) \in Bindings
           /\ Projected(Overlay(b, patch), x) # Unbound
           /\ \A k \in Keys \ KeysOf[x] : Overlay(b, patch)[k] = b[k]
<1>1. patch \in Bindings /\ patch # Unbound /\ \A k \in Keys \ KeysOf[x] : patch[k] = {}
    BY DEF Patches
<1>2. PICK k \in Keys : patch[k] # {}
    BY <1>1 DEF Bindings, Unbound
<1>3. Projected(Overlay(b, patch), x)[k] = patch[k]
    BY <1>1, <1>2 DEF Projected, Overlay
<1>4. Projected(Overlay(b, patch), x) # Unbound
    BY <1>2, <1>3 DEF Unbound
<1> QED BY <1>1, <1>4, OverlayType DEF Overlay
-----------------------------------------------------------------------------
(* What a step leaves alone of a tab, that the tab still carries; and a    *)
(* step of one tab leaves the others alone.                                *)
LEMMA LeftAlone ==
    ASSUME Carried, NEW u \in Tabs,
           page'[u] = page[u], stage'[u] = stage[u], grant'[u] = grant[u],
           issued'[u] = issued[u], starter'[u] = starter[u], stored'[u] = stored[u]
    PROVE  CarriedBy(u)'
<1>1. CarriedBy(u)
    BY DEF Carried
<1>2. EnteredNames(u)'
    BY <1>1 DEF CarriedBy, EnteredNames
<1>3. BindingInHand(u)'
    BY <1>1 DEF CarriedBy, BindingInHand
<1>4. BindingIssued(u)'
    BY <1>1 DEF CarriedBy, BindingIssued
<1> QED BY <1>2, <1>3, <1>4 DEF CarriedBy

LEMMA OneTab ==
    ASSUME Carried, NEW t \in Tabs, CarriedBy(t)',
           \A u \in Tabs \ {t} :
              /\ page'[u] = page[u] /\ stage'[u] = stage[u] /\ grant'[u] = grant[u]
              /\ issued'[u] = issued[u] /\ starter'[u] = starter[u] /\ stored'[u] = stored[u]
    PROVE  Carried'
<1>1. \A u \in Tabs \ {t} : CarriedBy(u)'
    BY LeftAlone
<1> QED BY <1>1 DEF Carried

(* A tab that is at rest, with no code issued, carries the entered code.   *)
LEMMA AtRest ==
    ASSUME NEW t \in Tabs, stage'[t] = "idle", issued'[t] = None,
           page'[t].code # None => page'[t].code.name = starter'[t]
    PROVE  CarriedBy(t)'
BY DEF CarriedBy, EnteredNames, BindingInHand, BindingIssued

LEMMA ShowCarried ==
    ASSUME TypeOK, Held, Carried, NEW t \in Tabs, NEW step \in Rounds,
           stage[t] # "idle", Show(t, step)
    PROVE  Carried'
<1>1. issued'[t] = None /\ stage'[t] = "idle"
    BY DEF Show, TypeOK, Held, InHand, Rounds
<1>2. page'[t].code = page[t].code /\ starter'[t] = starter[t]
    BY DEF Show, TypeOK
<1>3. page[t].code # None => page[t].code.name = starter[t]
    BY DEF Carried, CarriedBy, EnteredNames
<1>4. CarriedBy(t)'
    BY <1>1, <1>2, <1>3, AtRest
<1> QED BY <1>4, OneTab DEF Show, TypeOK

LEMMA ShowErrorCarried ==
    ASSUME TypeOK, Held, Carried, NEW t \in Tabs, stage[t] # "idle", ShowError(t)
    PROVE  Carried'
<1>1. issued'[t] = None /\ stage'[t] = "idle" /\ page'[t].code = None
    BY DEF ShowError, TypeOK, Held, InHand, Rounds, Over, Blank
<1>2. CarriedBy(t)'
    BY <1>1, AtRest
<1> QED BY <1>2, OneTab DEF ShowError, TypeOK

(* A POST that goes on to its code with a binding that is fit for it.      *)
LEMMA ReadyCarried ==
    ASSUME TypeOK, Held, Carried, NEW t \in Tabs, NEW g \in Grants,
           stage[t] # "idle", g.name = grant[t].name, Proceed(t, "issue", g),
           g.name = Anonymous => g.binding = Unbound,
           \A k \in Keys : /\ g.binding[k] \subseteq stored[t][k]
                           /\ stored[t][k] # {} => g.binding[k] # {}
                           /\ Cardinality(g.binding[k]) <= 1,
           g.name # Anonymous /\ page[t].resource \in Enrolls =>
              Projected(g.binding, page[t].resource) # Unbound
    PROVE  Carried'
<1>1. /\ page'[t] = page[t] /\ issued'[t] = issued[t]
      /\ starter'[t] = starter[t] /\ stored'[t] = stored[t]
      /\ stage'[t] = "issue" /\ grant'[t] = g /\ issued[t] = None
    BY DEF Proceed, history, TypeOK, Held, InHand, Rounds
<1>2. EnteredNames(t)'
    BY <1>1 DEF Carried, CarriedBy, EnteredNames
<1>3. BindingInHand(t)'
    BY <1>1 DEF BindingInHand
<1>4. BindingIssued(t)'
    BY <1>1 DEF BindingIssued
<1>5. CarriedBy(t)'
    BY <1>2, <1>3, <1>4 DEF CarriedBy
<1> QED BY <1>5, OneTab DEF Proceed, history, TypeOK

LEMMA NextCarried == TypeOK /\ Held /\ Carried /\ [Next]_vars => Carried'
<1> SUFFICES ASSUME TypeOK, Held, Carried, [Next]_vars
             PROVE  Carried'
    OBVIOUS
<1>1. ASSUME NEW t \in Tabs, Open(t)
      PROVE  Carried'
    <2>1. stage'[t] = "idle" /\ issued'[t] = None /\ page'[t].code = None
        BY <1>1 DEF Open, TypeOK, Held, InHand, Rounds, Blank
    <2>2. CarriedBy(t)'
        BY <2>1, AtRest
    <2> QED BY <1>1, <2>2, OneTab DEF Open, TypeOK
<1>2. ASSUME NEW t \in Tabs, Submit(t)
      PROVE  Carried'
    <2>1. PICK code \in PairingCodes \cup {None} :
              /\ Entered(t, code)
              /\ Identify(code) # None
              /\ grant' = [grant EXCEPT ![t] = Identify(code)]
              /\ page' = [page EXCEPT ![t].code = code]
        BY <1>2 DEF Submit
    <2>2. /\ page'[t].code = code /\ stage'[t] = "verified"
          /\ grant'[t] = Identify(code) /\ stored'[t] = Identify(code).binding
          /\ issued'[t] = None
        BY <1>2, <2>1 DEF Submit, TypeOK, Held, InHand, Rounds
    <2>3. code # None => code.name = starter'[t]
        <3>1. CASE page[t].step = "approval"
            <4>1. starter'[t] = Identify(code).name
                BY <1>2, <2>1, <2>2, <3>1 DEF Submit, TypeOK
            <4> QED BY <2>1, <4>1, IdentifyType
        <3>2. CASE page[t].step # "approval"
            <4>1. starter'[t] = starter[t] /\ code = page[t].code
                BY <1>2, <2>1, <3>2 DEF Submit, Entered
            <4> QED BY <4>1 DEF Carried, CarriedBy, EnteredNames
        <3> QED BY <3>1, <3>2
    <2>4. EnteredNames(t)'
        BY <2>1, <2>2, <2>3, IdentifyType DEF EnteredNames
    <2>5. BindingInHand(t)'
        BY <2>1, <2>2, IdentifyType DEF BindingInHand
    <2>6. BindingIssued(t)'
        BY <2>2 DEF BindingIssued
    <2>7. CarriedBy(t)'
        BY <2>4, <2>5, <2>6 DEF CarriedBy
    <2> QED BY <1>2, <2>1, <2>7, OneTab DEF Submit, TypeOK
<1>3. ASSUME NEW t \in Tabs, SubmitUnverified(t)
      PROVE  Carried'
    <2>1. stage'[t] = "idle" /\ issued'[t] = None /\ page'[t].code = None
        BY <1>3 DEF SubmitUnverified, TypeOK, Held, InHand, Rounds, Blank
    <2>2. CarriedBy(t)'
        BY <2>1, AtRest
    <2> QED BY <1>3, <2>2, OneTab DEF SubmitUnverified, TypeOK
<1>4. ASSUME NEW t \in Tabs,
             \/ ShowEnrollForm(t) \/ EnrollFails(t) \/ EnrollAsks(t)
             \/ ShowChooser(t) \/ ChooseAgain(t)
      PROVE  Carried'
    <2>1. stage[t] # "idle" /\ \E step \in Rounds : Show(t, step)
        BY <1>4, PageShown DEF Rounds
    <2> QED BY <2>1, ShowCarried
<1>5. ASSUME NEW t \in Tabs, EnrollBroken(t) \/ MergeFails(t)
      PROVE  Carried'
    <2>1. stage[t] # "idle" /\ ShowError(t)
        BY <1>5 DEF EnrollBroken, MergeFails, IsEnrollRound, MayEnroll
    <2> QED BY <2>1, ShowErrorCarried
<1>6. ASSUME NEW t \in Tabs, EnrollSucceeds(t)
      PROVE  Carried'
    <2>1. stage[t] = "verified" /\ Proceed(t, "merge", grant[t])
        BY <1>6 DEF EnrollSucceeds, IsEnrollRound, MayEnroll
    <2>2. /\ page'[t] = page[t] /\ issued'[t] = issued[t] /\ grant'[t] = grant[t]
          /\ starter'[t] = starter[t] /\ stored'[t] = stored[t] /\ stage'[t] = "merge"
        BY <2>1 DEF Proceed, history, TypeOK
    <2>3. CarriedBy(t)
        BY DEF Carried
    <2>4. EnteredNames(t)' /\ BindingInHand(t)' /\ BindingIssued(t)'
        BY <2>1, <2>2, <2>3 DEF CarriedBy, EnteredNames, BindingInHand, BindingIssued
    <2>5. CarriedBy(t)'
        BY <2>4 DEF CarriedBy
    <2> QED BY <2>1, <2>5, OneTab DEF Proceed, history, TypeOK
<1>7. ASSUME NEW t \in Tabs, Merge(t)
      PROVE  Carried'
    <2> DEFINE n == grant[t].name
               x == page[t].resource
    <2>1. /\ n \in Names /\ grant[t] \in Grants /\ x \in Resources
          /\ page[t].step \in {"enroll", "choice"}
          /\ record[n].binding \in Bindings /\ stage[t] = "merge" /\ issued[t] = None
        BY <1>7 DEF Merge, Held, InHand, Rounds, TypeOK, Records
    <2>2. PICK patch \in Patches[x] :
              /\ grant' = [grant EXCEPT ![t].binding = Merged(t, patch)]
              /\ stored' = [stored EXCEPT ![t] = Merged(t, patch)]
        BY <1>7 DEF Merge
    <2>3. /\ Merged(t, patch) \in Bindings
          /\ Projected(Merged(t, patch), x) # Unbound
        BY <2>1, <2>2, MergedIsBound DEF Merged
    <2>4. /\ page'[t] = page[t] /\ issued'[t] = None /\ starter'[t] = starter[t]
          /\ stage'[t] = "issue" /\ stored'[t] = Merged(t, patch)
          /\ grant'[t].name = n /\ grant'[t].binding = Merged(t, patch)
        BY <1>7, <2>1, <2>2 DEF Merge, TypeOK, Grants
    <2>5. CarriedBy(t)
        BY DEF Carried
    <2>6. EnteredNames(t)'
        BY <2>1, <2>4, <2>5 DEF CarriedBy, EnteredNames
    <2>7. n # Anonymous
        BY <2>1, FlowAssumption
    <2>8. BindingInHand(t)'
        BY <2>1, <2>3, <2>4, <2>7 DEF BindingInHand
    <2>9. BindingIssued(t)'
        BY <2>4 DEF BindingIssued
    <2>10. CarriedBy(t)'
        BY <2>6, <2>8, <2>9 DEF CarriedBy
    <2> QED BY <1>7, <2>2, <2>10, OneTab DEF Merge, TypeOK
<1>8. ASSUME NEW t \in Tabs, Choose(t)
      PROVE  Carried'
    <2> DEFINE b == grant[t].binding
               x == page[t].resource
    <2>1. /\ stage[t] = "verified" /\ grant[t] \in Grants /\ x \in Resources
          /\ b \in Bindings /\ b = stored[t] /\ grant[t].name # Anonymous
        BY <1>8 DEF Choose, MustChoose, Held, InHand, Carried, CarriedBy, BindingInHand,
                    Grants
    <2>2. PICK pick \in [Keys -> Members] :
              /\ Chosen(b, pick) # None
              /\ Proceed(t, "issue", [grant[t] EXCEPT !.binding = Chosen(b, pick)])
        BY <1>8, <2>1 DEF Choose, Grants
    <2> DEFINE g == [grant[t] EXCEPT !.binding = Chosen(b, pick)]
    <2>3. g \in Grants /\ g.name = grant[t].name /\ g.binding = Chosen(b, pick)
        BY <2>1, <2>2, ChosenType DEF Grants
    <2>4. \A k \in Keys : /\ Chosen(b, pick)[k] \subseteq b[k]
                          /\ b[k] # {} => Chosen(b, pick)[k] # {}
                          /\ Cardinality(Chosen(b, pick)[k]) <= 1
        BY <2>1, <2>2, ChosenFromStored
    <2>5. x \in Enrolls => Projected(b, x) # Unbound
        BY <1>8, <2>1 DEF Choose, Diverts, NeedsEnrollment, MayEnroll
    <2>6. x \in Enrolls => Projected(Chosen(b, pick), x) # Unbound
        <3> SUFFICES ASSUME x \in Enrolls PROVE Projected(Chosen(b, pick), x) # Unbound
            OBVIOUS
        <3>1. Chosen(b, pick) \in Bindings
            BY <2>1, <2>2, ChosenType
        <3> HIDE DEF b, x
        <3> QED BY <2>1, <2>4, <2>5, <3>1, StillBound
    <2> HIDE DEF g
    <2> QED BY <2>1, <2>2, <2>3, <2>4, <2>6, ReadyCarried DEF g
<1>9. ASSUME NEW t \in Tabs, NothingToChoose(t)
      PROVE  Carried'
    <2> DEFINE g == grant[t]
               x == page[t].resource
    <2>1. /\ stage[t] = "verified" /\ g \in Grants /\ x \in Resources
          /\ g.binding \in Bindings /\ g.binding = stored[t]
          /\ g.name = Anonymous => g.binding = Unbound
        BY <1>9 DEF NothingToChoose, Held, InHand, Carried, CarriedBy, BindingInHand, Grants
    <2>2. \A k \in Keys : Cardinality(g.binding[k]) <= 1
        <3>1. CASE g.name = Anonymous
            BY <2>1, <3>1, FS_EmptySet DEF Unbound
        <3>2. CASE g.name # Anonymous
            <4>1. SetValued(g.binding) = {}
                BY <1>9, <3>2 DEF NothingToChoose, MustChoose
            <4> QED BY <2>1, <4>1, NoSetIsSmall
        <3> QED BY <3>1, <3>2
    <2>3. g.name # Anonymous /\ x \in Enrolls => Projected(g.binding, x) # Unbound
        BY <1>9, <2>1 DEF NothingToChoose, Diverts, NeedsEnrollment, MayEnroll
    <2>4. Proceed(t, "issue", g)
        BY <1>9 DEF NothingToChoose
    <2> QED BY <2>1, <2>2, <2>3, <2>4, ReadyCarried
<1>10. ASSUME NEW t \in Tabs, Issue(t)
       PROVE  Carried'
    <2>1. CarriedBy(t) /\ stage[t] = "issue"
        BY <1>10 DEF Issue, Carried
    <2>2. /\ page'[t].code = None /\ stage'[t] = "idle"
          /\ starter'[t] = starter[t] /\ stored'[t] = stored[t]
          /\ issued'[t] = [name |-> grant[t].name, binding |-> grant[t].binding,
                           resource |-> page[t].resource, round |-> page[t].step,
                           entered |-> page[t].code # None]
        BY <1>10 DEF Issue, TypeOK, history, Over, Blank
    <2>3. EnteredNames(t)'
        <3>1. issued'[t].entered = (page[t].code # None) /\ issued'[t].name = grant[t].name
            BY <2>2
        <3>2. page[t].code # None => grant[t].name = starter[t]
            BY <2>1 DEF CarriedBy, EnteredNames
        <3> QED BY <2>2, <3>1, <3>2 DEF EnteredNames
    <2>4. BindingInHand(t)'
        BY <2>2 DEF BindingInHand
    <2>5. BindingIssued(t)'
        BY <2>1, <2>2 DEF CarriedBy, BindingInHand, BindingIssued
    <2>6. CarriedBy(t)'
        BY <2>3, <2>4, <2>5 DEF CarriedBy
    <2> QED BY <1>10, <2>6, OneTab DEF Issue, TypeOK, history
<1>11. CASE \/ SessionExpires \/ UNCHANGED vars
            \/ \E n \in Names : Add(n) \/ SetBinding(n) \/ Rotate(n) \/ Remove(n)
    <2>1. /\ page' = page /\ stage' = stage /\ grant' = grant
          /\ issued' = issued /\ starter' = starter /\ stored' = stored
        BY <1>11 DEF SessionExpires, vars, history, Add, SetBinding, Rotate, Remove, Edit
    <2>2. ASSUME NEW t \in Tabs
          PROVE  CarriedBy(t)'
        BY <2>1, LeftAlone
    <2> QED BY <2>2 DEF Carried
<1> QED BY <1>1, <1>2, <1>3, <1>4, <1>5, <1>6, <1>7, <1>8, <1>9, <1>10, <1>11 DEF Next
-----------------------------------------------------------------------------
LEMMA Invariance == Spec => [](TypeOK /\ Held /\ Carried)
<1>1. Init => TypeOK /\ Held /\ Carried
    BY InitType, InitCarried
<1>2. TypeOK /\ Held /\ Carried /\ [Next]_vars => (TypeOK /\ Held /\ Carried)'
    BY NextType, NextCarried
<1> QED BY <1>1, <1>2, PTL DEF Spec

(* No code for a named principal that is unbound for the resource, if an   *)
(* enrollment is configured for it: whether the principal is bound is      *)
(* decided in the POST that issues, on the binding it goes on with.        *)
THEOREM UnboundEnrollFirst == Spec => []NoCodeWhileUnbound
<1>1. Carried => NoCodeWhileUnbound
    BY DEF Carried, CarriedBy, BindingIssued, NoCodeWhileUnbound
<1> QED BY <1>1, Invariance, PTL

(* A code carries what the store held for the principal in the POST that   *)
(* issues it, all of its keys, one member of each set.                     *)
THEOREM ChoicesAreValidated == Spec => []ChoicesComeFromTheStore
<1>1. Carried => ChoicesComeFromTheStore
    BY DEF Carried, CarriedBy, BindingIssued, ChoicesComeFromTheStore
<1> QED BY <1>1, Invariance, PTL

(* Who entered a code is who the code is issued for, whatever the session  *)
(* cookie names by then.                                                   *)
THEOREM EnteredCodeWins == Spec => []EnteredCodeDecides
<1>1. Carried => EnteredCodeDecides
    BY DEF Carried, CarriedBy, EnteredNames, EnteredCodeDecides
<1> QED BY <1>1, Invariance, PTL

(* An enrollment for one resource clobbers no other's binding, also when   *)
(* two tabs enroll the same principal: the patch goes over what is stored  *)
(* at the time of the merge.                                               *)
THEOREM EnrollmentsDoNotClobber == Spec => EnrollmentsAccumulate
<1> DEFINE Step == \A t \in Tabs, n \in Names :
                      stage'[t] # stage[t] /\ record'[n] # record[n] =>
                          \A k \in Keys \ KeysOf[page[t].resource] :
                              record'[n].binding[k] = record[n].binding[k]
<1>1. ASSUME TypeOK, Held, [Next]_vars
      PROVE  [Step]_vars
    <2> SUFFICES ASSUME NEW t \in Tabs, NEW n \in Names,
                        stage'[t] # stage[t], record'[n] # record[n],
                        NEW k \in Keys \ KeysOf[page[t].resource]
                 PROVE  record'[n].binding[k] = record[n].binding[k]
        OBVIOUS
    <2>1. PICK u \in Tabs : Merge(u)
        <3>1. record' # record /\ stage' # stage
            OBVIOUS
        <3> QED BY <1>1, <3>1 DEF Next, vars, history, Open, Submit, SubmitUnverified, Show,
                    ShowError, Proceed, ShowEnrollForm, EnrollFails, EnrollAsks,
                    EnrollBroken, EnrollSucceeds, MergeFails, ShowChooser, Choose,
                    ChooseAgain, NothingToChoose, Issue, SessionExpires,
                    Edit, Add, SetBinding, Rotate, Remove
    <2>2. u = t
        BY <1>1, <2>1 DEF Merge, TypeOK
    <2>3. /\ grant[t].name \in Names /\ page[t].resource \in Resources
          /\ record[grant[t].name] \in Records
        BY <1>1, <2>1, <2>2 DEF Merge, TypeOK, Held, InHand, Rounds
    <2>4. PICK patch \in Patches[page[t].resource] :
              record' = [record EXCEPT ![grant[t].name].binding = Merged(t, patch)]
        BY <2>1, <2>2 DEF Merge
    <2>5. n = grant[t].name
        BY <1>1, <2>4 DEF TypeOK
    <2>6. record'[n].binding = Merged(t, patch)
        BY <1>1, <2>3, <2>4, <2>5 DEF TypeOK, Records
    <2>7. record[n].binding \in Bindings
        BY <2>3, <2>5 DEF Records
    <2>8. Merged(t, patch)[k] = record[n].binding[k]
        BY <2>3, <2>4, <2>5, <2>7, MergedIsBound DEF Merged
    <2> QED BY <2>6, <2>8
<1>2. TypeOK /\ Held /\ [Next]_vars => [Step]_vars
    BY <1>1
<1> QED BY <1>2, Invariance, PTL DEF Spec, EnrollmentsAccumulate
=============================================================================
