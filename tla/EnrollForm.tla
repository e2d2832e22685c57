----------------------------- MODULE EnrollForm -----------------------------
(***************************************************************************)
(* Enrollment descriptors and the form made of one (src/enrollment.go,     *)
(* src/enroll_view.go, src/enroll_template.go).  A key is the sequence of  *)
(* its parts, so that "a_b" is <<"a", "b">> and joining keys with "_" joins*)
(* the sequences.  Labels, help and snippets are left out.                 *)
(***************************************************************************)
EXTENDS Naturals, Sequences, SequencesExt, FiniteSets

Blank == ""

(* strings.TrimSpace, on the values that the model types. *)
Trimmed(value) == CASE value = " " -> Blank [] value = " u" -> "u" [] OTHER -> value

FieldKeys(m) == {m.fields[i].key : i \in DOMAIN m.fields}

(* Mutation of Validate: mode keys may repeat. *)
ValidateEach(e) ==
    /\ e.callback
    /\ e.modes # <<>>
    /\ \A m \in ToSet(e.modes) :
          /\ m.key # <<>> /\ m.fields # <<>>
          /\ <<>> \notin FieldKeys(m)
          /\ Cardinality(FieldKeys(m)) = Len(m.fields)

(* Enrollment.Validate *)
Validate(e) ==
    /\ e.callback
    /\ e.modes # <<>>
    /\ \A i \in DOMAIN e.modes :
          LET m == e.modes[i]
          IN  /\ m.key # <<>> /\ m.fields # <<>>
              /\ <<>> \notin FieldKeys(m)
              /\ Cardinality(FieldKeys(m)) = Len(m.fields)
              /\ \A j \in 1..(i - 1) : e.modes[j].key # m.key

(* Enrollment.mode: the modes that a posted key selects, one at most.      *)
ModesOf(e, key) ==
    IF key = <<>> /\ Len(e.modes) = 1 THEN ToSet(e.modes)
    ELSE {m \in ToSet(e.modes) : m.key = key}

(* Mutation of FieldInputName: names are not kept apart by mode. *)
FieldKeyOnly(modeKey, fieldKey) == <<"field">> \o fieldKey

FieldInputName(modeKey, fieldKey) == <<"field">> \o modeKey \o fieldKey

(* enrollModeViews: the inputs of the form in the order of the page, with  *)
(* what they show.                                                         *)
EnrollInputs(e, values) ==
    FlattenSeq([i \in DOMAIN e.modes |->
        [j \in DOMAIN e.modes[i].fields |->
            LET f == e.modes[i].fields[j]
            IN  [name |-> FieldInputName(e.modes[i].key, f.key),
                 mode |-> e.modes[i].key, key |-> f.key, secret |-> f.secret,
                 value |-> IF ~f.secret /\ f.key \in DOMAIN values
                           THEN values[f.key] ELSE Blank]]])

(* PostForm.Get: browsers post all inputs in the order of the page, and the*)
(* first of a name counts.                                                 *)
PostFormGet(inputs, filled, name) ==
    LET named == {i \in DOMAIN inputs : inputs[i].name = name}
    IN  IF named = {} THEN Blank
        ELSE filled[CHOOSE i \in named : \A j \in named : i <= j]

(* collectModeFields: values for the callback, ... *)
CollectValues(m, inputs, filled) ==
    [k \in FieldKeys(m) |->
        Trimmed(PostFormGet(inputs, filled, FieldInputName(m.key, k)))]

(* (Mutation of NonSecret: everything may be shown again.) *)
EverythingEntered(m, values) == values

(* ... those that may be shown again, ... *)
NonSecret(m, values) ==
    [k \in {f.key : f \in {g \in ToSet(m.fields) : ~g.secret}} |-> values[k]]

(* ... and the required ones left blank. *)
Missing(m, values) ==
    {f.key : f \in {g \in ToSet(m.fields) : ~g.optional /\ values[g.key] = Blank}}

(* Joined, the keys of a mode and of a field still tell the inputs apart.  *)
(* Validate does not ask for it: field "b_c" of mode "a" and field "c" of  *)
(* mode "a_b" share a name.                                                *)
KeysJoinUniquely(e) ==
    LET inputs == EnrollInputs(e, <<>>)
    IN  \A i, j \in DOMAIN inputs :
            inputs[i].mode \o inputs[i].key = inputs[j].mode \o inputs[j].key => i = j
=============================================================================
