---------------------------- MODULE BindingSets ----------------------------
(***************************************************************************)
(* Binding values as comma-separated sets, and the choice of one member    *)
(* (src/choose_page.go).  A text is a sequence of characters.              *)
(***************************************************************************)
EXTENDS Naturals, Sequences, SequencesExt, FiniteSetsExt

Comma == ","

TrimSpace(text) ==
    LET inked == {i \in DOMAIN text : text[i] # " "}
    IN  IF inked = {} THEN <<>> ELSE SubSeq(text, Min(inked), Max(inked))

(* strings.Split: the parts of the first n characters, for every n. *)
SplitUpTo(text) ==
    LET parts[n \in 0..Len(text)] ==
            IF n = 0 THEN << <<>> >>
            ELSE IF text[n] = Comma THEN Append(parts[n - 1], <<>>)
            ELSE [parts[n - 1] EXCEPT ![Len(parts[n - 1])] = Append(@, text[n])]
    IN  parts

Split(text) == SplitUpTo(text)[Len(text)]

(* bindingSet: the members, and whether there is more than one. *)
BindingSet(text) ==
    IF Comma \notin ToSet(text) THEN <<>>
    ELSE LET parts == Split(text)
         IN  FlattenSeq([i \in DOMAIN parts |->
                            IF TrimSpace(parts[i]) = <<>> THEN <<>>
                            ELSE <<TrimSpace(parts[i])>>])

IsBindingSet(text) == Len(BindingSet(text)) > 1

SetValuedKeys(binding) == {k \in DOMAIN binding : IsBindingSet(binding[k])}

(* Mutation of Offers: anything that stands in the value is taken. *)
OffersParts(text, chosen) ==
    \E i, j \in DOMAIN text : chosen = SubSeq(text, i, j)

Offers(text, chosen) == chosen \in ToSet(BindingSet(text))

(* resolveBindingChoices: may the choices be made, and what they make.     *)
ChoicesValid(binding, choice) ==
    \A k \in SetValuedKeys(binding) : Offers(binding[k], choice[k])

ResolveBindingChoices(binding, choice) ==
    [k \in DOMAIN binding |->
        IF k \in SetValuedKeys(binding) THEN choice[k] ELSE binding[k]]

(* What a person reads as listed in a text: what stands between a comma or *)
(* end and the next, without the blanks around it.                         *)
ListedIn(text) ==
    LET bounds == {0, Len(text) + 1} \cup {i \in DOMAIN text : text[i] = Comma}
    IN  {TrimSpace(SubSeq(text, i + 1, Min({j \in bounds : j > i}) - 1)) :
            i \in bounds \ {Len(text) + 1}} \ {<<>>}
=============================================================================
