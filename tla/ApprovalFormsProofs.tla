------------------------ MODULE ApprovalFormsProofs ------------------------
(***************************************************************************)
(* Proofs about the forms of an approval, for any enrollments, names,      *)
(* texts and entries.  What the operators on texts return is proved first, *)
(* by the induction of SequenceLemmas; the invariants follow from it.      *)
(***************************************************************************)
EXTENDS ApprovalForms, FirstUseProofs, SequenceLemmas, FiniteSetTheorems

Fields == [key : Seq(STRING), secret : BOOLEAN, optional : BOOLEAN]
Modes == [key : Seq(STRING), fields : Seq(Fields)]

LEMMA EnrollmentType ==
    ASSUME NEW e \in Enrollments
    PROVE  /\ e.modes \in Seq(Modes)
           /\ Len(e.modes) \in Nat
           /\ DOMAIN e.modes = 1..Len(e.modes)
           /\ \A i \in DOMAIN e.modes :
                 /\ e.modes[i] \in Modes
                 /\ e.modes[i].key \in Seq(STRING)
                 /\ e.modes[i].fields \in Seq(Fields)
                 /\ Len(e.modes[i].fields) \in Nat
                 /\ DOMAIN e.modes[i].fields = 1..Len(e.modes[i].fields)
                 /\ \A j \in DOMAIN e.modes[i].fields : e.modes[i].fields[j] \in Fields
<1>1. e.modes \in Seq(Modes)
    BY ApprovalFormsAssumption DEF Modes, Fields
<1>2. Len(e.modes) \in Nat /\ DOMAIN e.modes = 1..Len(e.modes)
    BY <1>1, LenProperties
<1>3. ASSUME NEW i \in DOMAIN e.modes
      PROVE  /\ e.modes[i] \in Modes
             /\ e.modes[i].key \in Seq(STRING)
             /\ e.modes[i].fields \in Seq(Fields)
  <2>1. e.modes[i] \in Modes
      BY <1>1, <1>2, ElementOfSeq
  <2> QED
      BY <2>1 DEF Modes
<1>4. ASSUME NEW i \in DOMAIN e.modes
      PROVE  /\ Len(e.modes[i].fields) \in Nat
             /\ DOMAIN e.modes[i].fields = 1..Len(e.modes[i].fields)
             /\ \A j \in DOMAIN e.modes[i].fields : e.modes[i].fields[j] \in Fields
  <2>1. /\ Len(e.modes[i].fields) \in Nat
        /\ DOMAIN e.modes[i].fields = 1..Len(e.modes[i].fields)
      BY <1>3, LenProperties
  <2> QED
      BY <1>3, <2>1, ElementOfSeq
<1> QED
    BY <1>1, <1>2, <1>3, <1>4

(* A mode of a valid enrollment is the one that its key selects. *)
LEMMA ModeSelected ==
    ASSUME NEW e \in Enrollments, Validate(e), NEW m \in ToSet(e.modes)
    PROVE  m.key # <<>> /\ ModesOf(e, m.key) = {m}
<1>1. PICK i \in DOMAIN e.modes : m = e.modes[i]
    BY DEF ToSet
<1>2. m.key # <<>>
    BY <1>1 DEF Validate
<1>3. ASSUME NEW n \in ToSet(e.modes), n.key = m.key
      PROVE  n = m
  <2>1. PICK j \in DOMAIN e.modes : n = e.modes[j]
      BY DEF ToSet
  <2>2. i \in Nat /\ j \in Nat /\ i >= 1 /\ j >= 1
      BY EnrollmentType
  <2>3. CASE i < j
    <3>1. i \in 1..(j - 1)
        BY <2>2, <2>3
    <3> QED
        BY <1>1, <1>3, <2>1, <3>1 DEF Validate
  <2>4. CASE j < i
    <3>1. j \in 1..(i - 1)
        BY <2>2, <2>4
    <3> QED
        BY <1>1, <1>3, <2>1, <3>1 DEF Validate
  <2>5. CASE i = j
      BY <1>1, <2>1, <2>5
  <2> QED
      BY <2>2, <2>3, <2>4, <2>5
<1> QED
    BY <1>2, <1>3 DEF ModesOf

LEMMA SelectedModes ==
    ASSUME NEW e \in Enrollments, NEW key, NEW m \in ModesOf(e, key)
    PROVE  m \in ToSet(e.modes)
BY DEF ModesOf

LEMMA FirstMode ==
    ASSUME NEW e \in Enrollments, Validate(e)
    PROVE  e.modes[1] \in ToSet(e.modes)
<1>1. e.modes # <<>>
    BY DEF Validate
<1>2. Len(e.modes) \in Nat \ {0}
    BY <1>1, EnrollmentType, EmptySeq
<1>3. 1 \in DOMAIN e.modes
    BY <1>2, EnrollmentType
<1> QED
    BY <1>3 DEF ToSet

-----------------------------------------------------------------------------
(* The input of field j of mode i, and all of them mode by mode. *)
View(e, values, i, j) ==
    LET f == e.modes[i].fields[j]
    IN  [name |-> FieldInputName(e.modes[i].key, f.key),
         mode |-> e.modes[i].key, key |-> f.key, secret |-> f.secret,
         value |-> IF ~f.secret /\ f.key \in DOMAIN values
                   THEN values[f.key] ELSE Blank]

Views(e, values) ==
    [i \in DOMAIN e.modes |-> [j \in DOMAIN e.modes[i].fields |-> View(e, values, i, j)]]

LEMMA InputsOfViews ==
    ASSUME NEW e, NEW values
    PROVE  EnrollInputs(e, values) = FlattenSeq(Views(e, values))
BY DEF EnrollInputs, Views, View

LEMMA ViewsType ==
    ASSUME NEW e \in Enrollments, NEW values, NEW S,
           \A i, j \in Nat : View(e, values, i, j) \in S
    PROVE  /\ Views(e, values) \in Seq(Seq(S))
           /\ Len(Views(e, values)) = Len(e.modes)
           /\ \A i \in DOMAIN e.modes :
                 /\ Len(Views(e, values)[i]) = Len(e.modes[i].fields)
                 /\ \A j \in DOMAIN e.modes[i].fields :
                       Views(e, values)[i][j] = View(e, values, i, j)
<1> DEFINE Row(i) == [j \in DOMAIN e.modes[i].fields |-> View(e, values, i, j)]
<1>1. ASSUME NEW i \in DOMAIN e.modes
      PROVE  Row(i) \in Seq(S) /\ Len(Row(i)) = Len(e.modes[i].fields)
  <2>1. PICK l \in Nat : l = Len(e.modes[i].fields) /\ DOMAIN e.modes[i].fields = 1..l
      BY EnrollmentType
  <2>2. i \in Nat
      BY EnrollmentType
  <2>3. Row(i) = [j \in 1..l |-> View(e, values, i, j)]
      BY <2>1
  <2>4. \A j \in 1..l : View(e, values, i, j) \in S
      BY <2>2
  <2> HIDE DEF Row
  <2>5. Row(i) \in [1..l -> S]
      BY <2>3, <2>4
  <2>6. Row(i) \in Seq(S)
      BY <2>5, SeqDef
  <2>7. DOMAIN Row(i) = 1..l /\ DOMAIN Row(i) = 1..Len(Row(i)) /\ Len(Row(i)) \in Nat
      BY <2>5, <2>6, LenProperties
  <2> QED
      BY <2>1, <2>6, <2>7
<1>2. PICK n \in Nat : n = Len(e.modes) /\ DOMAIN e.modes = 1..n
    BY EnrollmentType
<1>3. Views(e, values) = [i \in 1..n |-> Row(i)]
    BY <1>2 DEF Views
<1> HIDE DEF Row
<1>4. Views(e, values) \in [1..n -> Seq(S)]
    BY <1>1, <1>2, <1>3
<1>5. Views(e, values) \in Seq(Seq(S))
    BY <1>4, SeqDef
<1>6. Len(Views(e, values)) = n
  <2>1. DOMAIN Views(e, values) = 1..n
      BY <1>4
  <2>2. /\ DOMAIN Views(e, values) = 1..Len(Views(e, values))
        /\ Len(Views(e, values)) \in Nat
      BY <1>5, LenProperties
  <2> QED
      BY <2>1, <2>2
<1>7. ASSUME NEW i \in DOMAIN e.modes
      PROVE  /\ Len(Views(e, values)[i]) = Len(e.modes[i].fields)
             /\ \A j \in DOMAIN e.modes[i].fields :
                   Views(e, values)[i][j] = View(e, values, i, j)
    BY <1>1, <1>2, <1>3 DEF Row
<1> QED
    BY <1>2, <1>5, <1>6, <1>7

(* An input is of the same field whatever the form shows, and every field  *)
(* has one.                                                                *)
LEMMA InputsAlike ==
    ASSUME NEW e \in Enrollments, NEW v, NEW w,
           NEW s, s = EnrollInputs(e, v), NEW t, t = EnrollInputs(e, w)
    PROVE  /\ DOMAIN s = 1..Len(s)
           /\ DOMAIN t = DOMAIN s
           /\ \A p \in DOMAIN s :
                 \E i \in DOMAIN e.modes : \E j \in DOMAIN e.modes[i].fields :
                    s[p] = View(e, v, i, j) /\ t[p] = View(e, w, i, j)
           /\ \A i \in DOMAIN e.modes : \A j \in DOMAIN e.modes[i].fields :
                 \E p \in DOMAIN s : s[p] = View(e, v, i, j)
<1> DEFINE S == {View(e, v, i, j) : i, j \in Nat} \cup {View(e, w, i, j) : i, j \in Nat}
           ss == Views(e, v)
           tt == Views(e, w)
<1>1. /\ \A i, j \in Nat : View(e, v, i, j) \in S
      /\ \A i, j \in Nat : View(e, w, i, j) \in S
    OBVIOUS
<1> HIDE DEF S
<1>2. /\ ss \in Seq(Seq(S))
      /\ Len(ss) = Len(e.modes)
      /\ \A i \in DOMAIN e.modes :
            /\ Len(ss[i]) = Len(e.modes[i].fields)
            /\ \A j \in DOMAIN e.modes[i].fields : ss[i][j] = View(e, v, i, j)
    BY <1>1, ViewsType
<1>3. /\ tt \in Seq(Seq(S))
      /\ Len(tt) = Len(e.modes)
      /\ \A i \in DOMAIN e.modes :
            /\ Len(tt[i]) = Len(e.modes[i].fields)
            /\ \A j \in DOMAIN e.modes[i].fields : tt[i][j] = View(e, w, i, j)
    BY <1>1, ViewsType
<1>4. s = FlattenSeq(ss) /\ t = FlattenSeq(tt)
    BY InputsOfViews
<1> HIDE DEF ss, tt
<1>5. s \in Seq(S) /\ t \in Seq(S)
    BY <1>2, <1>3, <1>4, FlattenType
<1>6. /\ DOMAIN e.modes = 1..Len(e.modes)
      /\ \A i \in DOMAIN e.modes : DOMAIN e.modes[i].fields = 1..Len(e.modes[i].fields)
    BY EnrollmentType
<1>7. Len(ss) = Len(tt) /\ \A i \in 1..Len(ss) : Len(ss[i]) = Len(tt[i])
    BY <1>2, <1>3, <1>6
<1>8. /\ Len(s) = Len(t)
      /\ \A p \in 1..Len(s) : \E i, j : StandsAt(p, i, j, s, t, ss, tt)
      /\ \A i \in 1..Len(ss) : \A j \in 1..Len(ss[i]) :
            \E p : StandsAt(p, i, j, s, t, ss, tt)
    BY <1>2, <1>3, <1>4, <1>7, FlattenTogether, Zenon
<1>9. DOMAIN s = 1..Len(s) /\ DOMAIN t = 1..Len(s)
    BY <1>5, <1>8, LenProperties
<1>10. ASSUME NEW p \in DOMAIN s
       PROVE  \E i \in DOMAIN e.modes : \E j \in DOMAIN e.modes[i].fields :
                 s[p] = View(e, v, i, j) /\ t[p] = View(e, w, i, j)
  <2>1. PICK i, j : StandsAt(p, i, j, s, t, ss, tt)
      BY <1>8, <1>9
  <2>2. i \in DOMAIN e.modes /\ j \in DOMAIN e.modes[i].fields
      BY <1>2, <1>6, <2>1 DEF StandsAt
  <2> QED
      BY <1>2, <1>3, <2>1, <2>2 DEF StandsAt
<1>11. ASSUME NEW i \in DOMAIN e.modes, NEW j \in DOMAIN e.modes[i].fields
       PROVE  \E p \in DOMAIN s : s[p] = View(e, v, i, j)
  <2>1. i \in 1..Len(ss) /\ j \in 1..Len(ss[i])
      BY <1>2, <1>6
  <2>2. PICK p : StandsAt(p, i, j, s, t, ss, tt)
      BY <1>8, <2>1
  <2> QED
      BY <1>2, <1>9, <2>2 DEF StandsAt
<1> QED
    BY <1>9, <1>10, <1>11

(* An input's name is joined from "field" and its keys. *)
LEMMA KeysOfName ==
    ASSUME NEW a \in Seq(STRING), NEW b \in Seq(STRING),
           NEW c \in Seq(STRING), NEW d \in Seq(STRING),
           FieldInputName(a, b) = FieldInputName(c, d)
    PROVE  a \o b = c \o d
<1> DEFINE S == STRING \cup {"field"}
           f == <<"field">>
<1>1. f \in Seq(S)
    BY Singleton
<1>2. a \in Seq(S) /\ b \in Seq(S) /\ c \in Seq(S) /\ d \in Seq(S)
  <2>1. STRING \subseteq S
      OBVIOUS
  <2> HIDE DEF S
  <2> QED
      BY <2>1, SeqMonotonic
<1>3. /\ FieldInputName(a, b) = Cat(Cat(f, a), b)
      /\ FieldInputName(c, d) = Cat(Cat(f, c), d)
    BY DEF FieldInputName, Cat
<1> HIDE DEF S, f
<1>4. Cat(Cat(f, a), b) = Cat(f, Cat(a, b))
    BY <1>1, <1>2, CatAssociative
<1>5. Cat(Cat(f, c), d) = Cat(f, Cat(c, d))
    BY <1>1, <1>2, CatAssociative
<1>6. Cat(a, b) \in Seq(S) /\ Cat(c, d) \in Seq(S)
    BY <1>2, CatType
<1>7. Cat(a, b) = Cat(c, d)
    BY <1>1, <1>3, <1>4, <1>5, <1>6, CatCancels
<1> QED
    BY <1>7, Zenon DEF Cat

(* If joined keys tell the inputs apart, so do the inputs' names. *)
LEMMA NamesAreUnique ==
    ASSUME NEW e \in Enrollments, KeysJoinUniquely(e), NEW v,
           NEW s, s = EnrollInputs(e, v),
           NEW p \in DOMAIN s, NEW q \in DOMAIN s, s[p].name = s[q].name
    PROVE  p = q
<1> DEFINE t == EnrollInputs(e, <<>>)
<1>1. /\ DOMAIN t = DOMAIN s
      /\ \A r \in DOMAIN s :
            \E i \in DOMAIN e.modes : \E j \in DOMAIN e.modes[i].fields :
               s[r] = View(e, v, i, j) /\ t[r] = View(e, <<>>, i, j)
    BY InputsAlike
<1>2. \A r \in DOMAIN s :
         /\ t[r].mode \in Seq(STRING) /\ t[r].key \in Seq(STRING)
         /\ s[r].name = FieldInputName(t[r].mode, t[r].key)
  <2> SUFFICES ASSUME NEW r \in DOMAIN s
               PROVE  /\ t[r].mode \in Seq(STRING) /\ t[r].key \in Seq(STRING)
                      /\ s[r].name = FieldInputName(t[r].mode, t[r].key)
      OBVIOUS
  <2>1. PICK i \in DOMAIN e.modes : \E j \in DOMAIN e.modes[i].fields :
               s[r] = View(e, v, i, j) /\ t[r] = View(e, <<>>, i, j)
      BY <1>1
  <2>2. PICK j \in DOMAIN e.modes[i].fields :
               s[r] = View(e, v, i, j) /\ t[r] = View(e, <<>>, i, j)
      BY <2>1
  <2>3. /\ t[r].mode = e.modes[i].key /\ t[r].key = e.modes[i].fields[j].key
        /\ s[r].name = FieldInputName(e.modes[i].key, e.modes[i].fields[j].key)
      BY <2>2 DEF View
  <2>4. e.modes[i].key \in Seq(STRING) /\ e.modes[i].fields[j] \in Fields
      BY EnrollmentType
  <2>5. e.modes[i].fields[j].key \in Seq(STRING)
      BY <2>4 DEF Fields
  <2> QED
      BY <2>3, <2>4, <2>5
<1>3. t[p].mode \o t[p].key = t[q].mode \o t[q].key
  <2>1. PICK a \in Seq(STRING), b \in Seq(STRING), c \in Seq(STRING), d \in Seq(STRING) :
           a = t[p].mode /\ b = t[p].key /\ c = t[q].mode /\ d = t[q].key
      BY <1>2
  <2>2. FieldInputName(a, b) = FieldInputName(c, d)
      BY <1>2, <2>1
  <2>3. a \o b = c \o d
      BY <2>2, KeysOfName
  <2> QED
      BY <2>1, <2>3, Zenon
<1> QED
    BY <1>1, <1>3 DEF KeysJoinUniquely

(* What is collected for a field is what was typed into its input. *)
LEMMA Collected ==
    ASSUME NEW e \in Enrollments, KeysJoinUniquely(e), NEW v,
           NEW s, s = EnrollInputs(e, v), NEW filled,
           NEW m, NEW p \in DOMAIN s,
           s[p].key \in FieldKeys(m), s[p].name = FieldInputName(m.key, s[p].key)
    PROVE  CollectValues(m, s, filled)[s[p].key] = Trimmed(filled[p])
<1> DEFINE name == FieldInputName(m.key, s[p].key)
           named == {i \in DOMAIN s : s[i].name = name}
<1>1. named = {p}
    BY NamesAreUnique
<1>2. p <= p
  <2>1. DOMAIN s = 1..Len(s)
      BY InputsAlike
  <2>2. Len(s) \in Nat
    <3> DEFINE S == {View(e, v, k, j) : k, j \in Nat}
    <3>1. \A k, j \in Nat : View(e, v, k, j) \in S
        OBVIOUS
    <3> HIDE DEF S
    <3>2. Views(e, v) \in Seq(Seq(S))
        BY <3>1, ViewsType
    <3>3. s \in Seq(S)
        BY <3>2, InputsOfViews, FlattenType
    <3> QED
        BY <3>3, LenProperties
  <2> QED
      BY <2>1, <2>2
<1>3. PostFormGet(s, filled, name) = filled[p]
  <2>1. (CHOOSE i \in named : \A j \in named : i <= j) = p
    <3> HIDE DEF named
    <3> QED
        BY <1>1, <1>2
  <2> QED
      BY <1>1, <2>1 DEF PostFormGet
<1> QED
    BY <1>3 DEF CollectValues

-----------------------------------------------------------------------------
(* Texts between commas.                                                   *)
Texts == Seq(STRING)

LEMMA TrimType ==
    ASSUME NEW text \in Texts
    PROVE  TrimSpace(text) \in Texts
<1> DEFINE inked == {i \in DOMAIN text : text[i] # " "}
<1>1. PICK l \in Nat : Len(text) = l /\ DOMAIN text = 1..l
    BY LenProperties DEF Texts
<1>2. \A i \in 1..l : text[i] \in STRING
    BY <1>1, ElementOfSeq DEF Texts
<1>3. CASE inked = {}
    BY <1>3, EmptySeq DEF TrimSpace, Texts
<1>4. CASE inked # {}
  <2>1. inked \in SUBSET (0..l) /\ inked \in SUBSET Nat /\ inked \subseteq 1..l
    <3>1. inked \subseteq 1..l
        BY <1>1
    <3>2. \A x \in 1..l : x \in 0..l /\ x \in Nat
        OBVIOUS
    <3> QED
        BY <3>1, <3>2
  <2>2. Min(inked) \in inked
    <3> HIDE DEF inked
    <3> QED
        BY <1>4, <2>1, MinMember
  <2>3. Max(inked) \in inked
    <3> HIDE DEF inked
    <3> QED
        BY <1>4, <2>1, MaxMember
  <2>4. PICK a \in 1..l, b \in 1..l : a = Min(inked) /\ b = Max(inked)
      BY <2>1, <2>2, <2>3
  <2>5. \A i \in a..b : text[i] \in STRING
      BY <1>2
  <2>6. SubSeq(text, a, b) \in Seq(STRING)
      BY <2>5, SubSeqProperties
  <2> QED
      BY <1>4, <2>4, <2>6 DEF TrimSpace, Texts
<1> QED
    BY <1>3, <1>4

(* The parts of the first n characters, as Split makes them. *)
Parts(parts, text) ==
    /\ parts \in [0..Len(text) -> Seq(Texts) \ {<<>>}]
    /\ parts[0] = << <<>> >>
    /\ \A n \in 1..Len(text) :
          parts[n] = IF text[n] = Comma THEN Append(parts[n - 1], <<>>)
                     ELSE [parts[n - 1] EXCEPT ![Len(parts[n - 1])] = Append(@, text[n])]

NextPart(p, ch) ==
    IF ch = Comma THEN Append(p, <<>>) ELSE [p EXCEPT ![Len(p)] = Append(@, ch)]

LEMMA NextPartType ==
    ASSUME NEW p \in Seq(Texts) \ {<<>>}, NEW ch \in STRING
    PROVE  NextPart(p, ch) \in Seq(Texts) \ {<<>>}
<1>1. <<>> \in Texts
    BY EmptySeq DEF Texts
<1>2. Len(p) \in 1..Len(p)
    BY EmptySeq
<1>3. p[Len(p)] \in Texts
    BY <1>2, ElementOfSeq
<1>4. Append(p[Len(p)], ch) \in Texts
    BY <1>3, AppendProperties DEF Texts
<1>5. CASE ch = Comma
    BY <1>1, <1>5, AppendProperties DEF NextPart
<1>6. CASE ch # Comma
  <2> DEFINE q == [p EXCEPT ![Len(p)] = Append(p[Len(p)], ch)]
  <2>1. q \in Seq(Texts) /\ Len(q) = Len(p)
    <3> DEFINE S == Texts
               last == Append(p[Len(p)], ch)
    <3>1. last \in S
        BY <1>4
    <3> HIDE DEF S, last
    <3>2. p \in Seq(S)
        BY DEF S
    <3>3. [p EXCEPT ![Len(p)] = last] \in Seq(S) /\ Len([p EXCEPT ![Len(p)] = last]) = Len(p)
        BY <1>2, <3>1, <3>2, ExceptSeq
    <3> QED
        BY <3>3 DEF S, last
  <2>2. q # <<>>
      BY <1>2, <2>1, EmptySeq
  <2> QED
      BY <1>6, <2>1, <2>2 DEF NextPart
<1> QED
    BY <1>5, <1>6

LEMMA SplitParts ==
    ASSUME NEW text \in Texts
    PROVE  \E parts : Parts(parts, text) /\ Split(text) = parts[Len(text)]
<1>1. Len(text) \in Nat /\ \A n \in 1..Len(text) : text[n] \in STRING
    BY LenProperties, ElementOfSeq DEF Texts
<1> DEFINE T == Seq(Texts) \ {<<>>}
           base == << <<>> >>
           step == [p \in T \X (1..Len(text)) |-> NextPart(p[1], text[p[2]])]
           Right(f) == f = [n \in 0..Len(text) |->
                               IF n = 0 THEN << <<>> >> ELSE NextPart(f[n - 1], text[n])]
           g == CHOOSE f : Right(f)
<1>2. base \in T
  <2>1. <<>> \in Texts
      BY EmptySeq DEF Texts
  <2> QED
      BY <2>1, Singleton, EmptySeq
<1>3. step \in [T \X (1..Len(text)) -> T]
    BY <1>1, NextPartType
<1>4. PICK parts : Recursion(parts, Len(text), T, base, step)
  <2> HIDE DEF T, base, step
  <2> QED
      BY <1>1, <1>2, <1>3, RecursionExists
<1>5. ASSUME NEW n \in 1..Len(text)
      PROVE  parts[n - 1] \in T /\ parts[n] = NextPart(parts[n - 1], text[n])
  <2>1. n - 1 \in 0..Len(text)
      BY <1>1
  <2>2. parts[n - 1] \in T /\ parts[n] = step[<<parts[n - 1], n>>]
      BY <1>4, <2>1 DEF Recursion
  <2> QED
      BY <2>2
<1>6. parts \in [0..Len(text) -> T] /\ parts[0] = base
    BY <1>4 DEF Recursion
<1>7. Parts(parts, text)
    BY <1>5, <1>6 DEF Parts, NextPart
<1>8. Right(parts)
  <2> DEFINE next == [n \in 0..Len(text) |->
                         IF n = 0 THEN << <<>> >> ELSE NextPart(parts[n - 1], text[n])]
  <2>1. \A n \in 0..Len(text) : parts[n] = next[n]
    <3> SUFFICES ASSUME NEW n \in 0..Len(text) PROVE parts[n] = next[n]
        OBVIOUS
    <3>1. CASE n = 0
        BY <1>6, <3>1
    <3>2. CASE n # 0
      <4>1. n \in 1..Len(text)
          BY <1>1, <3>2
      <4> QED
          BY <1>5, <3>2, <4>1
    <3> QED
        BY <3>1, <3>2
  <2> HIDE DEF T
  <2> QED
      BY <1>6, <2>1
<1>9. Right(g)
  <2> HIDE DEF Right
  <2> QED
      BY <1>8
<1>10. Split(text) = g[Len(text)]
    BY DEF Split, SplitUpTo, NextPart
<1> HIDE DEF g
<1>11. g[0] = base /\ \A n \in 1..Len(text) : g[n] = NextPart(g[n - 1], text[n])
  <2>1. g[0] = base
    <3> 0 \in 0..Len(text)
        BY <1>1
    <3> QED
        BY <1>9
  <2>2. ASSUME NEW n \in 1..Len(text) PROVE g[n] = NextPart(g[n - 1], text[n])
    <3> n \in 0..Len(text) /\ n # 0
        BY <1>1
    <3> QED
        BY <1>9
  <2> QED
      BY <2>1, <2>2
<1>12. \A n \in 1..Len(text) : g[n - 1] \in T => g[n] = step[<<g[n - 1], n>>]
    BY <1>11
<1>13. \A n \in 0..Len(text) : g[n] = parts[n]
  <2> HIDE DEF T, base, step
  <2> QED
      BY <1>1, <1>4, <1>11, <1>12, RecursionUnique
<1>14. Len(text) \in 0..Len(text)
    BY <1>1
<1> QED
    BY <1>7, <1>10, <1>13, <1>14

(* Positions after which a part begins, and where the next one does. *)
Marks(text) == {0} \cup {i \in DOMAIN text : text[i] = Comma}

NextMark(text, i, j) ==
    /\ i \in Marks(text) /\ j \in Marks(text) /\ i < j
    /\ \A k \in i + 1..j - 1 : k \notin Marks(text)

LastMark(text, b, n) ==
    /\ b \in Marks(text) /\ b <= n
    /\ \A k \in b + 1..n : k \notin Marks(text)

(* The part that ends at mark j, and the parts that have ended by n. *)
Ended(text, part, j) == \E i \in Nat : NextMark(text, i, j) /\ part = SubSeq(text, i + 1, j - 1)

EndedBy(text, n) ==
    {part \in Texts : \E j \in 1..n : Ended(text, part, j)}

(* What the parts of the first n characters are. *)
Stands(text, p, n) ==
    /\ p \in Seq(Texts) \ {<<>>}
    /\ {p[q] : q \in 1..Len(p) - 1} = EndedBy(text, n)
    /\ \E b \in 0..n : LastMark(text, b, n) /\ p[Len(p)] = SubSeq(text, b + 1, n)

LEMMA StandsFirst ==
    ASSUME NEW text \in Texts
    PROVE  Stands(text, << <<>> >>, 0)
<1>1. << <<>> >> \in Seq(Texts) /\ Len(<< <<>> >>) = 1
    BY EmptySeq, Singleton DEF Texts
<1>2. << <<>> >> # <<>>
    BY <1>1, EmptySeq
<1>3. LastMark(text, 0, 0)
    BY DEF LastMark, Marks
<1>4. SubSeq(text, 1, 0) = <<>>
    BY SubSeqEmpty
<1>5. EndedBy(text, 0) = {}
    BY DEF EndedBy
<1> QED
    BY <1>1, <1>2, <1>3, <1>4, <1>5 DEF Stands

LEMMA SubSeqText ==
    ASSUME NEW text \in Texts, NEW i \in 1..Len(text) + 1, NEW j \in 0..Len(text)
    PROVE  SubSeq(text, i, j) \in Texts
<1>1. PICK l \in Nat : l = Len(text)
    BY LenProperties DEF Texts
<1>2. i \in Int /\ j \in Int /\ i >= 1 /\ j <= l
    BY <1>1
<1>3. \A k \in i..j : text[k] \in STRING
  <2> SUFFICES ASSUME NEW k \in i..j PROVE text[k] \in STRING
      OBVIOUS
  <2>1. k \in 1..l
      BY <1>2
  <2> QED
      BY <1>1, <2>1, ElementOfSeq DEF Texts
<1> QED
    BY <1>2, <1>3, SubSeqProperties DEF Texts

LEMMA StandsAtComma ==
    ASSUME NEW text \in Texts, NEW n \in 1..Len(text), text[n] = Comma,
           NEW p, Stands(text, p, n - 1)
    PROVE  Stands(text, NextPart(p, text[n]), n)
<1> DEFINE q == Append(p, <<>>)
<1>1. PICK l \in Nat : l = Len(text) /\ DOMAIN text = 1..l
    BY LenProperties DEF Texts
<1>2. PICK b \in 0..n - 1 : LastMark(text, b, n - 1) /\ p[Len(p)] = SubSeq(text, b + 1, n - 1)
    BY DEF Stands
<1>3. PICK k \in Nat : k = Len(p) /\ k >= 1
    BY EmptySeq, LenProperties DEF Stands
<1>4. /\ q \in Seq(Texts) /\ Len(q) = k + 1
      /\ \A x \in 1..k : q[x] = p[x]
      /\ q[k + 1] = <<>>
  <2>1. <<>> \in Texts
      BY EmptySeq DEF Texts
  <2>2. p \in Seq(Texts)
      BY DEF Stands
  <2> QED
      BY <1>3, <2>1, <2>2, AppendProperties
<1>5. q # <<>>
    BY <1>4, EmptySeq
<1>6. n \in Nat /\ n >= 1 /\ n <= l
    BY <1>1
<1>7. n \in Marks(text) /\ LastMark(text, n, n) /\ n \in 0..n
    BY <1>1, <1>6 DEF LastMark, Marks
<1>8. NextMark(text, b, n)
    BY <1>2, <1>6, <1>7 DEF NextMark, LastMark
<1>9. ASSUME NEW i \in Nat, NextMark(text, i, n) PROVE i = b
  <2>1. CASE i < b
    <3>1. b \in i + 1..n - 1
        BY <1>6, <2>1
    <3> QED
        BY <1>2, <1>9, <3>1 DEF NextMark, LastMark
  <2>2. CASE b < i
    <3>1. i \in b + 1..n - 1
        BY <1>6, <1>9, <2>2 DEF NextMark
    <3> QED
        BY <1>2, <1>9, <3>1 DEF NextMark, LastMark
  <2> QED
      BY <1>6, <2>1, <2>2
<1>10. {q[x] : x \in 1..Len(q) - 1} = {p[x] : x \in 1..Len(p) - 1} \cup {p[Len(p)]}
  <2>1. \A x \in 1..k : x \in 1..k - 1 \/ x = k
      OBVIOUS
  <2>2. \A x \in 1..k - 1 : x \in 1..k
      OBVIOUS
  <2>3. Len(q) - 1 = k /\ k \in 1..k
      BY <1>3, <1>4
  <2> HIDE DEF q
  <2> QED
      BY <1>3, <1>4, <2>1, <2>2, <2>3
<1>11. SubSeq(text, b + 1, n - 1) \in Texts
  <2>1. b + 1 \in 1..l + 1 /\ n - 1 \in 0..l
      BY <1>6
  <2> QED
      BY <1>1, <2>1, SubSeqText
<1>12. EndedBy(text, n) = EndedBy(text, n - 1) \cup {SubSeq(text, b + 1, n - 1)}
  <2>1. \A j \in 1..n : j \in 1..n - 1 \/ j = n
      BY <1>6
  <2>2. \A j \in 1..n - 1 : j \in 1..n
      BY <1>6
  <2>3. Ended(text, SubSeq(text, b + 1, n - 1), n) /\ n \in 1..n
      BY <1>6, <1>8 DEF Ended
  <2>4. \A part : Ended(text, part, n) => part = SubSeq(text, b + 1, n - 1)
      BY <1>9 DEF Ended
  <2> QED
      BY <1>11, <2>1, <2>2, <2>3, <2>4 DEF EndedBy
<1>13. {q[x] : x \in 1..Len(q) - 1} = EndedBy(text, n)
    BY <1>2, <1>10, <1>12 DEF Stands
<1>14. q[Len(q)] = SubSeq(text, n + 1, n)
    BY <1>4, <1>6, SubSeqEmpty
<1>15. Stands(text, q, n)
  <2> HIDE DEF q
  <2> QED
      BY <1>4, <1>5, <1>7, <1>13, <1>14 DEF Stands
<1> QED
    BY <1>15 DEF NextPart

LEMMA StandsElsewhere ==
    ASSUME NEW text \in Texts, NEW n \in 1..Len(text), text[n] # Comma,
           NEW p, Stands(text, p, n - 1)
    PROVE  Stands(text, NextPart(p, text[n]), n)
<1> DEFINE q == NextPart(p, text[n])
<1>1. PICK l \in Nat : l = Len(text) /\ DOMAIN text = 1..l
    BY LenProperties DEF Texts
<1>2. PICK b \in 0..n - 1 : LastMark(text, b, n - 1) /\ p[Len(p)] = SubSeq(text, b + 1, n - 1)
    BY DEF Stands
<1>3. PICK k \in Nat : k = Len(p) /\ k >= 1
    BY EmptySeq, LenProperties DEF Stands
<1>4. n \in Nat /\ n >= 1 /\ n <= l /\ text[n] \in STRING
    BY <1>1, ElementOfSeq DEF Texts
<1>5. n \notin Marks(text)
    BY <1>4 DEF Marks
<1>6. b \in 0..n /\ LastMark(text, b, n)
    BY <1>2, <1>4, <1>5 DEF LastMark
<1>7. Append(SubSeq(text, b + 1, n - 1), text[n]) = SubSeq(text, b + 1, n)
  <2>1. b + 1 \in 1..l /\ n \in b + 1..l
      BY <1>4
  <2>2. SubSeq(text, b + 1, n) = SubSeq(text, b + 1, n - 1) \o <<text[n]>>
      BY <1>1, <2>1, SubSeqRecursiveSecond DEF Texts
  <2>3. SubSeq(text, b + 1, n - 1) \in Seq(STRING)
    <3>1. b + 1 \in 1..l + 1 /\ n - 1 \in 0..l
        BY <1>4
    <3> QED
        BY <1>1, <3>1, SubSeqText DEF Texts
  <2> QED
      BY <1>4, <2>2, <2>3, AppendIsConcat
<1>8. q \in Seq(Texts) \ {<<>>}
    BY <1>4, NextPartType DEF Stands
<1>9. /\ Len(q) = k
      /\ \A x \in 1..k - 1 : q[x] = p[x]
      /\ q[k] = SubSeq(text, b + 1, n)
  <2> DEFINE last == SubSeq(text, b + 1, n)
  <2>1. last \in Texts
    <3>1. b + 1 \in 1..l + 1 /\ n \in 0..l
        BY <1>4
    <3> QED
        BY <1>1, <3>1, SubSeqText
  <2>2. q = [p EXCEPT ![k] = last]
      BY <1>2, <1>3, <1>7 DEF NextPart
  <2>3. p \in Seq(Texts) /\ k \in 1..Len(p)
      BY <1>3 DEF Stands
  <2> HIDE DEF q, last
  <2>4. Len(q) = k /\ \A x \in 1..k : q[x] = IF x = k THEN last ELSE p[x]
      BY <1>3, <2>1, <2>2, <2>3, ExceptSeq
  <2>5. k \in 1..k /\ \A x \in 1..k - 1 : x \in 1..k /\ x # k
      BY <1>3
  <2> QED
      BY <2>4, <2>5 DEF last
<1>10. EndedBy(text, n) = EndedBy(text, n - 1)
  <2>1. \A j \in 1..n : j \in 1..n - 1 \/ j = n
      BY <1>4
  <2>2. \A j \in 1..n - 1 : j \in 1..n
      BY <1>4
  <2>3. \A part : ~Ended(text, part, n)
      BY <1>5 DEF Ended, NextMark
  <2> QED
      BY <2>1, <2>2, <2>3 DEF EndedBy
<1>11. {q[x] : x \in 1..Len(q) - 1} = EndedBy(text, n)
  <2> HIDE DEF q
  <2>1. {q[x] : x \in 1..k - 1} = {p[x] : x \in 1..k - 1}
      BY <1>9
  <2> QED
      BY <1>3, <1>9, <1>10, <2>1 DEF Stands
<1> HIDE DEF q
<1>12. Stands(text, q, n)
    BY <1>6, <1>8, <1>9, <1>11 DEF Stands
<1> QED
    BY <1>12 DEF q

(* The parts are what stands between commas and ends. *)
LEMMA SplitStands ==
    ASSUME NEW text \in Texts
    PROVE  Stands(text, Split(text), Len(text))
<1>1. PICK parts : Parts(parts, text) /\ Split(text) = parts[Len(text)]
    BY SplitParts
<1>2. Len(text) \in Nat
    BY LenProperties DEF Texts
<1> DEFINE P == {n \in 0..Len(text) : Stands(text, parts[n], n)}
<1>3. 0 \in P
  <2>1. parts[0] = << <<>> >> /\ 0 \in 0..Len(text)
      BY <1>1, <1>2 DEF Parts
  <2>2. Stands(text, parts[0], 0)
      BY <2>1, StandsFirst
  <2> QED
      BY <2>1, <2>2
<1>4. ASSUME NEW n \in 1..Len(text), n - 1 \in P
      PROVE  n \in P
  <2>1. parts[n] = NextPart(parts[n - 1], text[n])
      BY <1>1 DEF Parts, NextPart
  <2>2. Stands(text, parts[n - 1], n - 1)
      BY <1>4
  <2>3. Stands(text, NextPart(parts[n - 1], text[n]), n)
      BY <2>2, StandsAtComma, StandsElsewhere
  <2> QED
      BY <1>2, <2>1, <2>3
<1>5. \A n \in 0..Len(text) : n \in P
  <2> HIDE DEF P
  <2> QED
      BY <1>2, <1>3, <1>4, InductionUpTo
<1> QED
    BY <1>1, <1>2, <1>5

(* What a person reads as listed are the parts, trimmed. *)
LEMMA ListedParts ==
    ASSUME NEW text \in Texts
    PROVE  /\ Split(text) \in Seq(Texts)
           /\ ListedIn(text) = {TrimSpace(part) : part \in ToSet(Split(text))} \ {<<>>}
<1> DEFINE p == Split(text)
           bounds == {0, Len(text) + 1} \cup {i \in DOMAIN text : text[i] = Comma}
           Later(i) == {j \in bounds : j > i}
           Piece(i) == SubSeq(text, i + 1, Min(Later(i)) - 1)
<1>1. PICK l \in Nat : l = Len(text) /\ DOMAIN text = 1..l
    BY LenProperties DEF Texts
<1>2. Stands(text, p, l)
    BY <1>1, SplitStands
<1>3. PICK b \in 0..l : LastMark(text, b, l) /\ p[Len(p)] = SubSeq(text, b + 1, l)
    BY <1>2 DEF Stands
<1> HIDE DEF p
<1>4. p \in Seq(Texts) /\ {p[q] : q \in 1..Len(p) - 1} = EndedBy(text, l)
    BY <1>2 DEF Stands
<1>5. ToSet(p) = EndedBy(text, l) \cup {SubSeq(text, b + 1, l)}
  <2>1. PICK k \in Nat : k = Len(p) /\ k >= 1 /\ DOMAIN p = 1..k
      BY <1>2, EmptySeq, LenProperties DEF Stands
  <2>2. \A q \in 1..k : q \in 1..k - 1 \/ q = k
      OBVIOUS
  <2>3. (\A q \in 1..k - 1 : q \in 1..k) /\ k \in 1..k
      BY <2>1
  <2>4. ToSet(p) = {p[q] : q \in 1..k - 1} \cup {p[k]}
      BY <2>1, <2>2, <2>3 DEF ToSet
  <2> QED
      BY <1>3, <1>4, <2>1, <2>4
<1>6. /\ Marks(text) \subseteq 0..l
      /\ bounds = Marks(text) \cup {l + 1}
      /\ bounds \ {Len(text) + 1} = Marks(text)
  <2>1. Marks(text) \subseteq 0..l
      BY <1>1 DEF Marks
  <2>2. l + 1 \notin 0..l
      OBVIOUS
  <2>3. bounds = Marks(text) \cup {l + 1}
      BY <1>1 DEF Marks
  <2> QED
      BY <1>1, <2>1, <2>2, <2>3
<1>7. \A i : Later(i) \in SUBSET Nat
    BY <1>6
<1> HIDE DEF bounds
<1>8. ASSUME NEW i \in Nat, NEW j \in 1..l, NextMark(text, i, j)
      PROVE  Min(Later(i)) = j
  <2>1. j \in Later(i)
      BY <1>6, <1>8 DEF NextMark
  <2>2. ASSUME NEW y \in Later(i) PROVE j <= y
    <3>1. y \in Nat /\ y > i /\ (y \in Marks(text) \/ y = l + 1)
        BY <1>6
    <3>2. CASE y < j
      <4>1. y \in i + 1..j - 1
          BY <3>1, <3>2
      <4> QED
          BY <1>8, <3>1, <3>2, <4>1 DEF NextMark
    <3> QED
        BY <3>1, <3>2
  <2> HIDE DEF Later
  <2> QED
      BY <1>7, <2>1, <2>2, MinIs
<1>9. Min(Later(b)) = l + 1
  <2>1. l + 1 \in Later(b)
      BY <1>6
  <2>2. ASSUME NEW y \in Later(b) PROVE l + 1 <= y
    <3>1. y \in Nat /\ y > b /\ (y \in Marks(text) \/ y = l + 1)
        BY <1>6
    <3>2. CASE y <= l
      <4>1. y \in b + 1..l
          BY <3>1, <3>2
      <4> QED
          BY <1>3, <3>1, <3>2, <4>1 DEF LastMark
    <3> QED
        BY <3>1, <3>2
  <2> HIDE DEF Later
  <2> QED
      BY <1>7, <2>1, <2>2, MinIs
<1>10. ASSUME NEW i \in Marks(text)
       PROVE  Piece(i) \in ToSet(p)
  <2>1. i \in 0..l
      BY <1>6
  <2>2. l + 1 \in Later(i)
      BY <1>6, <2>1
  <2>3. PICK j \in Later(i) : \A y \in Later(i) : j <= y
    <3> HIDE DEF Later
    <3> QED
        BY <1>7, <2>2, LeastExists
  <2>4. Min(Later(i)) = j
    <3> HIDE DEF Later
    <3> QED
        BY <1>7, <2>3, MinIs
  <2>5. j \in bounds /\ j > i /\ j \in Nat
      BY <1>6
  <2>6. \A k \in Marks(text) : k > i => j <= k
      BY <1>6, <2>3
  <2>7. CASE j = l + 1
    <3>1. i = b
      <4>1. CASE i < b
        <5>1. j <= b
            BY <1>3, <2>6, <4>1 DEF LastMark
        <5> QED
            BY <2>7, <5>1
      <4>2. CASE b < i
        <5>1. i \in b + 1..l
            BY <2>1, <4>2
        <5> QED
            BY <1>3, <5>1 DEF LastMark
      <4> QED
          BY <2>1, <4>1, <4>2
    <3>2. Min(Later(i)) - 1 = l
        BY <2>4, <2>7
    <3>3. Piece(i) = SubSeq(text, b + 1, l)
        BY <3>1, <3>2
    <3> HIDE DEF Piece
    <3> QED
        BY <1>5, <3>3
  <2>8. CASE j \in Marks(text)
    <3>1. j \in 1..l
        BY <1>6, <2>1, <2>5, <2>8
    <3>2. NextMark(text, i, j)
      <4> SUFFICES ASSUME NEW k \in i + 1..j - 1 PROVE k \notin Marks(text)
          BY <2>5, <2>8 DEF NextMark
      <4> QED
          BY <2>1, <2>5, <2>6
    <3>3. SubSeq(text, i + 1, j - 1) \in Texts
      <4>1. i + 1 \in 1..l + 1 /\ j - 1 \in 0..l
          BY <2>1, <3>1
      <4> QED
          BY <1>1, <4>1, SubSeqText
    <3>4. SubSeq(text, i + 1, j - 1) \in EndedBy(text, l)
      <4> DEFINE part == SubSeq(text, i + 1, j - 1)
      <4>1. i \in Nat /\ part = SubSeq(text, i + 1, j - 1)
          BY <2>1
      <4> HIDE DEF part
      <4>2. Ended(text, part, j)
          BY <3>2, <4>1 DEF Ended
      <4>3. part \in EndedBy(text, l)
          BY <3>1, <3>3, <4>1, <4>2 DEF EndedBy
      <4> QED
          BY <4>1, <4>3
    <3>5. Piece(i) = SubSeq(text, i + 1, j - 1)
        BY <2>4
    <3> HIDE DEF Piece
    <3> QED
        BY <1>5, <3>4, <3>5
  <2> QED
      BY <1>6, <2>5, <2>7, <2>8
<1>11. ASSUME NEW part \in ToSet(p)
       PROVE  \E i \in Marks(text) : part = Piece(i)
  <2>1. CASE part \in EndedBy(text, l)
    <3>1. PICK j \in 1..l, i \in Nat : NextMark(text, i, j) /\ part = SubSeq(text, i + 1, j - 1)
        BY <2>1 DEF EndedBy, Ended
    <3>2. Min(Later(i)) = j
        BY <1>8, <3>1
    <3>3. i \in Marks(text)
        BY <3>1 DEF NextMark
    <3> QED
        BY <3>1, <3>2, <3>3
  <2>2. CASE part = SubSeq(text, b + 1, l)
    <3>1. Min(Later(b)) - 1 = l
        BY <1>9
    <3>2. part = Piece(b)
        BY <2>2, <3>1
    <3>3. b \in Marks(text)
        BY <1>3 DEF LastMark
    <3> HIDE DEF Piece
    <3> QED
        BY <3>2, <3>3
  <2> QED
      BY <1>5, <2>1, <2>2
<1>12. ListedIn(text) = {TrimSpace(Piece(i)) : i \in Marks(text)} \ {<<>>}
    BY <1>6 DEF ListedIn, bounds
<1> HIDE DEF Piece
<1>13. {TrimSpace(Piece(i)) : i \in Marks(text)} = {TrimSpace(part) : part \in ToSet(p)}
    BY <1>10, <1>11
<1> QED
    BY <1>4, <1>12, <1>13 DEF p

(* The members of a binding's set are what a person reads in it, and a     *)
(* value that is no set lists one member at most.                          *)
LEMMA SetsAreListed ==
    ASSUME NEW text \in Texts
    PROVE  /\ BindingSet(text) \in Seq(Texts)
           /\ IsBindingSet(text) => ToSet(BindingSet(text)) = ListedIn(text)
           /\ IsBindingSet(text) => ListedIn(text) # {}
           /\ ~IsBindingSet(text) => ListedIn(text) \subseteq {} \/ \E x : ListedIn(text) = {x}
<1> DEFINE p == Split(text)
           row == [i \in DOMAIN p |-> IF TrimSpace(p[i]) = <<>> THEN <<>>
                                      ELSE <<TrimSpace(p[i])>>]
<1>1. p \in Seq(Texts) /\ ListedIn(text) = {TrimSpace(part) : part \in ToSet(p)} \ {<<>>}
    BY ListedParts
<1> HIDE DEF p
<1>2. PICK k \in Nat : k = Len(p) /\ DOMAIN p = 1..k
    BY <1>1, LenProperties
<1>3. \A i \in 1..k : TrimSpace(p[i]) \in Texts
    BY <1>1, <1>2, ElementOfSeq, TrimType
<1>4. row \in Seq(Seq(Texts))
  <2>1. ASSUME NEW i \in 1..k
        PROVE  row[i] \in Seq(Texts)
    <3>1. row[i] = IF TrimSpace(p[i]) = <<>> THEN <<>> ELSE <<TrimSpace(p[i])>>
        BY <1>2
    <3>2. <<TrimSpace(p[i])>> \in Seq(Texts) /\ <<>> \in Seq(Texts)
        BY <1>3, Singleton, EmptySeq
    <3> QED
        BY <3>1, <3>2
  <2>2. row = [i \in 1..k |-> row[i]]
      BY <1>2
  <2> HIDE DEF row
  <2>3. row \in [1..k -> Seq(Texts)]
      BY <2>1, <2>2
  <2> QED
      BY <2>3, SeqDef
<1>5. ToSet(FlattenSeq(row)) = ListedIn(text)
  <2>1. ToSet(FlattenSeq(row)) = UNION {ToSet(row[i]) : i \in 1..k}
    <3>1. DOMAIN row = 1..k
        BY <1>2
    <3> HIDE DEF row
    <3>2. ToSet(FlattenSeq(row)) = UNION {ToSet(row[i]) : i \in 1..Len(row)}
        BY <1>4, FlattenMembers
    <3>3. Len(row) = k
        BY <1>4, <3>1, LenProperties
    <3> QED
        BY <3>2, <3>3
  <2>3. \A i \in 1..k : ToSet(row[i]) = {TrimSpace(p[i])} \ {<<>>}
    <3> SUFFICES ASSUME NEW i \in 1..k
                 PROVE  ToSet(row[i]) = {TrimSpace(p[i])} \ {<<>>}
        OBVIOUS
    <3>1. row[i] = IF TrimSpace(p[i]) = <<>> THEN <<>> ELSE <<TrimSpace(p[i])>>
        BY <1>2
    <3>2. ToSet(<<TrimSpace(p[i])>>) = {TrimSpace(p[i])}
        BY DEF ToSet
    <3>3. ToSet(<<>>) = {}
        BY DEF ToSet
    <3> HIDE DEF row
    <3>4. CASE TrimSpace(p[i]) = <<>>
        BY <3>1, <3>3, <3>4
    <3>5. CASE TrimSpace(p[i]) # <<>>
        BY <3>1, <3>2, <3>5
    <3> QED
        BY <3>4, <3>5
  <2>4. ToSet(p) = {p[i] : i \in 1..k}
      BY <1>2 DEF ToSet
  <2> HIDE DEF row
  <2>5. ToSet(FlattenSeq(row)) = UNION {{TrimSpace(p[i])} \ {<<>>} : i \in 1..k}
      BY <2>1, <2>3
  <2>6. UNION {{TrimSpace(p[i])} \ {<<>>} : i \in 1..k} = {TrimSpace(p[i]) : i \in 1..k} \ {<<>>}
      OBVIOUS
  <2>7. {TrimSpace(part) : part \in {p[i] : i \in 1..k}} = {TrimSpace(p[i]) : i \in 1..k}
      OBVIOUS
  <2> QED
      BY <1>1, <2>4, <2>5, <2>6, <2>7
<1>6. CASE Comma \notin ToSet(text)
  <2>1. BindingSet(text) = <<>> /\ <<>> \in Seq(Texts) /\ Len(<<>>) = 0
      BY <1>6, EmptySeq DEF BindingSet
  <2>2. ~IsBindingSet(text)
      BY <2>1 DEF IsBindingSet
  <2>3. Len(p) = 1
    <3>1. PICK l \in Nat : l = Len(text) /\ DOMAIN text = 1..l
        BY LenProperties DEF Texts
    <3>2. EndedBy(text, l) = {}
      <4>1. \A j \in 1..l : j \notin Marks(text)
          BY <1>6, <3>1 DEF Marks, ToSet
      <4> QED
          BY <4>1 DEF EndedBy, Ended, NextMark
    <3>3. {p[q] : q \in 1..Len(p) - 1} = {} /\ p # <<>>
        BY <3>1, <3>2, SplitStands DEF Stands, p
    <3>4. k >= 1
        BY <1>1, <1>2, <3>3, EmptySeq
    <3>5. 1 \notin 1..k - 1
        BY <1>2, <3>3
    <3> QED
        BY <1>2, <3>4, <3>5
  <2>4. ToSet(p) = {p[1]}
      BY <1>2, <2>3 DEF ToSet
  <2>5. ListedIn(text) = {TrimSpace(p[1])} \ {<<>>}
      BY <1>1, <2>4
  <2> QED
      BY <2>1, <2>2, <2>5
<1>7. CASE Comma \in ToSet(text)
  <2>1. BindingSet(text) = FlattenSeq(row)
      BY <1>7 DEF BindingSet, p
  <2> DEFINE s == BindingSet(text)
  <2>2. s \in Seq(Texts) /\ ToSet(s) = ListedIn(text)
    <3> HIDE DEF row
    <3> QED
        BY <1>4, <1>5, <2>1, FlattenType
  <2> HIDE DEF s
  <2>3. PICK n \in Nat : n = Len(s) /\ DOMAIN s = 1..n
      BY <2>2, LenProperties
  <2>4. IsBindingSet(text) <=> n > 1
      BY <2>3 DEF IsBindingSet, s
  <2>5. n > 1 => s[1] \in ToSet(s)
      BY <2>3 DEF ToSet
  <2>6. n <= 1 => ToSet(s) \subseteq {s[1]}
      BY <2>3 DEF ToSet
  <2>7. ~IsBindingSet(text) => ListedIn(text) \subseteq {s[1]}
      BY <2>2, <2>3, <2>4, <2>6
  <2> QED
      BY <2>2, <2>4, <2>5, <2>7 DEF s
<1> QED
    BY <1>6, <1>7

-----------------------------------------------------------------------------
(* The values of a binding are texts. *)
TextValues(b) == \A k \in DOMAIN b : b[k] \in Texts

(* A principal's record has a code that was generated, and a binding. *)
RecordsFit ==
    /\ record = [n \in Names |-> record[n]]
    /\ \A n \in Names : record[n] # None =>
          /\ record[n] = [code |-> record[n].code, binding |-> record[n].binding]
          /\ record[n].code \in made
          /\ TextValues(record[n].binding)

(* What a form shows again was typed into no secret field. *)
NoSecrets(values) ==
    KeysJoinUniquely(enrollment) =>
        \A k \in DOMAIN values : values[k] \notin SecretEntries \ {Blank}

(* The page is one of the forms, and asks for what there is. *)
Fits(p) ==
    /\ p.step \in {"over", "approval", "enroll", "choice", "chooser"}
    /\ p.step \in {"enroll", "choice"} => p.mode \in {m.key : m \in ToSet(enrollment.modes)}
    /\ p.step = "enroll" => NoSecrets(p.values)
    /\ p.step = "chooser" => \A k \in DOMAIN p.offers : p.offers[k] # {}

FormsInv ==
    /\ FirstUseTypeOK
    /\ enrollment \in Enrollments /\ Validate(enrollment)
    /\ RecordsFit
    /\ Fits(page)

LEMMA OverFits == Fits(Over) /\ Fits(Approval)
BY DEF Over, Approval, Fits

LEMMA EnrollPageFits ==
    ASSUME enrollment \in Enrollments, Validate(enrollment), NEW code, NEW key, NEW values,
           key = <<>> \/ key \in {m.key : m \in ToSet(enrollment.modes)},
           NoSecrets(values)
    PROVE  Fits(EnrollPage(code, key, values))
<1> DEFINE p == EnrollPage(code, key, values)
<1>1. p.step = "enroll" /\ p.values = values
      /\ p.mode = IF key = <<>> THEN enrollment.modes[1].key ELSE key
    BY DEF EnrollPage
<1>2. p.mode \in {m.key : m \in ToSet(enrollment.modes)}
    BY <1>1, FirstMode
<1> QED
    BY <1>1, <1>2 DEF Fits

LEMMA ChooserPageFits ==
    ASSUME NEW code, NEW b, TextValues(b)
    PROVE  Fits(ChooserPage(code, b))
<1> DEFINE p == ChooserPage(code, b)
<1>1. p.step = "chooser" /\ p.offers = [k \in SetValuedKeys(b) |-> ToSet(BindingSet(b[k]))]
    BY DEF ChooserPage
<1>2. ASSUME NEW k \in SetValuedKeys(b) PROVE ToSet(BindingSet(b[k])) # {}
    BY SetsAreListed DEF SetValuedKeys, TextValues
<1> HIDE DEF p
<1>3. \A k \in DOMAIN p.offers : p.offers[k] # {}
    BY <1>1, <1>2
<1> QED
    BY <1>1, <1>3 DEF Fits, p

(* Whom a code identifies has a code. *)
LEMMA Identified ==
    ASSUME NEW code, NEW x \in Names, x = VerifyPrincipal(code)
    PROVE  record[x] # None
<1> DEFINE matched == {y \in Names \cup {Anonymous} :
                 CurrentCode(y) # None /\ EqualPairing(NormalizePairing(code), CurrentCode(y))}
<1>1. x # Anonymous /\ x # None
    BY ApprovalFormsAssumption
<1>2. x \in matched
  <2>1. x = IF Anonymous \in matched THEN Anonymous
            ELSE IF matched = {} THEN None ELSE CHOOSE y \in matched : TRUE
      BY DEF VerifyPrincipal
  <2> HIDE DEF matched
  <2> QED
      BY <1>1, <2>1
<1> QED
    BY <1>1, <1>2 DEF CurrentCode

LEMMA BindingText ==
    ASSUME RecordsFit, NEW code, NEW x \in Names \cup {Anonymous}, x = VerifyPrincipal(code)
    PROVE  TextValues(Binding(x))
<1>1. TextValues(<<>>)
    BY DEF TextValues
<1> QED
    BY <1>1, Identified DEF Binding, RecordsFit

(* What is shown again of the entries of a form is no secret. *)
LEMMA ShownAgain ==
    ASSUME enrollment \in Enrollments, NEW m \in ToSet(enrollment.modes),
           NEW filled \in Fillings
    PROVE  NoSecrets(NonSecret(m, CollectValues(m, Inputs, filled)))
<1> DEFINE values == CollectValues(m, Inputs, filled)
<1> SUFFICES ASSUME KeysJoinUniquely(enrollment), NEW f \in ToSet(m.fields), ~f.secret
             PROVE  values[f.key] \notin SecretEntries \ {Blank}
    BY DEF NoSecrets, NonSecret
<1>1. PICK i \in DOMAIN enrollment.modes : m = enrollment.modes[i]
    BY DEF ToSet
<1>2. PICK j \in DOMAIN m.fields : f = m.fields[j]
    BY DEF ToSet
<1>3. PICK p \in DOMAIN Inputs : Inputs[p] = View(enrollment, page.values, i, j)
  <2>1. i \in DOMAIN enrollment.modes /\ j \in DOMAIN enrollment.modes[i].fields
      BY <1>1, <1>2
  <2> DEFINE v == page.values
             s == Inputs
  <2>2. s = EnrollInputs(enrollment, v)
      BY DEF Inputs
  <2> HIDE DEF s, v
  <2>3. \E p \in DOMAIN s : s[p] = View(enrollment, v, i, j)
      BY <2>1, <2>2, InputsAlike
  <2> QED
      BY <2>3 DEF s, v
<1>4. /\ Inputs[p].key = f.key /\ Inputs[p].secret = f.secret
      /\ Inputs[p].name = FieldInputName(m.key, f.key)
    BY <1>1, <1>2, <1>3 DEF View
<1>5. f.key \in FieldKeys(m)
    BY <1>2 DEF FieldKeys
<1>6. values[f.key] = Trimmed(filled[p])
    BY <1>4, <1>5, Collected DEF Inputs
<1>7. filled[p] \in PlainEntries
    BY <1>4 DEF Fillings
<1> QED
    BY <1>6, <1>7, ApprovalFormsAssumption

(***************************************************************************)
(* What every step leaves in place.                                        *)
(***************************************************************************)
LEMMA InitFits == Init => FormsInv
<1> SUFFICES ASSUME Init PROVE FormsInv
    OBVIOUS
<1>1. FirstUseTypeOK
    BY DEF Init, FirstUseInit, FirstUseTypeOK
<1>2. RecordsFit
    BY DEF Init, RecordsFit
<1> QED
    BY <1>1, <1>2, OverFits DEF Init, FormsInv

(* The configuration stays, so a page that fits goes on to fit. *)
LEMMA SamePageFits ==
    ASSUME FormsInv, UNCHANGED <<enrollment, page>>
    PROVE  Fits(page)' /\ enrollment' \in Enrollments /\ Validate(enrollment')
BY DEF FormsInv, Fits, NoSecrets

LEMMA NewPageFits ==
    ASSUME FormsInv, UNCHANGED enrollment, NEW p, Fits(p), page' = p
    PROVE  Fits(page)' /\ enrollment' \in Enrollments /\ Validate(enrollment')
BY DEF FormsInv, Fits, NoSecrets

LEMMA SameRecordsFit ==
    ASSUME FormsInv, UNCHANGED record, made \subseteq made'
    PROVE  RecordsFit'
BY DEF FormsInv, RecordsFit

LEMMA NewRecordFits ==
    ASSUME FormsInv, made \subseteq made', NEW n \in Names,
           NEW v \in made', NEW b, TextValues(b),
           record' = [record EXCEPT ![n] = [code |-> v, binding |-> b]]
    PROVE  RecordsFit'
<1> DEFINE r == [code |-> v, binding |-> b]
<1>1. r.code = v /\ r.binding = b /\ r = [code |-> r.code, binding |-> r.binding]
    OBVIOUS
<1> HIDE DEF r
<1>2. record = [m \in Names |-> record[m]] /\ record' = [record EXCEPT ![n] = r]
    BY DEF FormsInv, RecordsFit, r
<1>3. record' = [m \in Names |-> record'[m]]
    BY <1>2
<1>4. \A m \in Names : record'[m] = IF m = n THEN r ELSE record[m]
    BY <1>2
<1> QED
    BY <1>1, <1>3, <1>4 DEF FormsInv, RecordsFit

LEMMA OperatorFits ==
    ASSUME FormsInv, OperatorActs \/ Reset
    PROVE  FormsInv'
<1>1. FirstUseTypeOK'
  <2>1. CASE OperatorActs
    <3>1. Server \in Callers /\ Shared \in Slots
        BY ApprovalFormsAssumption, FirstUseAssumption
    <3>2. FirstUseNext
        BY <2>1, <3>1 DEF OperatorActs, FirstUseNext
    <3> QED
        BY <3>2, TypesKept DEF FormsInv
  <2>2. CASE Reset
      BY <2>2, TypesKept DEF Reset, FormsInv, FirstUseNext
  <2> QED
      BY <2>1, <2>2
<1>2. UNCHANGED <<enrollment, page>>
    BY DEF OperatorActs, Reset
<1>3. RecordsFit'
  <2>1. CASE OperatorActs
      BY <2>1, SameRecordsFit
      DEF OperatorActs, Misses, Stores, GivesUp, Rotate, Generate
  <2>2. CASE Reset
      BY <2>2 DEF Reset, RecordsFit
  <2> QED
      BY <2>1, <2>2
<1> QED
    BY <1>1, <1>2, <1>3, SamePageFits DEF FormsInv

LEMMA PrincipalFits ==
    ASSUME FormsInv, NEW n \in Names,
           AddPrincipal(n) \/ SetPrincipalBinding(n) \/ RemovePrincipal(n)
    PROVE  FormsInv'
<1>1. TextValues(<<>>) /\ \A b \in Bindings : TextValues(b)
    BY ApprovalFormsAssumption DEF TextValues, Texts
<1>2. FirstUseTypeOK'
    BY DEF AddPrincipal, SetPrincipalBinding, RemovePrincipal, secretStore,
           FormsInv, FirstUseTypeOK
<1>3. UNCHANGED <<enrollment, page>>
    BY DEF AddPrincipal, SetPrincipalBinding, RemovePrincipal
<1>4. CASE AddPrincipal(n)
  <2>1. PICK v \in Secrets \ made :
           /\ made' = made \cup {v}
           /\ \E b \in Bindings \cup (IF record[n] = None THEN {<<>>} ELSE {record[n].binding}) :
                 record' = [record EXCEPT ![n] = [code |-> v, binding |-> b]]
      BY <1>4 DEF AddPrincipal
  <2>2. PICK b \in Bindings \cup (IF record[n] = None THEN {<<>>} ELSE {record[n].binding}) :
           record' = [record EXCEPT ![n] = [code |-> v, binding |-> b]]
      BY <2>1
  <2>3. TextValues(b)
      BY <1>1 DEF FormsInv, RecordsFit
  <2>4. RecordsFit'
      BY <2>1, <2>2, <2>3, NewRecordFits
  <2> QED
      BY <1>2, <1>3, <2>4, SamePageFits DEF FormsInv
<1>5. CASE SetPrincipalBinding(n)
  <2>1. PICK b \in Bindings \cup {<<>>} : record' = [record EXCEPT ![n].binding = b]
      BY <1>5 DEF SetPrincipalBinding
  <2>2. record[n] = [code |-> record[n].code, binding |-> record[n].binding]
        /\ record[n].code \in made /\ made' = made
      BY <1>5 DEF SetPrincipalBinding, FormsInv, RecordsFit, secretStore
  <2>3. record' = [record EXCEPT ![n] = [code |-> record[n].code, binding |-> b]]
    <3> DEFINE old == record[n]
    <3>1. [old EXCEPT !.binding = b] = [code |-> old.code, binding |-> b]
      <4>1. old = [code |-> old.code, binding |-> old.binding]
          BY <2>2
      <4> HIDE DEF old
      <4> QED
          BY <4>1
    <3> QED
        BY <2>1, <3>1
  <2>4. RecordsFit'
      BY <1>1, <2>2, <2>3, NewRecordFits
  <2> QED
      BY <1>2, <1>3, <2>4, SamePageFits DEF FormsInv
<1>6. CASE RemovePrincipal(n)
  <2>1. record' = [record EXCEPT ![n] = None] /\ made' = made
      BY <1>6 DEF RemovePrincipal, secretStore
  <2>2. RecordsFit'
      BY <2>1 DEF FormsInv, RecordsFit
  <2> QED
      BY <1>2, <1>3, <2>2, SamePageFits DEF FormsInv
<1> QED
    BY <1>4, <1>5, <1>6

(* A POST changes no secret but what has been told. *)
LEMMA PostedType ==
    ASSUME FormsInv, NEW step, NEW code, NEW x, Post(step, code, x)
    PROVE  FirstUseTypeOK' /\ made' = made /\ slot' = slot /\ enrollment' = enrollment
<1>1. Server \in Callers /\ Shared \in Slots
    BY ApprovalFormsAssumption, FirstUseAssumption
<1>2. FirstUseNext
    BY <1>1 DEF Post, FirstUseNext
<1> QED
    BY <1>2, TypesKept DEF FormsInv, Post, Finds

LEMMA GoOnFits ==
    ASSUME FormsInv, NEW x \in Names \cup {Anonymous}, NEW code, NEW other,
           x = VerifyPrincipal(other), NEW choice, GoOn(x, code, choice)
    PROVE  \E p : page' = p /\ Fits(p)
<1>1. NoSecrets(<<>>)
    BY DEF NoSecrets
<1>2. Fits(EnrollPage(code, <<>>, <<>>))
    BY <1>1, EnrollPageFits DEF FormsInv
<1>3. TextValues(Binding(x))
    BY BindingText DEF FormsInv
<1>4. Fits(ChooserPage(code, Binding(x)))
    BY <1>3, ChooserPageFits
<1> QED
    BY <1>2, <1>4, OverFits DEF GoOn, Issue

LEMMA FinishFits ==
    ASSUME FormsInv, NEW x \in Names, NEW code, x = VerifyPrincipal(code),
           NEW m \in ToSet(enrollment.modes), NEW values, NoSecrets(values),
           made' = made, UNCHANGED enrollment, Finish(x, m, values)
    PROVE  RecordsFit' /\ \E p : page' = p /\ Fits(p)
<1>1. m.key \in {n.key : n \in ToSet(enrollment.modes)}
    OBVIOUS
<1>2. CASE page' = EnrollPage(page.code, m.key, values) /\ UNCHANGED record
    BY <1>1, <1>2, EnrollPageFits, SameRecordsFit DEF FormsInv
<1>3. CASE page' = [step |-> "choice", code |-> page.code, mode |-> m.key] /\ UNCHANGED record
  <2>1. Fits([step |-> "choice", code |-> page.code, mode |-> m.key])
      BY <1>1 DEF Fits
  <2> QED
      BY <1>3, <2>1, SameRecordsFit
<1>4. ASSUME NEW b \in EnrolledBindings, NEW merged,
             merged = [k \in DOMAIN b \cup DOMAIN Binding(x) |->
                          IF k \in DOMAIN b THEN b[k] ELSE Binding(x)[k]],
             record' = [record EXCEPT ![x].binding = merged],
             Issue(merged, merged)
      PROVE  RecordsFit' /\ \E p : page' = p /\ Fits(p)
  <2>1. record[x] # None
      BY Identified
  <2>2. record[x] = [code |-> record[x].code, binding |-> record[x].binding]
        /\ record[x].code \in made
      BY <2>1 DEF FormsInv, RecordsFit
  <2>3. TextValues(Binding(x))
      BY BindingText DEF FormsInv
  <2>4. TextValues(merged)
      BY <1>4, <2>3, ApprovalFormsAssumption DEF TextValues, Texts
  <2>5. record' = [record EXCEPT ![x] = [code |-> record[x].code, binding |-> merged]]
    <3> DEFINE old == record[x]
    <3>1. [old EXCEPT !.binding = merged] = [code |-> old.code, binding |-> merged]
      <4>1. old = [code |-> old.code, binding |-> old.binding]
          BY <2>2
      <4> HIDE DEF old
      <4> QED
          BY <4>1
    <3> QED
        BY <1>4, <3>1
  <2>6. RecordsFit'
      BY <2>2, <2>4, <2>5, NewRecordFits
  <2> QED
      BY <1>4, <2>6, OverFits DEF Issue
<1> QED
    BY <1>2, <1>3, <1>4 DEF Finish

LEMMA PostFits ==
    ASSUME FormsInv,
           Open \/ PostUnverified \/ SubmitCode \/ SubmitUpdate \/ SubmitPicks
    PROVE  FormsInv'
<1>1. CASE Open
  <2>1. FirstUseTypeOK'
      BY <1>1 DEF Open, secretStore, FormsInv, FirstUseTypeOK
  <2>2. RecordsFit'
      BY <1>1, SameRecordsFit DEF Open, secretStore
  <2>3. Fits(page)' /\ enrollment' \in Enrollments /\ Validate(enrollment')
      BY <1>1, OverFits, NewPageFits DEF Open
  <2> QED
      BY <2>1, <2>2, <2>3 DEF FormsInv
<1>2. ASSUME NEW step, NEW code, NEW x, Post(step, code, x), UNCHANGED record,
             \E p : page' = p /\ Fits(p)
      PROVE  FormsInv'
  <2>1. FirstUseTypeOK' /\ made' = made /\ enrollment' = enrollment
      BY <1>2, PostedType
  <2>2. RecordsFit'
      BY <1>2, <2>1, SameRecordsFit
  <2>3. Fits(page)' /\ enrollment' \in Enrollments /\ Validate(enrollment')
      BY <1>2, <2>1, NewPageFits
  <2> QED
      BY <2>1, <2>2, <2>3 DEF FormsInv
<1>3. CASE PostUnverified
  <2>1. PICK code : Post(page.step, code, None)
      BY <1>3 DEF PostUnverified
  <2> QED
      BY <1>2, <1>3, <2>1, OverFits DEF PostUnverified
<1>4. CASE SubmitCode
  <2>1. PICK code \in CodesTyped, x \in Names \cup {Anonymous} :
           Post("approval", code, x) /\ GoOn(x, code, None)
      BY <1>4 DEF SubmitCode
  <2>2. \E p : page' = p /\ Fits(p)
      BY <2>1, GoOnFits DEF Post
  <2> QED
      BY <1>2, <1>4, <2>1, <2>2 DEF SubmitCode
<1>5. CASE SubmitUpdate
  <2>1. PICK code \in CodesTyped, x \in Names :
           Post("approval", code, x) /\ page' = EnrollPage(code, <<>>, <<>>)
      BY <1>5 DEF SubmitUpdate
  <2>2. Fits(EnrollPage(code, <<>>, <<>>))
    <3>1. NoSecrets(<<>>)
        BY DEF NoSecrets
    <3> QED
        BY <3>1, EnrollPageFits DEF FormsInv
  <2> QED
      BY <1>2, <1>5, <2>1, <2>2 DEF SubmitUpdate
<1>6. CASE SubmitPicks
  <2>1. PICK x \in Names \cup {Anonymous} :
           /\ Post("chooser", page.code, x)
           /\ \E choice \in Picks(DOMAIN Binding(x)) : GoOn(x, page.code, choice)
      BY <1>6 DEF SubmitPicks
  <2>2. \E p : page' = p /\ Fits(p)
      BY <2>1, GoOnFits DEF Post
  <2> QED
      BY <1>2, <1>6, <2>1, <2>2 DEF SubmitPicks
<1> QED
    BY <1>1, <1>3, <1>4, <1>5, <1>6

LEMMA FinishedFits ==
    ASSUME FormsInv, NEW step, NEW x \in Names, Post(step, page.code, x),
           NEW m \in ToSet(enrollment.modes), NEW values, NoSecrets(values),
           Finish(x, m, values)
    PROVE  FormsInv'
<1>1. FirstUseTypeOK' /\ made' = made /\ enrollment' = enrollment
    BY PostedType
<1>2. x = VerifyPrincipal(page.code)
    BY DEF Post
<1>3. RecordsFit' /\ \E p : page' = p /\ Fits(p)
    BY <1>1, <1>2, FinishFits
<1>4. Fits(page)' /\ enrollment' \in Enrollments /\ Validate(enrollment')
    BY <1>1, <1>3, NewPageFits
<1> QED
    BY <1>1, <1>3, <1>4 DEF FormsInv

LEMMA SubmitFits ==
    ASSUME FormsInv, SubmitFields \/ SubmitChoice
    PROVE  FormsInv'
<1>1. CASE SubmitFields
  <2>1. PICK x \in Names, key \in {m.key : m \in ToSet(enrollment.modes)} :
           /\ Post("enroll", page.code, x)
           /\ \E filled \in Fillings, m \in ModesOf(enrollment, key) :
                 LET values == CollectValues(m, Inputs, filled)
                 IN  IF Missing(m, values) = {}
                     THEN /\ received' = [mode |-> key, values |-> values,
                                          inputs |-> Inputs, filled |-> filled]
                          /\ Finish(x, m, NonSecret(m, values))
                     ELSE /\ page' = EnrollPage(page.code, m.key, NonSecret(m, values))
                          /\ UNCHANGED record
                          /\ Forgotten
      BY <1>1 DEF SubmitFields
  <2>2. PICK filled \in Fillings, m \in ModesOf(enrollment, key) :
           LET shown == NonSecret(m, CollectValues(m, Inputs, filled))
           IN  \/ Finish(x, m, shown)
               \/ page' = EnrollPage(page.code, m.key, shown) /\ UNCHANGED record
      BY <2>1
  <2> DEFINE shown == NonSecret(m, CollectValues(m, Inputs, filled))
  <2>3. m \in ToSet(enrollment.modes)
      BY SelectedModes DEF FormsInv
  <2>4. NoSecrets(shown)
      BY <2>3, ShownAgain DEF FormsInv
  <2>5. Finish(x, m, shown) \/ (page' = EnrollPage(page.code, m.key, shown) /\ UNCHANGED record)
      BY <2>2
  <2> HIDE DEF shown
  <2>6. CASE Finish(x, m, shown)
      BY <2>1, <2>3, <2>4, <2>6, FinishedFits
  <2>7. CASE page' = EnrollPage(page.code, m.key, shown) /\ UNCHANGED record
    <3>1. Fits(EnrollPage(page.code, m.key, shown))
        BY <2>3, <2>4, EnrollPageFits DEF FormsInv
    <3>2. FirstUseTypeOK' /\ made' = made /\ enrollment' = enrollment
        BY <2>1, PostedType
    <3>3. RecordsFit'
        BY <2>7, <3>2, SameRecordsFit
    <3>4. Fits(page)' /\ enrollment' \in Enrollments /\ Validate(enrollment')
        BY <2>7, <3>1, <3>2, NewPageFits
    <3> QED
        BY <3>2, <3>3, <3>4 DEF FormsInv
  <2> QED
      BY <2>5, <2>6, <2>7
<1>2. CASE SubmitChoice
  <2>1. PICK x \in Names :
           /\ Post("choice", page.code, x)
           /\ \E m \in ModesOf(enrollment, page.mode) : Finish(x, m, <<>>)
      BY <1>2 DEF SubmitChoice
  <2>2. PICK m \in ModesOf(enrollment, page.mode) : Finish(x, m, <<>>)
      BY <2>1
  <2>3. m \in ToSet(enrollment.modes)
      BY SelectedModes DEF FormsInv
  <2>4. NoSecrets(<<>>)
      BY DEF NoSecrets
  <2> QED
      BY <2>1, <2>2, <2>3, <2>4, FinishedFits
<1> QED
    BY <1>1, <1>2

LEMMA NextFits == FormsInv /\ [Next]_vars => FormsInv'
<1> SUFFICES ASSUME FormsInv, [Next]_vars PROVE FormsInv'
    OBVIOUS
<1>1. CASE UNCHANGED vars
  <2>1. RecordsFit'
      BY <1>1, SameRecordsFit DEF vars, secretStore
  <2>2. FirstUseTypeOK'
      BY <1>1 DEF vars, secretStore, FirstUseTypeOK, FormsInv
  <2> QED
      BY <1>1, <2>1, <2>2, SamePageFits DEF vars, FormsInv
<1>2. CASE Next
    BY <1>2, OperatorFits, PrincipalFits, PostFits, SubmitFits DEF Next
<1> QED
    BY <1>1, <1>2

THEOREM FormsFit == Spec => []FormsInv
BY InitFits, NextFits, PTL DEF Spec

LEMMA FitsHasType == FormsInv => TypeOK
<1> SUFFICES ASSUME FormsInv PROVE TypeOK
    OBVIOUS
<1>1. page.step \in {"enroll", "choice"} => Cardinality(ModesOf(enrollment, page.mode)) = 1
  <2> SUFFICES ASSUME page.step \in {"enroll", "choice"}
               PROVE  Cardinality(ModesOf(enrollment, page.mode)) = 1
      OBVIOUS
  <2>1. PICK m \in ToSet(enrollment.modes) : page.mode = m.key
      BY DEF FormsInv, Fits
  <2>2. ModesOf(enrollment, m.key) = {m}
      BY ModeSelected DEF FormsInv
  <2>3. Cardinality({m}) = 1
      BY FS_Singleton
  <2> QED
      BY <2>1, <2>2, <2>3
<1> QED
    BY <1>1 DEF FormsInv, RecordsFit, Fits, TypeOK

(***************************************************************************)
(* Whatever is configured, typed and reset, the browser is shown one of    *)
(* the five pages, an enrollment page belongs to exactly one mode of the   *)
(* configuration and no chooser has a set without options.                 *)
(***************************************************************************)
THEOREM FormsType == Spec => []TypeOK
BY FormsFit, FitsHasType, PTL

LEMMA FitsEchoesNothing == FormsInv => SecretsAreNotEchoed
<1> SUFFICES ASSUME FormsInv, KeysJoinUniquely(enrollment), page.step = "enroll",
                    NEW p \in DOMAIN Inputs
             PROVE  Inputs[p].value \notin SecretEntries \ {Blank}
    BY DEF SecretsAreNotEchoed
<1>1. \A k \in DOMAIN page.values : page.values[k] \notin SecretEntries \ {Blank}
    BY DEF FormsInv, Fits, NoSecrets
<1> DEFINE v == page.values
           s == Inputs
<1>2. s = EnrollInputs(enrollment, v) /\ p \in DOMAIN s
    BY DEF Inputs
<1> HIDE DEF s, v
<1>3. PICK i \in DOMAIN enrollment.modes : \E j \in DOMAIN enrollment.modes[i].fields :
         s[p] = View(enrollment, v, i, j)
    BY <1>2, InputsAlike DEF FormsInv
<1>4. PICK j \in DOMAIN enrollment.modes[i].fields : s[p] = View(enrollment, v, i, j)
    BY <1>3
<1>5. s[p].value = Blank \/ \E k \in DOMAIN v : s[p].value = v[k]
    BY <1>4 DEF View
<1> QED
    BY <1>1, <1>5 DEF s, v

(***************************************************************************)
(* For every enrollment whose joined keys are unique, and all entries of   *)
(* secret fields that can be told from others: no page shows what was      *)
(* typed into a secret field.                                              *)
(***************************************************************************)
THEOREM SecretsStayHidden == Spec => []SecretsAreNotEchoed
BY FormsFit, FitsEchoesNothing, PTL

-----------------------------------------------------------------------------
(* What is collected for a mode, from the form that shows all modes. *)
LEMMA CollectedOfMode ==
    ASSUME NEW e \in Enrollments, Validate(e), KeysJoinUniquely(e), NEW v,
           NEW s, s = EnrollInputs(e, v), NEW filled, NEW m \in ToSet(e.modes),
           NEW own, own = {i \in DOMAIN s : s[i].mode = m.key}
    PROVE  /\ FieldKeys(m) = {s[i].key : i \in own}
           /\ \A i \in own : CollectValues(m, s, filled)[s[i].key] = Trimmed(filled[i])
<1>1. PICK i \in DOMAIN e.modes : m = e.modes[i]
    BY DEF ToSet
<1>2. ASSUME NEW p \in own
      PROVE  \E j \in DOMAIN m.fields : s[p] = View(e, v, i, j)
  <2>1. PICK i2 \in DOMAIN e.modes : \E j \in DOMAIN e.modes[i2].fields : s[p] = View(e, v, i2, j)
      BY InputsAlike
  <2>2. PICK j \in DOMAIN e.modes[i2].fields : s[p] = View(e, v, i2, j)
      BY <2>1
  <2>3. e.modes[i2].key = m.key
      BY <2>2 DEF View
  <2>4. e.modes[i2] \in ToSet(e.modes)
      BY DEF ToSet
  <2>5. ModesOf(e, m.key) = {e.modes[i2]} /\ ModesOf(e, m.key) = {m}
      BY <2>3, <2>4, ModeSelected
  <2>6. e.modes[i2] = m
      BY <2>5
  <2>7. View(e, v, i2, j) = View(e, v, i, j)
      BY <1>1, <2>6 DEF View
  <2> QED
      BY <2>2, <2>6, <2>7
<1>3. ASSUME NEW p \in own
      PROVE  s[p].key \in FieldKeys(m) /\ s[p].name = FieldInputName(m.key, s[p].key)
  <2>1. PICK j \in DOMAIN m.fields : s[p] = View(e, v, i, j)
      BY <1>2
  <2> QED
      BY <1>1, <2>1 DEF View, FieldKeys
<1>4. ASSUME NEW j \in DOMAIN m.fields
      PROVE  \E p \in own : s[p].key = m.fields[j].key
  <2>1. j \in DOMAIN e.modes[i].fields
      BY <1>1
  <2>2. PICK p \in DOMAIN s : s[p] = View(e, v, i, j)
      BY <2>1, InputsAlike
  <2>3. s[p].mode = m.key /\ s[p].key = m.fields[j].key
      BY <1>1, <2>2 DEF View
  <2> QED
      BY <2>3
<1>5. FieldKeys(m) = {s[p].key : p \in own}
    BY <1>3, <1>4 DEF FieldKeys
<1>6. ASSUME NEW p \in own
      PROVE  CollectValues(m, s, filled)[s[p].key] = Trimmed(filled[p])
    BY <1>3, Collected
<1> QED
    BY <1>5, <1>6

LEMMA CallbackKept ==
    ASSUME FormsInv, CallbackGetsWhatWasTyped, [Next]_vars
    PROVE  CallbackGetsWhatWasTyped'
<1>1. enrollment' = enrollment
    BY DEF Next, vars, OperatorActs, Reset, AddPrincipal, SetPrincipalBinding, RemovePrincipal,
           Open, PostUnverified, SubmitCode, SubmitUpdate, SubmitPicks, SubmitFields,
           SubmitChoice, Post
<1>2. CASE SubmitFields /\ received' # None
  <2>0. PICK key \in {m.key : m \in ToSet(enrollment.modes)} :
           \E filled \in Fillings, m \in ModesOf(enrollment, key) :
              received' = [mode |-> key, values |-> CollectValues(m, Inputs, filled),
                           inputs |-> Inputs, filled |-> filled]
      BY <1>2 DEF SubmitFields, Forgotten
  <2>1. PICK filled \in Fillings, m \in ModesOf(enrollment, key) :
           received' = [mode |-> key, values |-> CollectValues(m, Inputs, filled),
                        inputs |-> Inputs, filled |-> filled]
      BY <2>0
  <2>2. PICK n \in ToSet(enrollment.modes) : key = n.key
      OBVIOUS
  <2>3. ModesOf(enrollment, n.key) = {n}
      BY ModeSelected DEF FormsInv
  <2>4. m \in ToSet(enrollment.modes) /\ key = m.key
      BY <2>2, <2>3
  <2> DEFINE v == page.values
             s == Inputs
             own == {i \in DOMAIN s : s[i].mode = key}
  <2>5. s = EnrollInputs(enrollment, v) /\ own = {i \in DOMAIN s : s[i].mode = m.key}
      BY <2>4 DEF Inputs
  <2>6. /\ received'.mode = key /\ received'.inputs = s /\ received'.filled = filled
        /\ received'.values = CollectValues(m, s, filled)
      BY <2>1
  <2>7. own = {i \in DOMAIN received'.inputs : received'.inputs[i].mode = received'.mode}
      BY <2>6
  <2> HIDE DEF s, v, own
  <2>8. KeysJoinUniquely(enrollment) =>
           /\ FieldKeys(m) = {s[i].key : i \in own}
           /\ \A i \in own : CollectValues(m, s, filled)[s[i].key] = Trimmed(filled[i])
      BY <2>4, <2>5, CollectedOfMode DEF FormsInv
  <2>9. DOMAIN CollectValues(m, s, filled) = FieldKeys(m)
      BY DEF CollectValues
  <2> QED
      BY <1>1, <2>6, <2>7, <2>8, <2>9 DEF CallbackGetsWhatWasTyped
<1>3. CASE received' = None
    BY <1>3 DEF CallbackGetsWhatWasTyped
<1>4. CASE UNCHANGED vars
    BY <1>4 DEF vars, CallbackGetsWhatWasTyped
<1>5. CASE Next /\ ~SubmitFields
  <2>1. received' = None
      BY <1>5 DEF Next, Forgotten, OperatorActs, Reset, AddPrincipal, SetPrincipalBinding,
                  RemovePrincipal, Open, PostUnverified, SubmitCode, SubmitUpdate,
                  SubmitPicks, SubmitChoice
  <2> QED
      BY <1>3, <2>1
<1> QED
    BY <1>2, <1>3, <1>4, <1>5

(***************************************************************************)
(* For every enrollment whose joined keys are unique, of whatever modes and*)
(* fields: the callback gets the entries of the selected mode, each from   *)
(* its own input.                                                          *)
(***************************************************************************)
THEOREM CallbackIsRight == Spec => []CallbackGetsWhatWasTyped
<1>1. Init => CallbackGetsWhatWasTyped
    BY DEF Init, CallbackGetsWhatWasTyped
<1>2. FormsInv /\ CallbackGetsWhatWasTyped /\ [Next]_vars => CallbackGetsWhatWasTyped'
    BY CallbackKept
<1> QED
    BY <1>1, <1>2, FormsFit, PTL DEF Spec

-----------------------------------------------------------------------------
(* A text that is no set lists one member at most. *)
LEMMA ListedOnce ==
    ASSUME NEW text \in Texts, ~IsBindingSet(text)
    PROVE  ~(Cardinality(ListedIn(text)) > 1)
<1>1. ListedIn(text) = {} \/ \E x : ListedIn(text) = {x}
    BY SetsAreListed
<1>2. CASE ListedIn(text) = {}
    BY <1>2, FS_EmptySet
<1>3. ASSUME NEW x, ListedIn(text) = {x}
      PROVE  ~(Cardinality(ListedIn(text)) > 1)
  <2>1. Cardinality({x}) = 1
      BY FS_Singleton
  <2> QED
      BY <1>3, <2>1
<1> QED
    BY <1>1, <1>2, <1>3

(* What is issued for a binding: each value, or a listed one of it. *)
Listed(b, stored) ==
    /\ DOMAIN b = DOMAIN stored
    /\ \A k \in DOMAIN stored :
          b[k] \in IF Cardinality(ListedIn(stored[k])) > 1 THEN ListedIn(stored[k])
                   ELSE {stored[k]} \cup ListedIn(stored[k])

LEMMA NoSetsListed ==
    ASSUME NEW stored, TextValues(stored), SetValuedKeys(stored) = {}
    PROVE  Listed(stored, stored)
BY ListedOnce DEF Listed, TextValues, SetValuedKeys

LEMMA ChoicesListed ==
    ASSUME NEW stored, TextValues(stored), NEW choice, ChoicesValid(stored, choice)
    PROVE  Listed(ResolveBindingChoices(stored, choice), stored)
<1> DEFINE b == ResolveBindingChoices(stored, choice)
<1>1. DOMAIN b = DOMAIN stored
    BY DEF ResolveBindingChoices
<1>2. ASSUME NEW k \in DOMAIN stored
      PROVE  b[k] \in IF Cardinality(ListedIn(stored[k])) > 1 THEN ListedIn(stored[k])
                      ELSE {stored[k]} \cup ListedIn(stored[k])
  <2>1. stored[k] \in Texts
      BY DEF TextValues
  <2>2. CASE IsBindingSet(stored[k])
    <3>1. b[k] = choice[k] /\ k \in SetValuedKeys(stored)
        BY <2>2 DEF ResolveBindingChoices, SetValuedKeys
    <3>2. choice[k] \in ToSet(BindingSet(stored[k]))
        BY <3>1 DEF ChoicesValid, Offers
    <3>3. b[k] \in ListedIn(stored[k])
        BY <2>1, <2>2, <3>1, <3>2, SetsAreListed
    <3> QED
        BY <3>3
  <2>3. CASE ~IsBindingSet(stored[k])
    <3>1. b[k] = stored[k]
        BY <2>3 DEF ResolveBindingChoices, SetValuedKeys
    <3> QED
        BY <2>1, <2>3, <3>1, ListedOnce
  <2> QED
      BY <2>2, <2>3
<1> QED
    BY <1>1, <1>2 DEF Listed

LEMMA GoOnListed ==
    ASSUME FormsInv, NEW x \in Names \cup {Anonymous}, NEW other, x = VerifyPrincipal(other),
           NEW code, NEW choice, GoOn(x, code, choice), issued' # None
    PROVE  Listed(issued'.binding, issued'.stored)
<1>1. TextValues(Binding(x))
    BY BindingText DEF FormsInv
<1>2. \/ SetValuedKeys(Binding(x)) = {} /\ Issue(Binding(x), Binding(x))
      \/ /\ ChoicesValid(Binding(x), choice)
         /\ Issue(ResolveBindingChoices(Binding(x), choice), Binding(x))
    BY DEF GoOn
<1>3. \E b : Issue(b, Binding(x)) /\ Listed(b, Binding(x))
    BY <1>1, <1>2, NoSetsListed, ChoicesListed
<1> QED
    BY <1>3 DEF Issue

LEMMA ChoicesKept ==
    ASSUME FormsInv, ChoicesAreListed, [Next]_vars
    PROVE  ChoicesAreListed'
<1>1. ASSUME issued' # None => Listed(issued'.binding, issued'.stored)
      PROVE  ChoicesAreListed'
    BY <1>1 DEF ChoicesAreListed, Listed
<1>2. CASE SubmitCode
  <2>1. PICK code \in CodesTyped, x \in Names \cup {Anonymous} :
           Post("approval", code, x) /\ GoOn(x, code, None)
      BY <1>2 DEF SubmitCode
  <2>2. x = VerifyPrincipal(code)
      BY <2>1 DEF Post
  <2> QED
      BY <1>1, <2>1, <2>2, GoOnListed
<1>3. CASE SubmitPicks
  <2>1. PICK x \in Names \cup {Anonymous} :
           /\ Post("chooser", page.code, x)
           /\ \E choice \in Picks(DOMAIN Binding(x)) : GoOn(x, page.code, choice)
      BY <1>3 DEF SubmitPicks
  <2>2. x = VerifyPrincipal(page.code)
      BY <2>1 DEF Post
  <2> QED
      BY <1>1, <2>1, <2>2, GoOnListed
<1>4. ASSUME page.step \notin {"approval", "chooser"}, NEW x, NEW m, NEW values,
             Finish(x, m, values)
      PROVE  ChoicesAreListed'
  <2>1. issued' = None \/ \E b : Issue(b, b)
      BY <1>4 DEF Finish
  <2>2. issued' = None \/ issued'.step = page.step
      BY <2>1 DEF Issue
  <2> QED
      BY <1>4, <2>2 DEF ChoicesAreListed
<1>5. CASE SubmitFields
  <2>1. page.step = "enroll"
      BY <1>5 DEF SubmitFields, Post
  <2>2. issued' = None \/ \E x, m, values : Finish(x, m, values)
      BY <1>5 DEF SubmitFields, Forgotten
  <2> QED
      BY <1>1, <1>4, <2>1, <2>2
<1>6. CASE SubmitChoice
  <2>1. page.step = "choice" /\ \E x, m, values : Finish(x, m, values)
      BY <1>6 DEF SubmitChoice, Post
  <2> QED
      BY <1>4, <2>1
<1>7. CASE \/ OperatorActs \/ Reset \/ Open \/ PostUnverified \/ SubmitUpdate
           \/ \E n \in Names : AddPrincipal(n) \/ SetPrincipalBinding(n) \/ RemovePrincipal(n)
  <2>1. issued' = None
      BY <1>7 DEF Forgotten, OperatorActs, Reset, AddPrincipal, SetPrincipalBinding,
                  RemovePrincipal, Open, PostUnverified, SubmitUpdate
  <2> QED
      BY <1>1, <2>1
<1>8. CASE UNCHANGED vars
    BY <1>8 DEF vars, ChoicesAreListed
<1> QED
    BY <1>2, <1>3, <1>5, <1>6, <1>7, <1>8 DEF Next

(***************************************************************************)
(* For all bindings, of whatever texts: a code that is not issued from an  *)
(* enrollment carries a listed member for every set in the stored binding. *)
(***************************************************************************)
THEOREM ChoicesAreMembers == Spec => []ChoicesAreListed
<1>1. Init => ChoicesAreListed
    BY DEF Init, ChoicesAreListed
<1>2. FormsInv /\ ChoicesAreListed /\ [Next]_vars => ChoicesAreListed'
    BY ChoicesKept
<1> QED
    BY <1>1, <1>2, FormsFit, PTL DEF Spec
-----------------------------------------------------------------------------
(***************************************************************************)
(* Codes.  Lower case, without separators, a text is what it is character  *)
(* by character; so a code is its digits, whatever hand it is typed with,  *)
(* and the last steps of normalizePairing fold them back.                  *)
(***************************************************************************)
Low(ch) == Replaced(ch, Lowercase)
Fold(ch) == Replaced(Replaced(ch, Confusable), Uppercase)
Chars == STRING \cup Separators \cup DOMAIN Uppercase \cup DOMAIN Lowercase \cup {"0", "1"}

LEMMA LowerCase ==
    ASSUME NEW ch
    PROVE Low(ch) = IF ch = "M" THEN "m" ELSE IF ch = "C" THEN "c" ELSE IF ch = "P" THEN "p"
          ELSE IF ch = "O" THEN "o" ELSE IF ch = "I" THEN "i" ELSE IF ch = "L" THEN "l" ELSE ch
BY DEF Low, Replaced, Lowercase

LEMMA Folded ==
    ASSUME NEW ch
    PROVE Fold(ch) = IF ch = "m" THEN "M" ELSE IF ch = "c" THEN "C" ELSE IF ch = "p" THEN "P"
          ELSE IF ch = "o" THEN "0" ELSE IF ch = "i" \/ ch = "l" THEN "1" ELSE ch
BY DEF Fold, Replaced, Uppercase, Confusable

LEMMA Handwritten ==
    ASSUME NEW ch \in Digits, NEW hand \in Handwritings
    PROVE  /\ Replaced(ch, hand) \in Chars
           /\ Low(Replaced(ch, hand)) \in Chars \ Separators
           /\ Fold(Low(Replaced(ch, hand))) = ch
<1>1. ch \in Chars /\ ch \notin Separators /\ ch \notin {"m", "c", "p", "o", "i", "l", "O", "I", "L"}
    BY DEF Chars, Digits, Uppercase
<1>2. CASE hand = <<>>
    <2>1. Replaced(ch, hand) = ch
        BY <1>2 DEF Replaced
    <2> QED BY <1>1, <2>1, LowerCase, Folded DEF Chars, Separators, Uppercase
<1>3. CASE hand = Lowercase
    <2>1. Replaced(ch, hand) = Low(ch)
        BY <1>3 DEF Low
    <2> QED BY <1>1, <2>1, LowerCase, Folded DEF Chars, Separators, Uppercase
<1>4. CASE hand = [c \in {"0", "1"} |-> IF c = "0" THEN "O" ELSE "I"]
    <2>1. Replaced(ch, hand) = IF ch = "0" THEN "O" ELSE IF ch = "1" THEN "I" ELSE ch
        BY <1>4 DEF Replaced
    <2> QED BY <1>1, <2>1, LowerCase, Folded DEF Chars, Separators, Uppercase, Lowercase
<1>5. CASE hand = [c \in DOMAIN Lowercase \cup {"0", "1"} |->
                 IF c = "0" THEN "o" ELSE IF c = "1" THEN "l" ELSE Lowercase[c]]
    <2>1. Replaced(ch, hand) = IF ch = "0" THEN "o" ELSE IF ch = "1" THEN "l" ELSE Low(ch)
        BY <1>5 DEF Replaced, Low, Lowercase
    <2> QED BY <1>1, <2>1, LowerCase, Folded DEF Chars, Separators, Uppercase
<1> QED BY <1>2, <1>3, <1>4, <1>5 DEF Handwritings

LEMMA LowType ==
    ASSUME NEW ch \in Chars
    PROVE  Low(ch) \in Chars
BY LowerCase DEF Chars, Uppercase

(* A text in lower case and without separators, and how Strip makes it.    *)
Clean(text) == Strip(Translate(text, Lowercase))

Kept(ch) == IF Low(ch) \in Separators THEN <<>> ELSE <<Low(ch)>>

Rows(text) == [i \in DOMAIN text |-> Kept(text[i])]

LEMMA KeptType ==
    ASSUME NEW ch \in Chars
    PROVE  Kept(ch) \in Seq(Chars)
<1>1. <<>> \in Seq(Chars) /\ <<Low(ch)>> \in Seq(Chars)
    BY LowType, Singleton, EmptySeq
<1> QED
    BY <1>1 DEF Kept

LEMMA RowsType ==
    ASSUME NEW text \in Seq(Chars)
    PROVE  /\ Rows(text) \in Seq(Seq(Chars)) /\ Len(Rows(text)) = Len(text)
           /\ \A i \in 1..Len(text) : Rows(text)[i] = Kept(text[i])
<1>1. PICK n \in Nat : n = Len(text) /\ DOMAIN text = 1..n
    BY LenProperties
<1>2. \A i \in 1..n : Kept(text[i]) \in Seq(Chars)
    BY <1>1, ElementOfSeq, KeptType
<1> DEFINE r == Rows(text)
<1>3. r = [i \in 1..n |-> Kept(text[i])]
    BY <1>1 DEF Rows
<1> HIDE DEF r
<1>4. r \in [1..n -> Seq(Chars)]
    BY <1>2, <1>3
<1>5. DOMAIN r = 1..n /\ r \in Seq(Seq(Chars))
    BY <1>4, SeqDef
<1>6. Len(r) = n
    BY <1>5, LenProperties
<1> QED
    BY <1>1, <1>3, <1>5, <1>6 DEF r

LEMMA CleanRows ==
    ASSUME NEW text \in Seq(Chars)
    PROVE  Clean(text) = FlattenSeq(Rows(text)) /\ Clean(text) \in Seq(Chars)
<1> DEFINE t == Translate(text, Lowercase)
           r == [i \in DOMAIN t |-> IF t[i] \in Separators THEN <<>> ELSE <<t[i]>>]
<1>1. t = [i \in DOMAIN text |-> Low(text[i])]
    BY DEF Translate, Low
<1> HIDE DEF t
<1>2. r = [i \in DOMAIN text |-> IF Low(text[i]) \in Separators THEN <<>> ELSE <<Low(text[i])>>]
    BY <1>1
<1>3. r = Rows(text)
    BY <1>2 DEF Rows, Kept
<1>4. Clean(text) = FlattenSeq(r)
    BY DEF Clean, Strip, t
<1> HIDE DEF r
<1> QED
    BY <1>3, <1>4, RowsType, FlattenType

LEMMA CleanConcat ==
    ASSUME NEW a \in Seq(Chars), NEW b \in Seq(Chars)
    PROVE  Clean(a \o b) = Clean(a) \o Clean(b)
<1>1. PICK ab : ab = a \o b
    OBVIOUS
<1>2. /\ ab \in Seq(Chars) /\ Len(a) \in Nat /\ Len(b) \in Nat
      /\ Len(ab) = Len(a) + Len(b)
      /\ \A i \in 1..Len(a) : ab[i] = a[i]
      /\ \A j \in 1..Len(b) : ab[Len(a) + j] = b[j]
    BY <1>1, Joined
<1>3. PICK T, u, v, w : T = Seq(Chars) /\ u = Rows(ab) /\ v = Rows(a) /\ w = Rows(b)
    OBVIOUS
<1>4. /\ u \in Seq(T) /\ Len(u) = Len(ab) /\ \A i \in 1..Len(ab) : u[i] = Kept(ab[i])
      /\ v \in Seq(T) /\ Len(v) = Len(a) /\ \A i \in 1..Len(a) : v[i] = Kept(a[i])
      /\ w \in Seq(T) /\ Len(w) = Len(b) /\ \A i \in 1..Len(b) : w[i] = Kept(b[i])
    BY <1>2, <1>3, RowsType
<1>5. PICK n \in Nat, k \in Nat : n = Len(a) /\ k = Len(b)
    BY <1>2
<1>6. /\ \A i \in 1..n : i \in 1..n + k
      /\ \A j \in 1..k : n + j \in 1..n + k
    OBVIOUS
<1>7. /\ \A i \in 1..Len(v) : u[i] = v[i]
      /\ \A j \in 1..Len(w) : u[Len(v) + j] = w[j]
    BY <1>2, <1>4, <1>5, <1>6
<1>8. u = v \o w
  <2>1. Len(u) = Len(v) + Len(w)
      BY <1>2, <1>4
  <2>2. u \in Seq(T) /\ v \in Seq(T) /\ w \in Seq(T)
      BY <1>4
  <2> QED
      BY <1>7, <2>1, <2>2, ConcatIs, Zenon
<1>9. FlattenSeq(u) = FlattenSeq(v) \o FlattenSeq(w)
    BY <1>3, <1>4, <1>8, FlattenConcat
<1>10. Clean(ab) = FlattenSeq(u) /\ Clean(a) = FlattenSeq(v) /\ Clean(b) = FlattenSeq(w)
    BY <1>2, <1>3, CleanRows
<1> QED
    BY <1>1, <1>9, <1>10

LEMMA CleanShort ==
    /\ Clean(<<>>) = <<>>
    /\ \A ch \in Chars : Clean(<<ch>>) = Kept(ch)
<1>1. <<>> \in Seq(Chars) /\ Len(<<>>) = 0
    BY EmptySeq
<1>2. Clean(<<>>) = <<>>
    BY <1>1, RowsType, CleanRows, FlattenNone
<1>3. ASSUME NEW ch \in Chars PROVE Clean(<<ch>>) = Kept(ch)
  <2> DEFINE t == <<ch>>
  <2>1. t \in Seq(Chars) /\ Len(t) = 1 /\ t[1] = ch
      BY Singleton
  <2> HIDE DEF t
  <2>2. Rows(t) \in Seq(Seq(Chars)) /\ Len(Rows(t)) = 1 /\ Rows(t)[1] = Kept(ch)
    <3>1. 1 \in 1..Len(t)
        BY <2>1
    <3>2. /\ Rows(t) \in Seq(Seq(Chars)) /\ Len(Rows(t)) = Len(t)
          /\ \A i \in 1..Len(t) : Rows(t)[i] = Kept(t[i])
        BY <2>1, RowsType
    <3> QED
        BY <2>1, <3>1, <3>2
  <2>3. Clean(t) = Kept(ch)
      BY <2>1, <2>2, CleanRows, FlattenOne
  <2> QED
      BY <2>3 DEF t
<1> QED
    BY <1>2, <1>3

LEMMA CleanFlatten ==
    ASSUME NEW ss \in Seq(Seq(Chars))
    PROVE  Clean(FlattenSeq(ss)) = FlattenSeq([i \in 1..Len(ss) |-> Clean(ss[i])])
<1> DEFINE T == Seq(Chars)
           h == [t \in T |-> Clean(t)]
<1>1. \A t \in T : Clean(t) \in T
    BY CleanRows
<1>2. \A a, b \in T : a \o b \in T /\ Clean(a \o b) = Clean(a) \o Clean(b)
    BY CleanConcat, ConcatProperties
<1>3. <<>> \in T /\ Clean(<<>>) = <<>>
    BY EmptySeq, CleanShort
<1>4. FlattenSeq(ss) \in T /\ \A i \in 1..Len(ss) : ss[i] \in T
    BY FlattenType, ElementOfSeq
<1> HIDE DEF T
<1>5. h \in [T -> T] /\ h[<<>>] = <<>>
    BY <1>1, <1>3
<1>6. \A a, b \in T : h[a \o b] = h[a] \o h[b]
    BY <1>2
<1>7. h[FlattenSeq(ss)] = FlattenSeq([i \in 1..Len(ss) |-> h[ss[i]]])
  <2> HIDE DEF h
  <2> QED
      BY <1>5, <1>6, FlattenMap DEF T
<1>8. [i \in 1..Len(ss) |-> h[ss[i]]] = [i \in 1..Len(ss) |-> Clean(ss[i])]
    BY <1>4
<1> QED
    BY <1>4, <1>7, <1>8

(* A code's prefix as people type it is the prefix, cleaned, or nothing. *)
Cleaned == <<"m", "c", "p">>

(* Short sequences, with names for provers that see no tuples. *)
One(a) == <<a>>
Two(a, b) == <<a, b>>
Three(a, b, c) == <<a, b, c>>
Four(a, b, c, d) == <<a, b, c, d>>

LEMMA FourInARow ==
    ASSUME NEW S, NEW a \in S, NEW b \in S, NEW c \in S, NEW d \in S
    PROVE  /\ One(a) \in Seq(S) /\ One(b) \in Seq(S) /\ One(c) \in Seq(S) /\ One(d) \in Seq(S)
           /\ Two(a, b) \in Seq(S) /\ Two(a, b) = Cat(One(a), One(b))
           /\ Three(a, b, c) \in Seq(S) /\ Three(a, b, c) = Cat(Two(a, b), One(c))
           /\ Four(a, b, c, d) \in Seq(S) /\ Four(a, b, c, d) = Cat(Three(a, b, c), One(d))
<1>1. <<a>> \in Seq(S) /\ <<c>> \in Seq(S) /\ <<d>> \in Seq(S) /\ <<b>> \in Seq(S)
    OBVIOUS
<1>2. <<a, b>> = <<a>> \o <<b>>
  <2>1. <<a, b>> \in Seq(S)
      OBVIOUS
  <2> DEFINE u == <<a, b>>
             v == <<a>>
             w == <<b>>
  <2>2. Len(u) = 2 /\ Len(v) = 1 /\ Len(w) = 1
      OBVIOUS
  <2>3. u[1] = v[1] /\ u[2] = w[1]
      OBVIOUS
  <2>4. u \in Seq(S) /\ v \in Seq(S) /\ w \in Seq(S)
      BY <1>1, <2>1
  <2> HIDE DEF u, v, w
  <2>5. /\ \A i \in 1..Len(v) : u[i] = v[i]
        /\ \A j \in 1..Len(w) : u[Len(v) + j] = w[j]
      BY <2>2, <2>3
  <2>6. Len(u) = Len(v) + Len(w)
      BY <2>2
  <2>7. u = v \o w
      BY <2>4, <2>5, <2>6, ConcatIs, Zenon
  <2> QED
      BY <2>7 DEF u, v, w
<1>3. <<a, b>> \in Seq(S)
    OBVIOUS
<1>4. <<a, b, c>> = <<a, b>> \o <<c>>
    OBVIOUS
<1>5. <<a, b, c>> \in Seq(S)
    BY <1>1, <1>3, <1>4, ConcatProperties
<1>6. <<a, b, c, d>> = <<a, b, c>> \o <<d>>
    OBVIOUS
<1>7. <<a, b, c, d>> \in Seq(S)
    BY <1>1, <1>5, <1>6, ConcatProperties
<1>8. Two(a, b) \in Seq(S) /\ Three(a, b, c) \in Seq(S) /\ Four(a, b, c, d) \in Seq(S)
    BY <1>3, <1>5, <1>7 DEF Two, Three, Four
<1>9. /\ One(a) \in Seq(S) /\ One(b) \in Seq(S)
      /\ One(c) \in Seq(S) /\ One(d) \in Seq(S)
    BY <1>1 DEF One
<1>10. Two(a, b) = Cat(One(a), One(b))
    BY <1>2 DEF Two, Cat, One
<1>11. Three(a, b, c) = Cat(Two(a, b), One(c))
    BY <1>4 DEF Three, Two, Cat, One
<1>12. Four(a, b, c, d) = Cat(Three(a, b, c), One(d))
    BY <1>6 DEF Four, Three, Cat, One
<1> QED
    BY <1>8, <1>9, <1>10, <1>11, <1>12

LEMMA CleanCat ==
    /\ \A a, b \in Seq(Chars) : Clean(Cat(a, b)) = Cat(Clean(a), Clean(b))
    /\ \A ch \in Chars : Clean(One(ch)) = Kept(ch)
BY CleanConcat, CleanShort DEF Cat, One

LEMMA CleanFour ==
    ASSUME NEW a \in Chars, NEW b \in Chars, NEW c \in Chars, NEW d \in Chars
    PROVE  Clean(Four(a, b, c, d)) = Cat(Cat(Cat(Kept(a), Kept(b)), Kept(c)), Kept(d))
<1>1. /\ One(a) \in Seq(Chars) /\ One(b) \in Seq(Chars) /\ One(c) \in Seq(Chars)
      /\ One(d) \in Seq(Chars)
      /\ Two(a, b) \in Seq(Chars) /\ Two(a, b) = Cat(One(a), One(b))
      /\ Three(a, b, c) \in Seq(Chars) /\ Three(a, b, c) = Cat(Two(a, b), One(c))
      /\ Four(a, b, c, d) = Cat(Three(a, b, c), One(d))
    BY FourInARow
<1>2. Clean(Two(a, b)) = Cat(Kept(a), Kept(b))
    BY <1>1, CleanCat
<1>3. Clean(Three(a, b, c)) = Cat(Cat(Kept(a), Kept(b)), Kept(c))
    BY <1>1, <1>2, CleanCat
<1> QED
    BY <1>1, <1>3, CleanCat

LEMMA FourChars ==
    \A a, b, c, d \in Chars :
        /\ One(a) \in Seq(Chars)
        /\ Two(a, b) = Cat(One(a), One(b))
        /\ Three(a, b, c) \in Seq(Chars) /\ Three(a, b, c) = Cat(Two(a, b), One(c))
        /\ Four(a, b, c, d) \in Seq(Chars)
        /\ Clean(Four(a, b, c, d)) = Cat(Cat(Cat(Kept(a), Kept(b)), Kept(c)), Kept(d))
<1>1. ASSUME NEW a \in Chars, NEW b \in Chars, NEW c \in Chars, NEW d \in Chars
      PROVE  /\ One(a) \in Seq(Chars)
             /\ Two(a, b) = Cat(One(a), One(b))
             /\ Three(a, b, c) \in Seq(Chars) /\ Three(a, b, c) = Cat(Two(a, b), One(c))
             /\ Four(a, b, c, d) \in Seq(Chars)
  <2> PICK S : S = Chars
      OBVIOUS
  <2>1. a \in S /\ b \in S /\ c \in S /\ d \in S
      OBVIOUS
  <2>2. /\ One(a) \in Seq(S)
        /\ Two(a, b) = Cat(One(a), One(b))
        /\ Three(a, b, c) \in Seq(S) /\ Three(a, b, c) = Cat(Two(a, b), One(c))
        /\ Four(a, b, c, d) \in Seq(S)
      BY <2>1, FourInARow
  <2> QED
      BY <2>2
<1>2. ASSUME NEW a \in Chars, NEW b \in Chars, NEW c \in Chars, NEW d \in Chars
      PROVE  Clean(Four(a, b, c, d)) = Cat(Cat(Cat(Kept(a), Kept(b)), Kept(c)), Kept(d))
    BY CleanFour
<1> QED
    BY <1>1, <1>2

LEMMA CleanPrefixes ==
    /\ PrefixesTyped \subseteq Seq(Chars)
    /\ PairingPrefix \in Seq(Chars)
    /\ Cleaned \in Seq(Chars)
    /\ Clean(<<>>) = <<>> /\ Clean(PairingPrefix) = Cleaned
    /\ \A p \in PrefixesTyped : p # <<>> => Clean(p) = Cleaned
<1>1. PICK m \in Chars, c \in Chars, p \in Chars, M \in Chars, C \in Chars, P \in Chars,
           dash \in Chars, blank \in Chars :
          /\ m = "m" /\ c = "c" /\ p = "p" /\ M = "M" /\ C = "C" /\ P = "P"
          /\ dash = "-" /\ blank = " "
  <2>1. /\ "m" \in Chars /\ "c" \in Chars /\ "p" \in Chars /\ "-" \in Chars
        /\ " " \in Chars /\ "M" \in Chars /\ "C" \in Chars /\ "P" \in Chars
      BY DEF Chars, Separators, Uppercase, Lowercase
  <2> QED
      BY <2>1, Zenon
<1>2. PairingPrefix = Four(m, c, p, dash) /\ Cleaned = Three(m, c, p)
    BY <1>1 DEF PairingPrefix, Four, Cleaned, Three
<1>3. <<" ", "M", "C", "P">> = Four(blank, M, C, P)
    BY <1>1 DEF Four
<1>4. /\ Kept(m) = One(m) /\ Kept(c) = One(c) /\ Kept(p) = One(p)
      /\ Kept(M) = One(m) /\ Kept(C) = One(c) /\ Kept(P) = One(p)
      /\ Kept(dash) = <<>> /\ Kept(blank) = <<>>
    BY <1>1, LowerCase DEF Kept, Separators, One
<1>5. \A t \in Seq(Chars) : Cat(t, <<>>) = t /\ Cat(<<>>, t) = t
    BY ConcatEmptySeq DEF Cat
<1>6. /\ One(m) \in Seq(Chars)
      /\ Cat(Cat(One(m), One(c)), One(p)) = Three(m, c, p)
      /\ Three(m, c, p) \in Seq(Chars)
    BY FourChars
<1>7. Clean(Four(m, c, p, dash)) = Three(m, c, p)
  <2> DEFINE k == Clean(Four(m, c, p, dash))
  <2>1. k = Cat(Cat(Cat(Kept(m), Kept(c)), Kept(p)), Kept(dash))
      BY FourChars
  <2> HIDE DEF k
  <2>2. k = Cat(Cat(Cat(One(m), One(c)), One(p)), <<>>)
      BY <1>4, <2>1
  <2> QED
      BY <1>5, <1>6, <2>2 DEF k
<1>8. Clean(Four(blank, M, C, P)) = Three(m, c, p)
  <2> DEFINE k == Clean(Four(blank, M, C, P))
  <2>1. k = Cat(Cat(Cat(Kept(blank), Kept(M)), Kept(C)), Kept(P))
      BY FourChars
  <2> HIDE DEF k
  <2>2. k = Cat(Cat(Cat(<<>>, One(m)), One(c)), One(p))
      BY <1>4, <2>1
  <2> QED
      BY <1>5, <1>6, <2>2 DEF k
<1>9. <<>> \in Seq(Chars)
    BY EmptySeq
<1>10. Four(m, c, p, dash) \in Seq(Chars) /\ Four(blank, M, C, P) \in Seq(Chars)
    BY FourChars
<1>11. \A q \in PrefixesTyped :
          q = <<>> \/ q = Four(m, c, p, dash) \/ q = Four(blank, M, C, P)
    BY <1>2, <1>3, Zenon DEF PrefixesTyped
<1>12. PrefixesTyped \subseteq Seq(Chars)
    BY <1>9, <1>10, <1>11
<1>13. \A q \in PrefixesTyped : q # <<>> => Clean(q) = Cleaned
    BY <1>2, <1>7, <1>8, <1>11, Zenon
<1>14. PairingPrefix \in Seq(Chars) /\ Cleaned \in Seq(Chars)
    BY <1>2, <1>6, <1>10
<1> QED
    BY <1>2, <1>7, <1>12, <1>13, <1>14, CleanShort, Zenon
-----------------------------------------------------------------------------
(* What is between the hyphens of a code, character by character: as it is *)
(* written, as a hand types it, and what is left of that.                  *)
Group == Digits \cup {"-"}
Plain(b) == [i \in DOMAIN b |-> IF b[i] = "-" THEN <<>> ELSE <<b[i]>>]
Written(b, hand, between) ==
    [i \in DOMAIN b |-> IF b[i] = "-" THEN between ELSE <<Replaced(b[i], hand)>>]
Left(b, hand) == [i \in DOMAIN b |-> IF b[i] = "-" THEN <<>> ELSE <<Low(Replaced(b[i], hand))>>]

LEMMA GroupType ==
    ASSUME NEW b \in Seq(Group)
    PROVE  /\ Len(b) \in Nat /\ DOMAIN b = 1..Len(b)
           /\ \A i \in 1..Len(b) : b[i] # "-" => b[i] \in Digits
           /\ \A i \in 1..Len(b) : b[i] \in Chars
           /\ b \in Seq(Chars)
<1>1. Len(b) \in Nat /\ DOMAIN b = 1..Len(b)
    BY LenProperties
<1>2. Group \subseteq Chars
    BY DEF Group, Digits, Chars, Separators
<1>3. \A i \in 1..Len(b) : b[i] \in Group
    BY ElementOfSeq
<1>4. \A i \in 1..Len(b) : b[i] \in Chars
    BY <1>2, <1>3
<1>5. b \in Seq(Chars)
  <2>1. PICK n \in Nat : n = Len(b)
      BY <1>1
  <2>2. b \in [1..n -> Group]
      BY <1>1, <1>3, <2>1, LenProperties
  <2>3. b \in [1..n -> Chars]
      BY <1>2, <2>2
  <2> QED
      BY <2>3, SeqDef
<1> QED
    BY <1>1, <1>3, <1>4, <1>5 DEF Group

LEMMA Listing ==
    ASSUME NEW T, NEW n \in Nat, NEW r \in [1..n -> T]
    PROVE  r \in Seq(T) /\ Len(r) = n
<1>1. r \in Seq(T)
    BY SeqDef
<1> QED
    BY <1>1, LenProperties

LEMMA GroupRows ==
    ASSUME NEW b \in Seq(Group), NEW hand \in Handwritings,
           NEW between \in {<<>>, <<"-">>, <<" ">>}
    PROVE  /\ Plain(b) \in Seq(Seq(Chars)) /\ Len(Plain(b)) = Len(b)
           /\ Written(b, hand, between) \in Seq(Seq(Chars))
           /\ Len(Written(b, hand, between)) = Len(b)
           /\ Left(b, hand) \in Seq(Seq(Chars)) /\ Len(Left(b, hand)) = Len(b)
<1>1. Len(b) \in Nat /\ DOMAIN b = 1..Len(b)
    BY GroupType
<1>2. <<>> \in Seq(Chars) /\ between \in Seq(Chars)
  <2>1. "-" \in Chars /\ " " \in Chars
      BY DEF Chars, Separators
  <2> QED
      BY <2>1, EmptySeq, Singleton
<1>3. ASSUME NEW i \in 1..Len(b), b[i] # "-"
      PROVE  /\ <<b[i]>> \in Seq(Chars) /\ <<Replaced(b[i], hand)>> \in Seq(Chars)
             /\ <<Low(Replaced(b[i], hand))>> \in Seq(Chars)
  <2>1. b[i] \in Chars /\ Replaced(b[i], hand) \in Chars /\ Low(Replaced(b[i], hand)) \in Chars
      BY <1>3, GroupType, Handwritten
  <2> QED
      BY <2>1, Singleton
<1> DEFINE p == Plain(b)
           w == Written(b, hand, between)
           l == Left(b, hand)
<1>4. /\ p = [i \in 1..Len(b) |-> IF b[i] = "-" THEN <<>> ELSE <<b[i]>>]
      /\ w = [i \in 1..Len(b) |-> IF b[i] = "-" THEN between ELSE <<Replaced(b[i], hand)>>]
      /\ l = [i \in 1..Len(b) |-> IF b[i] = "-" THEN <<>> ELSE <<Low(Replaced(b[i], hand))>>]
    BY <1>1 DEF Plain, Written, Left
<1> HIDE DEF p, w, l
<1>5. /\ p \in [1..Len(b) -> Seq(Chars)]
      /\ w \in [1..Len(b) -> Seq(Chars)]
      /\ l \in [1..Len(b) -> Seq(Chars)]
    BY <1>2, <1>3, <1>4
<1>6. \A r \in [1..Len(b) -> Seq(Chars)] : r \in Seq(Seq(Chars)) /\ Len(r) = Len(b)
  <2>1. ASSUME NEW r \in [1..Len(b) -> Seq(Chars)]
        PROVE  r \in Seq(Seq(Chars)) /\ Len(r) = Len(b)
    <3>1. Len(b) \in Nat
        BY <1>1
    <3> QED
        BY <3>1, Listing, Zenon
  <2> QED
      BY <2>1
<1> QED
    BY <1>5, <1>6 DEF p, w, l

(* Whatever the hand, what is left is the digits, folded. *)
LEMMA LeftFolds ==
    ASSUME NEW b \in Seq(Group), NEW hand \in Handwritings,
           NEW l, l = FlattenSeq(Left(b, hand)), NEW s, s = FlattenSeq(Plain(b))
    PROVE  /\ l \in Seq(Chars) /\ s \in Seq(Chars) /\ Len(l) = Len(s)
           /\ \A p \in 1..Len(l) : Fold(l[p]) = s[p]
<1>1. PICK ll, ss : ll = Left(b, hand) /\ ss = Plain(b)
    OBVIOUS
<1>2. /\ ll \in Seq(Seq(Chars)) /\ Len(ll) = Len(b)
      /\ ss \in Seq(Seq(Chars)) /\ Len(ss) = Len(b)
  <2>1. <<>> \in {<<>>, <<"-">>, <<" ">>}
      OBVIOUS
  <2> QED
      BY <1>1, <2>1, GroupRows
<1>3. DOMAIN b = 1..Len(b)
    BY GroupType
<1>4. \A i \in 1..Len(b) :
         /\ b[i] = "-" => ll[i] = <<>> /\ ss[i] = <<>>
         /\ b[i] # "-" => ll[i] = <<Low(Replaced(b[i], hand))>> /\ ss[i] = <<b[i]>>
    BY <1>1, <1>3 DEF Left, Plain
<1>5. \A i \in 1..Len(b) : Len(ll[i]) = Len(ss[i])
    BY <1>4
<1>6. /\ Len(l) = Len(s)
      /\ \A p \in 1..Len(l) : \E i, j : StandsAt(p, i, j, l, s, ll, ss)
    BY <1>1, <1>2, <1>5, FlattenTogether
<1>7. ASSUME NEW p \in 1..Len(l) PROVE Fold(l[p]) = s[p]
  <2>1. PICK i, j : StandsAt(p, i, j, l, s, ll, ss)
      BY <1>6
  <2>2. i \in 1..Len(b) /\ j \in 1..Len(ll[i]) /\ l[p] = ll[i][j] /\ s[p] = ss[i][j]
      BY <1>2, <2>1 DEF StandsAt
  <2>3. b[i] # "-"
      BY <1>4, <2>2
  <2>4. j = 1 /\ l[p] = Low(Replaced(b[i], hand)) /\ s[p] = b[i]
    <3>1. ll[i] = <<Low(Replaced(b[i], hand))>> /\ ss[i] = <<b[i]>>
        BY <1>4, <2>2, <2>3
    <3>2. j = 1
        BY <2>2, <3>1
    <3> QED
        BY <2>2, <3>1, <3>2
  <2>5. b[i] \in Digits
      BY <2>2, <2>3, GroupType
  <2> QED
      BY <2>4, <2>5, Handwritten
<1>8. l \in Seq(Chars) /\ s \in Seq(Chars)
    BY <1>1, <1>2, FlattenType
<1> QED
    BY <1>6, <1>7, <1>8

LEMMA StripGroup ==
    ASSUME NEW b \in Seq(Group)
    PROVE  Strip(b) = FlattenSeq(Plain(b))
<1>1. \A i \in DOMAIN b : b[i] \in Separators <=> b[i] = "-"
  <2>1. \A i \in DOMAIN b : b[i] # "-" => b[i] \in Digits
      BY GroupType
  <2> QED
      BY <2>1 DEF Digits, Separators
<1>2. [i \in DOMAIN b |-> IF b[i] \in Separators THEN <<>> ELSE <<b[i]>>] = Plain(b)
    BY <1>1 DEF Plain
<1> QED
    BY <1>2 DEF Strip

(* Cleaned, a handwritten text is what is left of it. *)
LEMMA CleanWritten ==
    ASSUME NEW b \in Seq(Group), NEW hand \in Handwritings,
           NEW between \in {<<>>, <<"-">>, <<" ">>}
    PROVE  /\ FlattenSeq(Written(b, hand, between)) \in Seq(Chars)
           /\ Clean(FlattenSeq(Written(b, hand, between))) = FlattenSeq(Left(b, hand))
<1>1. PICK w : w = Written(b, hand, between)
    OBVIOUS
<1>2. w \in Seq(Seq(Chars)) /\ Len(w) = Len(b) /\ DOMAIN b = 1..Len(b)
    BY <1>1, GroupRows, GroupType
<1>3. Clean(between) = <<>>
  <2>1. "-" \in Chars /\ " " \in Chars
      BY DEF Chars, Separators
  <2>2. Kept("-") = <<>> /\ Kept(" ") = <<>>
      BY LowerCase DEF Kept, Separators
  <2>3. Clean(<<"-">>) = <<>> /\ Clean(<<" ">>) = <<>> /\ Clean(<<>>) = <<>>
      BY <2>1, <2>2, CleanShort
  <2> QED
      BY <2>3
<1>4. ASSUME NEW i \in 1..Len(b)
      PROVE  Clean(w[i]) = IF b[i] = "-" THEN <<>> ELSE <<Low(Replaced(b[i], hand))>>
  <2>1. CASE b[i] = "-"
    <3>1. w[i] = between
        BY <1>1, <1>2, <2>1 DEF Written
    <3> QED
        BY <1>3, <2>1, <3>1
  <2>2. CASE b[i] # "-"
    <3>1. w[i] = <<Replaced(b[i], hand)>>
        BY <1>1, <1>2, <2>2 DEF Written
    <3>2. b[i] \in Digits
        BY <2>2, GroupType
    <3>3. PICK ch : ch = Replaced(b[i], hand)
        OBVIOUS
    <3>4. ch \in Chars /\ Low(ch) \notin Separators
        BY <3>2, <3>3, Handwritten
    <3>5. Clean(<<ch>>) = <<Low(ch)>>
        BY <3>4, CleanShort DEF Kept
    <3> QED
        BY <2>2, <3>1, <3>3, <3>5
  <2> QED
      BY <2>1, <2>2
<1>5. [i \in 1..Len(w) |-> Clean(w[i])] = Left(b, hand)
    BY <1>2, <1>4 DEF Left
<1>6. Clean(FlattenSeq(w)) = FlattenSeq([i \in 1..Len(w) |-> Clean(w[i])])
    BY <1>2, CleanFlatten
<1> QED
    BY <1>1, <1>2, <1>5, <1>6, FlattenType

LEMMA CleanGroup ==
    ASSUME NEW b \in Seq(Group)
    PROVE  b \in Seq(Chars) /\ Clean(b) = FlattenSeq(Left(b, <<>>))
<1>1. b \in Seq(Chars) /\ DOMAIN b = 1..Len(b)
    BY GroupType
<1>2. ASSUME NEW i \in 1..Len(b)
      PROVE  Kept(b[i]) = IF b[i] = "-" THEN <<>> ELSE <<Low(Replaced(b[i], <<>>))>>
  <2>1. CASE b[i] = "-"
    <3>1. Kept("-") = <<>>
        BY LowerCase DEF Kept, Separators
    <3> QED
        BY <2>1, <3>1
  <2>2. CASE b[i] # "-"
    <3>1. b[i] \in Digits /\ <<>> \in Handwritings
        BY <2>2, GroupType DEF Handwritings
    <3>2. Replaced(b[i], <<>>) = b[i]
        BY DEF Replaced
    <3>3. Low(b[i]) \notin Separators
        BY <3>1, <3>2, Handwritten
    <3> QED
        BY <2>2, <3>2, <3>3 DEF Kept
  <2> QED
      BY <2>1, <2>2
<1>3. Rows(b) = Left(b, <<>>)
    BY <1>1, <1>2 DEF Rows, Left
<1> QED
    BY <1>1, <1>3, CleanRows
LEMMA StripPrefix == Strip(PairingPrefix) = Cleaned
<1>1. PICK p : p = PairingPrefix
    OBVIOUS
<1>2. p \in Seq(Chars) /\ Clean(p) = Cleaned
    BY <1>1, CleanPrefixes
<1>3. Translate(p, Lowercase) = p
  <2>1. \A i \in DOMAIN p : p[i] \in {"m", "c", "p", "-"}
      BY <1>1 DEF PairingPrefix
  <2>2. \A i \in DOMAIN p : Replaced(p[i], Lowercase) = p[i]
      BY <2>1, LowerCase DEF Low
  <2>3. p = [i \in DOMAIN p |-> p[i]]
      BY <1>2, LenProperties
  <2> QED
      BY <2>2, <2>3 DEF Translate
<1> QED
    BY <1>1, <1>2, <1>3 DEF Clean

LEMMA CleanedIs == Len(Cleaned) = 3 /\ Cleaned[1] = "m" /\ Cleaned[2] = "c" /\ Cleaned[3] = "p"
BY DEF Cleaned

LEMMA TrimsPrefix ==
    ASSUME NEW w \in Seq(Chars)
    PROVE  TrimPrefix(Cleaned \o w, Cleaned) = w
<1>1. PICK x, c : x = Cleaned \o w /\ c = Cleaned
    OBVIOUS
<1>2. c \in Seq(Chars) /\ Len(c) = 3
    BY <1>1, CleanPrefixes, CleanedIs
<1>3. PICK n \in Nat : n = Len(w)
    BY LenProperties
<1>4. /\ x \in Seq(Chars) /\ Len(x) = 3 + n
      /\ \A i \in 1..3 : x[i] = c[i]
      /\ \A j \in 1..n : x[3 + j] = w[j]
  <2>1. /\ x \in Seq(Chars) /\ Len(x) = Len(c) + Len(w)
        /\ \A i \in 1..Len(c) : x[i] = c[i]
        /\ \A j \in 1..Len(w) : x[Len(c) + j] = w[j]
    <3>1. c \in Seq(Chars) /\ x = c \o w
        BY <1>1, <1>2
    <3> QED
        BY <3>1, Joined
  <2> QED
      BY <1>2, <1>3, <2>1
<1>5. \A i \in 1..(3 + n) : x[i] \in Chars
    BY <1>4, ElementOfSeq
<1>6. \A i \in 1..3 : c[i] \in Chars
    BY <1>2, ElementOfSeq
<1>7. SubSeq(c, 1, 3) = SubSeq(x, 1, 3)
  <2>1. /\ SubSeq(c, 1, 3) \in Seq(Chars) /\ Len(SubSeq(c, 1, 3)) = 3
        /\ \A i \in 1..3 : SubSeq(c, 1, 3)[i] = c[i]
      BY <1>6, SubSeqProperties
  <2>2. \A i \in 1..3 : x[i] \in Chars
      BY <1>5
  <2>3. /\ SubSeq(x, 1, 3) \in Seq(Chars) /\ Len(SubSeq(x, 1, 3)) = 3
        /\ \A i \in 1..3 : SubSeq(x, 1, 3)[i] = x[i]
      BY <2>2, SubSeqProperties
  <2> QED
      BY <1>4, <2>1, <2>3, SeqEqual
<1>8. IsPrefix(c, x)
    BY <1>2, <1>4, <1>7 DEF IsPrefix
<1>9. SubSeq(x, 4, 3 + n) = w
  <2> DEFINE t == SubSeq(x, 4, 3 + n)
  <2>1. \A i \in 4..(3 + n) : x[i] \in Chars
      BY <1>5
  <2>2. /\ t \in Seq(Chars)
        /\ Len(t) = IF 4 <= 3 + n THEN 3 + n - 4 + 1 ELSE 0
        /\ \A i \in 1..(3 + n) - 4 + 1 : t[i] = x[4 + i - 1]
      BY <2>1, SubSeqProperties
  <2> HIDE DEF t
  <2>3. Len(t) = n /\ \A i \in 1..n : t[i] = x[3 + i]
    <3>1. (3 + n) - 4 + 1 = n /\ \A i \in 1..n : 4 + i - 1 = 3 + i
        OBVIOUS
    <3> QED
        BY <2>2, <3>1
  <2>4. t = w
      BY <1>3, <1>4, <2>2, <2>3, SeqEqual
  <2> QED
      BY <2>4 DEF t
<1>10. TrimPrefix(x, c) = SubSeq(x, 4, 3 + n)
    BY <1>2, <1>4, <1>8 DEF TrimPrefix
<1> QED
    BY <1>1, <1>9, <1>10

(* The last steps of normalizePairing: what is left is folded. *)
LEMMA FoldsBack ==
    ASSUME NEW l \in Seq(Chars), NEW s \in Seq(Chars), Len(l) = Len(s),
           \A p \in 1..Len(l) : Fold(l[p]) = s[p]
    PROVE  Translate(Translate(l, Confusable), Uppercase) = s
<1>1. DOMAIN l = 1..Len(l) /\ DOMAIN s = 1..Len(l) /\ s = [p \in 1..Len(l) |-> s[p]]
    BY LenProperties
<1> DEFINE c == Translate(l, Confusable)
<1>2. c = [p \in 1..Len(l) |-> Replaced(l[p], Confusable)]
    BY <1>1 DEF Translate
<1> HIDE DEF c
<1>3. Translate(c, Uppercase) = [p \in 1..Len(l) |-> Fold(l[p])]
    BY <1>2 DEF Translate, Fold
<1>4. [p \in 1..Len(l) |-> Fold(l[p])] = [p \in 1..Len(l) |-> s[p]]
    OBVIOUS
<1> QED
    BY <1>1, <1>3, <1>4 DEF c

(* Without its prefix, only digits that begin like it are cut. *)
LEMMA CutIfAlike ==
    ASSUME NEW l \in Seq(Chars), NEW s \in Seq(Chars), Len(l) = Len(s),
           \A p \in 1..Len(l) : Fold(l[p]) = s[p],
           IsPrefix(Cleaned, l)
    PROVE  IsPrefix(<<"M", "C", "P">>, s)
<1>1. PICK n \in Nat : n = Len(l)
    BY LenProperties
<1>2. PICK c : c = Cleaned
    OBVIOUS
<1>3. Len(c) = 3 /\ c[1] = "m" /\ c[2] = "c" /\ c[3] = "p" /\ c \in Seq(Chars)
    BY <1>2, CleanedIs, CleanPrefixes
<1>4. 3 <= n /\ SubSeq(c, 1, 3) = SubSeq(l, 1, 3)
    BY <1>1, <1>2, <1>3 DEF IsPrefix
<1>5. \A i \in 1..3 : c[i] \in Chars /\ l[i] \in Chars /\ s[i] \in Chars
  <2>1. \A i \in 1..3 : i \in 1..n
      BY <1>4
  <2> QED
      BY <1>1, <1>3, <2>1, ElementOfSeq
<1>6. \A i \in 1..3 : l[i] = c[i]
  <2>1. \A i \in 1..3 : SubSeq(c, 1, 3)[i] = c[i]
      BY <1>5, SubSeqProperties
  <2>2. \A i \in 1..3 : SubSeq(l, 1, 3)[i] = l[i]
      BY <1>5, SubSeqProperties
  <2> QED
      BY <1>4, <2>1, <2>2
<1>7. s[1] = "M" /\ s[2] = "C" /\ s[3] = "P"
  <2>1. 1 \in 1..Len(l) /\ 2 \in 1..Len(l) /\ 3 \in 1..Len(l)
      BY <1>1, <1>4
  <2>2. l[1] = "m" /\ l[2] = "c" /\ l[3] = "p"
      BY <1>3, <1>6
  <2>3. s[1] = Fold("m") /\ s[2] = Fold("c") /\ s[3] = Fold("p")
      BY <2>1, <2>2
  <2> QED
      BY <2>3, Folded
<1> DEFINE m == <<"M", "C", "P">>
<1>8. Len(m) = 3 /\ m[1] = "M" /\ m[2] = "C" /\ m[3] = "P"
    OBVIOUS
<1> HIDE DEF m
<1>9. SubSeq(m, 1, 3) = SubSeq(s, 1, 3)
  <2>1. \A i \in 1..3 : m[i] = s[i]
      BY <1>7, <1>8
  <2>2. /\ SubSeq(m, 1, 3) \in Seq(Chars) /\ Len(SubSeq(m, 1, 3)) = 3
        /\ \A i \in 1..3 : SubSeq(m, 1, 3)[i] = m[i]
      BY <1>5, <2>1, SubSeqProperties
  <2>3. /\ SubSeq(s, 1, 3) \in Seq(Chars) /\ Len(SubSeq(s, 1, 3)) = 3
        /\ \A i \in 1..3 : SubSeq(s, 1, 3)[i] = s[i]
      BY <1>5, SubSeqProperties
  <2> QED
      BY <2>1, <2>2, <2>3, SeqEqual
<1>10. IsPrefix(m, s)
    BY <1>1, <1>4, <1>8, <1>9 DEF IsPrefix
<1> QED
    BY <1>10 DEF m
-----------------------------------------------------------------------------
LEMMA NormalizeIs ==
    ASSUME NEW text
    PROVE  NormalizePairing(text) =
               Translate(Translate(TrimPrefix(Clean(text), Cleaned), Confusable), Uppercase)
BY StripPrefix DEF NormalizePairing, Clean

LEMMA NormalizeLeft ==
    ASSUME NEW b \in Seq(Group), NEW hand \in Handwritings, NEW text,
           \/ Clean(text) = Cleaned \o FlattenSeq(Left(b, hand))
           \/ /\ Clean(text) = FlattenSeq(Left(b, hand))
              /\ ~IsPrefix(<<"M", "C", "P">>, Strip(b))
    PROVE  NormalizePairing(text) = Strip(b)
<1>1. PICK l, s : l = FlattenSeq(Left(b, hand)) /\ s = Strip(b)
    OBVIOUS
<1>2. /\ l \in Seq(Chars) /\ s \in Seq(Chars) /\ Len(l) = Len(s)
      /\ \A p \in 1..Len(l) : Fold(l[p]) = s[p]
    BY <1>1, StripGroup, LeftFolds
<1>3. TrimPrefix(Clean(text), Cleaned) = l
  <2>1. CASE Clean(text) = Cleaned \o l
      BY <1>2, <2>1, TrimsPrefix
  <2>2. CASE Clean(text) = l /\ ~IsPrefix(<<"M", "C", "P">>, s)
    <3>1. ~IsPrefix(Cleaned, l)
        BY <1>2, <2>2, CutIfAlike
    <3> QED
        BY <2>2, <3>1 DEF TrimPrefix
  <2> QED
      BY <1>1, <2>1, <2>2
<1>4. Translate(Translate(l, Confusable), Uppercase) = s
    BY <1>2, FoldsBack
<1> QED
    BY <1>1, <1>3, <1>4, NormalizeIs

LEMMA NormalizeSpelling ==
    ASSUME NEW code, Body(code) \in Seq(Group), NEW habit \in Habits,
           BeginsLikePrefix(code) => habit.prefix # <<>>
    PROVE  NormalizePairing(Spelling(code, habit)) = Strip(Body(code))
<1>1. PICK b \in Seq(Group) : b = Body(code)
    OBVIOUS
<1>2. PICK prefix \in PrefixesTyped, hand \in Handwritings,
           between \in {<<>>, <<"-">>, <<" ">>} :
          prefix = habit.prefix /\ hand = habit.hand /\ between = habit.between
    BY DEF Habits
<1>3. PICK typed, l : typed = FlattenSeq(Written(b, hand, between)) /\ l = FlattenSeq(Left(b, hand))
    OBVIOUS
<1>4. typed \in Seq(Chars) /\ Clean(typed) = l
    BY <1>3, CleanWritten
<1>5. Spelling(code, habit) = prefix \o typed
    BY <1>1, <1>2, <1>3 DEF Spelling, Written
<1>6. prefix \in Seq(Chars)
    BY CleanPrefixes
<1>7. Clean(prefix \o typed) = Clean(prefix) \o l
    BY <1>4, <1>6, CleanConcat
<1>8. CASE prefix # <<>>
  <2>1. Clean(prefix) = Cleaned
      BY <1>8, CleanPrefixes
  <2> QED
      BY <1>1, <1>3, <1>5, <1>7, <2>1, NormalizeLeft
<1>9. CASE prefix = <<>>
  <2>1. Clean(prefix) = <<>>
      BY <1>9, CleanPrefixes
  <2>2. l \in Seq(Chars)
      BY <1>4, CleanRows
  <2>3. <<>> \o l = l
      BY <2>2, ConcatEmptySeq
  <2>4. ~IsPrefix(<<"M", "C", "P">>, Strip(b))
      BY <1>1, <1>2, <1>9 DEF BeginsLikePrefix
  <2> QED
      BY <1>1, <1>3, <1>5, <1>7, <2>1, <2>3, <2>4, NormalizeLeft
<1> QED
    BY <1>8, <1>9

LEMMA NormalizeStored ==
    ASSUME NEW code, Body(code) \in Seq(Group), code = PairingPrefix \o Body(code)
    PROVE  NormalizePairing(code) = Strip(Body(code))
<1>1. PICK b \in Seq(Group) : b = Body(code)
    OBVIOUS
<1>2. PICK p : p = PairingPrefix
    OBVIOUS
<1>3. p \in Seq(Chars) /\ Clean(p) = Cleaned
    BY <1>2, CleanPrefixes
<1>4. b \in Seq(Chars) /\ Clean(b) = FlattenSeq(Left(b, <<>>))
    BY CleanGroup
<1>5. Clean(p \o b) = Cleaned \o FlattenSeq(Left(b, <<>>))
    BY <1>3, <1>4, CleanConcat
<1>6. <<>> \in Handwritings
    BY DEF Handwritings
<1>7. Clean(code) = Cleaned \o FlattenSeq(Left(b, <<>>))
    BY <1>1, <1>2, <1>5
<1> QED
    BY <1>1, <1>6, <1>7, NormalizeLeft

(* Two codes with the same digits and hyphens in the same places are one.  *)
LEMMA StripTells ==
    ASSUME NEW b \in Seq(Group), NEW d \in Seq(Group), Len(d) = Len(b),
           \A i \in DOMAIN b : d[i] = "-" <=> b[i] = "-",
           Strip(b) = Strip(d)
    PROVE  b = d
<1>1. PICK bb, dd, s : bb = Plain(b) /\ dd = Plain(d) /\ s = Strip(b)
    OBVIOUS
<1>2. /\ bb \in Seq(Seq(Chars)) /\ Len(bb) = Len(b)
      /\ dd \in Seq(Seq(Chars)) /\ Len(dd) = Len(b)
  <2>1. <<>> \in {<<>>, <<"-">>, <<" ">>} /\ <<>> \in Handwritings
      BY DEF Handwritings
  <2> QED
      BY <1>1, <2>1, GroupRows
<1>3. DOMAIN b = 1..Len(b) /\ DOMAIN d = 1..Len(b)
    BY GroupType
<1>4. \A i \in 1..Len(b) :
         /\ b[i] = "-" => bb[i] = <<>> /\ dd[i] = <<>>
         /\ b[i] # "-" => bb[i] = <<b[i]>> /\ dd[i] = <<d[i]>>
    BY <1>1, <1>3 DEF Plain
<1>5. ASSUME NEW i \in 1..Len(b) PROVE Len(bb[i]) = Len(dd[i])
  <2>1. CASE b[i] = "-"
      BY <1>4, <2>1
  <2>2. CASE b[i] # "-"
    <3>1. bb[i] = <<b[i]>> /\ dd[i] = <<d[i]>>
        BY <1>4, <2>2
    <3> QED
        BY <3>1
  <2> QED
      BY <2>1, <2>2
<1>6. s = FlattenSeq(bb) /\ s = FlattenSeq(dd)
    BY <1>1, StripGroup
<1>7. \A i \in 1..Len(bb) : \A j \in 1..Len(bb[i]) : \E p : StandsAt(p, i, j, s, s, bb, dd)
    BY <1>2, <1>5, <1>6, FlattenTogether
<1>8. ASSUME NEW i \in 1..Len(b) PROVE b[i] = d[i]
  <2>1. CASE b[i] = "-"
      BY <1>3, <2>1
  <2>2. CASE b[i] # "-"
    <3>1. bb[i] = <<b[i]>> /\ dd[i] = <<d[i]>>
        BY <1>4, <2>2
    <3>2. 1 \in 1..Len(bb[i]) /\ bb[i][1] = b[i] /\ dd[i][1] = d[i]
        BY <3>1
    <3>3. PICK p : StandsAt(p, i, 1, s, s, bb, dd)
        BY <1>2, <1>7, <3>2
    <3> QED
        BY <3>2, <3>3 DEF StandsAt
  <2> QED
      BY <2>1, <2>2
<1> QED
    BY <1>8, SeqEqual

-----------------------------------------------------------------------------
LEMMA CodesTold ==
    ASSUME NEW c \in Secrets, NEW d \in Secrets, NEW habit \in Habits,
           BeginsLikePrefix(c) => habit.prefix # <<>>
    PROVE  EqualPairing(NormalizePairing(Spelling(c, habit)), d) <=> d = c
<1>1. /\ c = PairingPrefix \o Body(c) /\ Body(c) \in Seq(Group)
      /\ d = PairingPrefix \o Body(d) /\ Body(d) \in Seq(Group)
      /\ Len(Body(d)) = Len(Body(c))
      /\ \A i \in DOMAIN Body(c) : Body(d)[i] = "-" <=> Body(c)[i] = "-"
    BY ApprovalFormsAssumption DEF Group
<1>2. NormalizePairing(Spelling(c, habit)) = Strip(Body(c))
    BY <1>1, NormalizeSpelling
<1>3. NormalizePairing(d) = Strip(Body(d))
    BY <1>1, NormalizeStored
<1>4. Strip(Body(c)) = Strip(Body(d)) => Body(c) = Body(d)
    BY <1>1, StripTells
<1> QED
    BY <1>1, <1>2, <1>3, <1>4 DEF EqualPairing

LEMMA CodesAreTold == FormsInv => CodesIdentifyTheirOwners
<1> SUFFICES ASSUME FormsInv, NEW c \in made, NEW habit \in Habits,
                    BeginsLikePrefix(c) => habit.prefix # <<>>
             PROVE  LET x == VerifyPrincipal(Spelling(c, habit))
                    IN  \/ x # None /\ CurrentCode(x) = c
                        \/ x = None /\ \A y \in Names \cup {Anonymous} : CurrentCode(y) # c
    BY DEF CodesIdentifyTheirOwners
<1>1. c \in Secrets /\ None \notin Secrets
    BY FirstUseAssumption DEF FormsInv, FirstUseTypeOK
<1>2. ASSUME NEW y \in Names \cup {Anonymous} PROVE CurrentCode(y) \in Secrets \cup {None}
  <2>1. slot[Shared] \in Secrets \cup {None}
      BY FirstUseAssumption, ApprovalFormsAssumption DEF FormsInv, FirstUseTypeOK
  <2>2. y # Anonymous /\ record[y] # None => record[y].code \in Secrets
      BY DEF FormsInv, FirstUseTypeOK, RecordsFit
  <2> QED
      BY <2>1, <2>2 DEF CurrentCode
<1> DEFINE got == NormalizePairing(Spelling(c, habit))
           matched == {y \in Names \cup {Anonymous} :
                         CurrentCode(y) # None /\ EqualPairing(got, CurrentCode(y))}
           x == VerifyPrincipal(Spelling(c, habit))
<1>3. \A y \in Names \cup {Anonymous} : y \in matched <=> CurrentCode(y) = c
    BY <1>1, <1>2, CodesTold
<1>4. x = IF Anonymous \in matched THEN Anonymous
          ELSE IF matched = {} THEN None ELSE CHOOSE y \in matched : TRUE
    BY DEF VerifyPrincipal
<1>5. matched \subseteq Names \cup {Anonymous} /\ None \notin Names \cup {Anonymous}
    BY ApprovalFormsAssumption
<1> HIDE DEF matched, x
<1>6. \/ x # None /\ CurrentCode(x) = c
      \/ x = None /\ \A y \in Names \cup {Anonymous} : CurrentCode(y) # c
    BY <1>3, <1>4, <1>5
<1> QED
    BY <1>6 DEF x

(***************************************************************************)
(* However it is spelled, a code identifies who it belongs to now, and     *)
(* nobody once it was rotated, removed or reset (src/pairing.go:54-55,     *)
(* 86-89): for all codes of one layout, and every way of typing them that  *)
(* Habits has but one, digits that begin like the prefix without it.       *)
(***************************************************************************)
THEOREM CodesIdentify == Spec => []CodesIdentifyTheirOwners
BY FormsFit, CodesAreTold, PTL
=============================================================================
