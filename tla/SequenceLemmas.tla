--------------------------- MODULE SequenceLemmas ---------------------------
(***************************************************************************)
(* Induction, and what FlattenSeq returns.  The induction theorems of the  *)
(* library take an operator for the induction's hypothesis; here it is a   *)
(* set, so that any prover can apply them.  They follow from the order of  *)
(* the natural numbers being well-founded.                                 *)
(***************************************************************************)
EXTENDS Naturals, Sequences, SequencesExt, WellFoundedInduction,
        SequenceTheorems, TLAPS

Less == {p \in Nat \X Nat : p[1] < p[2]}

LEMMA LessIsWellFounded == IsWellFoundedOn(Less, Nat)
<1>1. Less = OpToRel(<, Nat)
    BY DEF Less, OpToRel
<1> QED
    BY <1>1, NatLessThanWellFounded, Zenon

(* A set of numbers has a least one. *)
LEMMA LeastExists ==
    ASSUME NEW T \in SUBSET Nat, T # {}
    PROVE  \E x \in T : \A y \in T : x <= y
<1>1. PICK x \in T : \A y \in T : <<y, x>> \notin Less
    BY LessIsWellFounded, WFMin
<1>2. ASSUME NEW y \in T PROVE x <= y
  <2>1. x \in Nat /\ y \in Nat
      OBVIOUS
  <2>2. <<y, x>> \notin Less
      BY <1>1
  <2>3. ~(y < x)
      BY <2>1, <2>2 DEF Less
  <2> QED
      BY <2>1, <2>3
<1> QED
    BY <1>2

(* The least and the greatest of a set of numbers, as Min and Max have it. *)
LEMMA MinIs ==
    ASSUME NEW T \in SUBSET Nat, NEW m \in T, \A y \in T : m <= y
    PROVE  Min(T) = m
<1>1. \A x \in T : (\A y \in T : x <= y) => x = m
    OBVIOUS
<1> QED
    BY <1>1 DEF Min

LEMMA MinMember ==
    ASSUME NEW T \in SUBSET Nat, T # {}
    PROVE  Min(T) \in T
BY LeastExists DEF Min

LEMMA MaxMember ==
    ASSUME NEW n \in Nat, NEW T \in SUBSET (0..n), T # {}
    PROVE  Max(T) \in T
<1> DEFINE U == {u \in 0..n : n - u \in T}
<1>1. U \in SUBSET Nat
    OBVIOUS
<1>2. PICK x \in 0..n : x \in T
    OBVIOUS
<1>3. n - x \in U
  <2>1. n - x \in 0..n /\ n - (n - x) = x
      OBVIOUS
  <2> QED
      BY <1>2, <2>1
<1>4. PICK u \in U : \A y \in U : u <= y
  <2> HIDE DEF U
  <2> QED
      BY <1>1, <1>3, LeastExists
<1>5. n - u \in T
    OBVIOUS
<1>6. ASSUME NEW y \in 0..n, y \in T PROVE n - u >= y
  <2>1. n - y \in 0..n /\ n - (n - y) = y
      OBVIOUS
  <2>2. n - y \in U
      BY <1>6, <2>1
  <2>3. u \in 0..n
      OBVIOUS
  <2>4. u <= n - y
      BY <1>4, <2>2
  <2> HIDE DEF U
  <2> QED
      BY <2>3, <2>4
<1> QED
    BY <1>5, <1>6 DEF Max

(* Induction up to n: P is the set of numbers for which the hypothesis     *)
(* holds.                                                                  *)
LEMMA InductionUpTo ==
    ASSUME NEW n \in Nat, NEW P, 0 \in P,
           \A i \in 1..n : i - 1 \in P => i \in P
    PROVE  \A i \in 0..n : i \in P
<1> DEFINE T == {i \in 0..n : i \notin P}
<1> SUFFICES ASSUME T # {} PROVE FALSE
    OBVIOUS
<1>1. T \in SUBSET Nat
    OBVIOUS
<1> HIDE DEF T
<1>2. PICK x \in T : \A y \in T : x <= y
    BY <1>1, LeastExists
<1> USE DEF T
<1>3. x \in 1..n /\ x - 1 \in 0..n /\ x - 1 \notin T
    BY <1>2
<1>4. x - 1 \in P
    BY <1>3
<1> QED
    BY <1>3, <1>4

LEMMA Singleton ==
    ASSUME NEW S, NEW x \in S
    PROVE  <<x>> \in Seq(S) /\ Len(<<x>>) = 1 /\ <<x>>[1] = x
OBVIOUS

(* Where the elements of two sequences stand in their concatenation. *)
LEMMA Joined ==
    ASSUME NEW S, NEW a \in Seq(S), NEW b \in Seq(S)
    PROVE  /\ a \o b \in Seq(S)
           /\ Len(a) \in Nat /\ Len(b) \in Nat
           /\ Len(a \o b) = Len(a) + Len(b)
           /\ \A p \in 1..Len(a) : (a \o b)[p] = a[p]
           /\ \A j \in 1..Len(b) : (a \o b)[Len(a) + j] = b[j]
<1>1. Len(a) \in Nat /\ Len(b) \in Nat
    BY LenProperties
<1>2. PICK k \in Nat, l \in Nat : k = Len(a) /\ l = Len(b)
    BY <1>1
<1>3. /\ a \o b \in Seq(S)
      /\ Len(a \o b) = k + l
      /\ \A i \in 1..(k + l) : (a \o b)[i] = IF i <= k THEN a[i] ELSE b[i - k]
    BY <1>2, ConcatProperties
<1>4. \A p \in 1..k : p \in 1..(k + l) /\ p <= k
    OBVIOUS
<1>5. \A j \in 1..l : k + j \in 1..(k + l) /\ ~(k + j <= k) /\ (k + j) - k = j
    OBVIOUS
<1> QED
    BY <1>1, <1>2, <1>3, <1>4, <1>5

(* What a concatenation is, by its elements. *)
LEMMA ConcatIs ==
    ASSUME NEW T, NEW v \in Seq(T), NEW w \in Seq(T), NEW u \in Seq(T),
           Len(u) = Len(v) + Len(w),
           \A i \in 1..Len(v) : u[i] = v[i],
           \A j \in 1..Len(w) : u[Len(v) + j] = w[j]
    PROVE  u = v \o w
<1> DEFINE vw == v \o w
<1>1. PICK n \in Nat, k \in Nat : n = Len(v) /\ k = Len(w)
    BY LenProperties
<1>2. /\ vw \in Seq(T) /\ Len(vw) = n + k
      /\ \A i \in 1..n : vw[i] = v[i]
      /\ \A j \in 1..k : vw[n + j] = w[j]
    BY <1>1, Joined
<1> HIDE DEF vw
<1>3. ASSUME NEW i \in 1..n + k PROVE u[i] = vw[i]
  <2>1. CASE i <= n
    <3>1. i \in 1..n
        BY <2>1
    <3> QED
        BY <1>1, <1>2, <3>1
  <2>2. CASE ~(i <= n)
    <3>1. PICK j \in 1..k : i = n + j
      <4>1. i - n \in 1..k /\ i = n + (i - n)
          BY <2>2
      <4> QED
          BY <4>1
    <3> QED
        BY <1>1, <1>2, <3>1
  <2> QED
      BY <2>1, <2>2
<1>4. Len(u) = n + k
    BY <1>1
<1>5. u = vw
    BY <1>2, <1>3, <1>4, SeqEqual
<1> QED
    BY <1>5 DEF vw

(* Concatenation by a name that the provers do not look behind.            *)
Cat(a, b) == a \o b

LEMMA CatType ==
    ASSUME NEW S, NEW a \in Seq(S), NEW b \in Seq(S)
    PROVE  Cat(a, b) \in Seq(S)
BY ConcatProperties DEF Cat

LEMMA CatAssociative ==
    ASSUME NEW S, NEW a \in Seq(S), NEW b \in Seq(S), NEW c \in Seq(S)
    PROVE  Cat(Cat(a, b), c) = Cat(a, Cat(b, c))
BY ConcatAssociative DEF Cat

LEMMA CatCancels ==
    ASSUME NEW S, NEW a \in Seq(S), NEW b \in Seq(S), NEW c \in Seq(S),
           Cat(a, b) = Cat(a, c)
    PROVE  b = c
BY ConcatSimplifications, Zenon DEF Cat

(* Recursion up to n: a function that goes from base by the steps. *)
Recursion(f, n, T, base, step) ==
    /\ f \in [0..n -> T]
    /\ f[0] = base
    /\ \A i \in 1..n : f[i] = step[<<f[i - 1], i>>]

LEMMA RecursionExists ==
    ASSUME NEW n \in Nat, NEW T, NEW base \in T, NEW step \in [T \X (1..n) -> T]
    PROVE  \E f : Recursion(f, n, T, base, step)
<1> DEFINE P == {k \in 0..n : \E f : Recursion(f, k, T, base, step)}
<1>1. 0 \in P
  <2>1. Recursion([i \in 0..0 |-> base], 0, T, base, step)
      BY DEF Recursion
  <2> QED
      BY <2>1
<1>2. ASSUME NEW k \in 1..n, k - 1 \in P
      PROVE  k \in P
  <2>1. PICK f : Recursion(f, k - 1, T, base, step)
      BY <1>2
  <2> DEFINE g == [i \in 0..k |-> IF i = k THEN step[<<f[k - 1], k>>] ELSE f[i]]
  <2>2. k \in Nat \ {0} /\ k - 1 \in 0..(k - 1)
      OBVIOUS
  <2>3. f \in [0..(k - 1) -> T] /\ f[0] = base
      BY <2>1 DEF Recursion
  <2>4. step[<<f[k - 1], k>>] \in T
      BY <2>2, <2>3
  <2>5. g \in [0..k -> T]
      BY <2>2, <2>3, <2>4
  <2>6. g[0] = base
      BY <2>2, <2>3
  <2>7. ASSUME NEW i \in 1..k PROVE g[i] = step[<<g[i - 1], i>>]
    <3>1. i - 1 \in 0..k /\ i - 1 # k
        OBVIOUS
    <3>2. g[i - 1] = f[i - 1]
        BY <3>1
    <3>3. CASE i = k
      <4>1. k \in 0..k
          BY <2>2
      <4>2. g[k] = step[<<f[k - 1], k>>]
          BY <4>1
      <4> QED
          BY <3>2, <3>3, <4>2
    <3>4. CASE i # k
      <4>1. i \in 1..(k - 1) /\ i \in 0..k
          BY <2>2, <3>4
      <4>2. f[i] = step[<<f[i - 1], i>>]
          BY <2>1, <4>1 DEF Recursion
      <4> QED
          BY <3>2, <3>4, <4>1, <4>2
    <3> QED
        BY <3>3, <3>4
  <2>8. Recursion(g, k, T, base, step)
      BY <2>5, <2>6, <2>7 DEF Recursion
  <2> QED
      BY <2>8
<1>3. \A i \in 0..n : i \in P
  <2> HIDE DEF P
  <2> QED
      BY <1>1, <1>2, InductionUpTo
<1> QED
    BY <1>3

(* Whatever goes the same steps is that function. *)
LEMMA RecursionUnique ==
    ASSUME NEW n \in Nat, NEW T, NEW base, NEW step,
           NEW f, Recursion(f, n, T, base, step),
           NEW g, g[0] = base,
           \A i \in 1..n : g[i - 1] \in T => g[i] = step[<<g[i - 1], i>>]
    PROVE  \A i \in 0..n : g[i] = f[i]
<1> DEFINE P == {i \in 0..n : g[i] = f[i]}
<1>1. 0 \in P
    BY DEF Recursion
<1>2. ASSUME NEW i \in 1..n, i - 1 \in P PROVE i \in P
  <2>1. i - 1 \in 0..n
      OBVIOUS
  <2>2. f[i - 1] \in T /\ f[i] = step[<<f[i - 1], i>>]
      BY <2>1 DEF Recursion
  <2> QED
      BY <1>2, <2>2
<1>3. \A i \in 0..n : i \in P
  <2> HIDE DEF P
  <2> QED
      BY <1>1, <1>2, InductionUpTo
<1> QED
    BY <1>3

-----------------------------------------------------------------------------
(* The sequences that FlattenSeq joins one after the other. *)
Runs(runs, S, ss) ==
    /\ runs \in [0..Len(ss) -> Seq(S)]
    /\ runs[0] = <<>>
    /\ \A i \in 1..Len(ss) : runs[i] = runs[i - 1] \o ss[i]

Joining(S, ss) == [p \in Seq(S) \X (1..Len(ss)) |-> p[1] \o ss[p[2]]]

LEMMA RunsExist ==
    ASSUME NEW S, NEW ss \in Seq(Seq(S))
    PROVE  \E runs : Runs(runs, S, ss)
<1>1. Len(ss) \in Nat /\ <<>> \in Seq(S)
    BY LenProperties, EmptySeq
<1>2. Joining(S, ss) \in [Seq(S) \X (1..Len(ss)) -> Seq(S)]
  <2>1. ASSUME NEW p \in Seq(S) \X (1..Len(ss))
        PROVE  p[1] \o ss[p[2]] \in Seq(S)
    <3>1. ss[p[2]] \in Seq(S)
        BY ElementOfSeq
    <3> QED
        BY <3>1, ConcatProperties
  <2> QED
      BY <2>1 DEF Joining
<1>3. PICK runs : Recursion(runs, Len(ss), Seq(S), <<>>, Joining(S, ss))
    BY <1>1, <1>2, RecursionExists
<1>4. ASSUME NEW i \in 1..Len(ss) PROVE runs[i] = runs[i - 1] \o ss[i]
  <2>1. i - 1 \in 0..Len(ss)
      BY <1>1
  <2>2. runs[i - 1] \in Seq(S) /\ runs[i] = Joining(S, ss)[<<runs[i - 1], i>>]
      BY <1>3, <2>1 DEF Recursion
  <2> QED
      BY <2>2 DEF Joining
<1> QED
    BY <1>3, <1>4 DEF Recursion, Runs

(* FlattenSeq satisfies its equation: it returns the last of the runs.     *)
LEMMA FlattenIsLastRun ==
    ASSUME NEW S, NEW ss \in Seq(Seq(S)), NEW runs, Runs(runs, S, ss)
    PROVE  FlattenSeq(ss) = runs[Len(ss)]
<1>1. Len(ss) \in Nat
    BY LenProperties
<1>2. CASE Len(ss) = 0
  <2>1. ss = <<>>
      BY <1>2, EmptySeq, LenProperties
  <2> QED
      BY <1>2, <2>1 DEF FlattenSeq, Runs
<1>3. CASE Len(ss) # 0
  <2> DEFINE Right(f) ==
               f = [i \in 1..Len(ss) |-> IF i = 1 THEN ss[i] ELSE f[i - 1] \o ss[i]]
             g == CHOOSE f : Right(f)
             h == [i \in 1..Len(ss) |-> runs[i]]
  <2>1. runs[1] = ss[1]
    <3>1. ss[1] \in Seq(S) /\ 1 \in 1..Len(ss) /\ 1 - 1 = 0
        BY <1>1, <1>3, ElementOfSeq
    <3>2. <<>> \o ss[1] = ss[1]
        BY <3>1, ConcatEmptySeq
    <3> QED
        BY <3>1, <3>2 DEF Runs
  <2>2. ASSUME NEW i \in 1..Len(ss), i # 1
        PROVE  i - 1 \in 1..Len(ss) /\ runs[i] = runs[i - 1] \o ss[i]
    <3>1. i - 1 \in 1..Len(ss)
        BY <1>1, <2>2
    <3>2. runs[i] = runs[i - 1] \o ss[i]
        BY DEF Runs
    <3> QED
        BY <3>1, <3>2
  <2>3. Right(h)
      BY <2>1, <2>2
  <2>4. Right(g)
    <3> HIDE DEF Right
    <3> QED
        BY <2>3
  <2>5. FlattenSeq(ss) = g[Len(ss)]
      BY <1>3 DEF FlattenSeq
  <2> DEFINE P == {0} \cup {i \in 1..Len(ss) : g[i] = runs[i]}
  <2>6. ASSUME NEW i \in 1..Len(ss), i - 1 \in P
        PROVE  i \in P
    <3> HIDE DEF g
    <3>1. g[i] = IF i = 1 THEN ss[i] ELSE g[i - 1] \o ss[i]
        BY <2>4
    <3>2. CASE i = 1
        BY <2>1, <3>1, <3>2
    <3>3. CASE i # 1
      <4>1. i - 1 # 0
          BY <1>1, <3>3
      <4>2. g[i - 1] = runs[i - 1]
          BY <2>6, <4>1
      <4> QED
          BY <2>2, <3>1, <3>3, <4>2
    <3> QED
        BY <3>2, <3>3
  <2>7. \A i \in 0..Len(ss) : i \in P
    <3> HIDE DEF P
    <3>1. 0 \in P
        BY DEF P
    <3> QED
        BY <1>1, <2>6, <3>1, InductionUpTo
  <2>8. Len(ss) \in 0..Len(ss)
      BY <1>1
  <2> QED
      BY <1>3, <2>5, <2>7, <2>8
<1> QED
    BY <1>2, <1>3

LEMMA FlattenDef ==
    ASSUME NEW S, NEW ss \in Seq(Seq(S))
    PROVE  \E runs : Runs(runs, S, ss) /\ FlattenSeq(ss) = runs[Len(ss)]
BY RunsExist, FlattenIsLastRun

LEMMA FlattenType ==
    ASSUME NEW S, NEW ss \in Seq(Seq(S))
    PROVE  FlattenSeq(ss) \in Seq(S)
<1>1. Len(ss) \in 0..Len(ss)
    BY LenProperties
<1>2. PICK runs : Runs(runs, S, ss) /\ FlattenSeq(ss) = runs[Len(ss)]
    BY FlattenDef
<1> QED
    BY <1>1, <1>2 DEF Runs

(* Element j of sequence i stands at position p, in s as in t. *)
StandsAt(p, i, j, s, t, ss, tt) ==
    /\ i \in 1..Len(ss) /\ j \in 1..Len(ss[i]) /\ p \in 1..Len(s)
    /\ s[p] = ss[i][j] /\ t[p] = tt[i][j]

(* Where an element goes depends on the lengths alone: two sequences of    *)
(* the same lengths are flattened alike.                                   *)
LEMMA FlattenTogether ==
    ASSUME NEW S, NEW ss \in Seq(Seq(S)), NEW tt \in Seq(Seq(S)),
           Len(ss) = Len(tt),
           \A i \in 1..Len(ss) : Len(ss[i]) = Len(tt[i]),
           NEW s, s = FlattenSeq(ss), NEW t, t = FlattenSeq(tt)
    PROVE  /\ Len(s) = Len(t)
           /\ \A p \in 1..Len(s) : \E i, j : StandsAt(p, i, j, s, t, ss, tt)
           /\ \A i \in 1..Len(ss) : \A j \in 1..Len(ss[i]) :
                 \E p : StandsAt(p, i, j, s, t, ss, tt)
<1>1. PICK rs : Runs(rs, S, ss) /\ s = rs[Len(ss)]
    BY FlattenDef
<1>2. PICK rt : Runs(rt, S, tt) /\ t = rt[Len(tt)]
    BY FlattenDef
<1>3. Len(ss) \in Nat
    BY LenProperties
<1> DEFINE Each(n) == \A p \in 1..Len(rs[n]) :
                          \E i \in 1..n : \E j : StandsAt(p, i, j, rs[n], rt[n], ss, tt)
           All(n) == \A i \in 1..n : \A j \in 1..Len(ss[i]) :
                          \E p : StandsAt(p, i, j, rs[n], rt[n], ss, tt)
           P == {n \in 0..Len(ss) : Len(rs[n]) = Len(rt[n]) /\ Each(n) /\ All(n)}
<1>4. 0 \in P
  <2>1. rs[0] = <<>> /\ rt[0] = <<>> /\ Len(<<>>) = 0
      BY <1>1, <1>2, EmptySeq DEF Runs
  <2>2. Len(rs[0]) = Len(rt[0]) /\ Len(rs[0]) = 0
      BY <2>1
  <2>3. Each(0) /\ All(0)
      BY <2>2
  <2>4. 0 \in 0..Len(ss)
      BY <1>3
  <2> HIDE DEF Each, All
  <2> QED
      BY <2>2, <2>3, <2>4
<1>5. ASSUME NEW n \in 1..Len(ss), n - 1 \in P
      PROVE  n \in P
  <2>1. n - 1 \in 0..Len(ss) /\ n \in Nat /\ n - 1 \in Nat
      BY <1>3
  <2>2. /\ rs[n - 1] \in Seq(S) /\ rt[n - 1] \in Seq(S)
        /\ rs[n] = rs[n - 1] \o ss[n] /\ rt[n] = rt[n - 1] \o tt[n]
      BY <1>1, <1>2, <2>1 DEF Runs
  <2>3. ss[n] \in Seq(S) /\ tt[n] \in Seq(S) /\ Len(ss[n]) = Len(tt[n])
      BY ElementOfSeq
  <2>4. /\ Len(rs[n - 1]) = Len(rt[n - 1]) /\ Len(rs[n - 1]) \in Nat
        /\ Len(ss[n]) \in Nat
      BY <1>5, <2>2, <2>3, LenProperties
  <2>k. PICK k \in Nat, l \in Nat : k = Len(rs[n - 1]) /\ l = Len(ss[n])
      BY <2>4
  <2>5. /\ Len(rs[n]) = k + l /\ Len(rt[n]) = k + l
        /\ \A p \in 1..k : rs[n][p] = rs[n - 1][p] /\ rt[n][p] = rt[n - 1][p]
        /\ \A j \in 1..l : rs[n][k + j] = ss[n][j] /\ rt[n][k + j] = tt[n][j]
    <3>1. ASSUME NEW a \in Seq(S), NEW b \in Seq(S), k = Len(a), l = Len(b)
          PROVE  /\ Len(a \o b) = k + l
                 /\ \A p \in 1..k : (a \o b)[p] = a[p]
                 /\ \A j \in 1..l : (a \o b)[k + j] = b[j]
      <4>1. /\ Len(a \o b) = Len(a) + Len(b)
            /\ \A p \in 1..Len(a) : (a \o b)[p] = a[p]
            /\ \A j \in 1..Len(b) : (a \o b)[Len(a) + j] = b[j]
          BY Joined
      <4> QED
          BY <3>1, <4>1, Zenon
    <3>2. k = Len(rt[n - 1]) /\ l = Len(tt[n])
        BY <2>3, <2>4, <2>k
    <3>3. /\ Len(rs[n - 1] \o ss[n]) = k + l
          /\ \A p \in 1..k : (rs[n - 1] \o ss[n])[p] = rs[n - 1][p]
          /\ \A j \in 1..l : (rs[n - 1] \o ss[n])[k + j] = ss[n][j]
        BY <2>2, <2>3, <2>k, <3>1, Zenon
    <3>4. /\ Len(rt[n - 1] \o tt[n]) = k + l
          /\ \A p \in 1..k : (rt[n - 1] \o tt[n])[p] = rt[n - 1][p]
          /\ \A j \in 1..l : (rt[n - 1] \o tt[n])[k + j] = tt[n][j]
        BY <2>2, <2>3, <3>1, <3>2, Zenon
    <3> QED
        BY <2>2, <3>3, <3>4, Zenon
  <2>6. ASSUME NEW p, NEW i, NEW j, StandsAt(p, i, j, rs[n - 1], rt[n - 1], ss, tt)
        PROVE  StandsAt(p, i, j, rs[n], rt[n], ss, tt)
    <3>1. p \in 1..k
        BY <2>k, <2>6 DEF StandsAt
    <3>2. p \in 1..(k + l)
        BY <3>1
    <3> QED
        BY <2>5, <2>6, <3>1, <3>2 DEF StandsAt
  <2>7. ASSUME NEW j \in 1..l
        PROVE  StandsAt(k + j, n, j, rs[n], rt[n], ss, tt)
    <3>1. k + j \in 1..(k + l)
        OBVIOUS
    <3> QED
        BY <2>k, <2>5, <3>1 DEF StandsAt
  <2>8. ASSUME NEW p \in 1..Len(rs[n])
        PROVE  \E i \in 1..n : \E j : StandsAt(p, i, j, rs[n], rt[n], ss, tt)
    <3>1. CASE p <= k
      <4>1. p \in 1..k
          BY <2>5, <3>1
      <4>2. PICK i \in 1..(n - 1) : \E j : StandsAt(p, i, j, rs[n - 1], rt[n - 1], ss, tt)
          BY <1>5, <2>k, <4>1
      <4>3. i \in 1..n
          BY <2>1
      <4> QED
          BY <2>6, <4>2, <4>3
    <3>2. CASE ~(p <= k)
      <4>1. p - k \in 1..l /\ k + (p - k) = p /\ n \in 1..n
          BY <2>1, <2>5, <3>2
      <4> QED
          BY <2>7, <4>1
    <3> QED
        BY <3>1, <3>2
  <2>9. ASSUME NEW i \in 1..n, NEW j \in 1..Len(ss[i])
        PROVE  \E p : StandsAt(p, i, j, rs[n], rt[n], ss, tt)
    <3>1. CASE i = n
        BY <2>k, <2>7, <3>1
    <3>2. CASE i # n
      <4>1. i \in 1..(n - 1)
          BY <2>1, <3>2
      <4>2. PICK p : StandsAt(p, i, j, rs[n - 1], rt[n - 1], ss, tt)
          BY <1>5, <4>1
      <4> QED
          BY <2>6, <4>2
    <3> QED
        BY <3>1, <3>2
  <2>10. n \in 0..Len(ss)
      BY <1>3
  <2> QED
      BY <2>5, <2>8, <2>9, <2>10
<1>6. \A n \in 0..Len(ss) : n \in P
  <2> HIDE DEF P
  <2> QED
      BY <1>3, <1>4, <1>5, InductionUpTo
<1>7. Len(ss) \in P
  <2>1. Len(ss) \in 0..Len(ss)
      BY <1>3
  <2> HIDE DEF P
  <2> QED
      BY <1>6, <2>1
<1> QED
    BY <1>1, <1>2, <1>7

(* What is flattened is what stands in one of the sequences. *)
LEMMA FlattenMembers ==
    ASSUME NEW S, NEW ss \in Seq(Seq(S))
    PROVE  ToSet(FlattenSeq(ss)) = UNION {ToSet(ss[i]) : i \in 1..Len(ss)}
<1> DEFINE s == FlattenSeq(ss)
<1>1. s \in Seq(S) /\ DOMAIN s = 1..Len(s)
    BY FlattenType, LenProperties
<1>2. \A i \in 1..Len(ss) : DOMAIN ss[i] = 1..Len(ss[i])
    BY ElementOfSeq, LenProperties
<1> HIDE DEF s
<1>3. /\ \A p \in 1..Len(s) : \E i, j : StandsAt(p, i, j, s, s, ss, ss)
      /\ \A i \in 1..Len(ss) : \A j \in 1..Len(ss[i]) :
            \E p : StandsAt(p, i, j, s, s, ss, ss)
    BY FlattenTogether DEF s
<1>4. ASSUME NEW x \in ToSet(s) PROVE x \in UNION {ToSet(ss[i]) : i \in 1..Len(ss)}
  <2>1. PICK p \in 1..Len(s) : x = s[p]
      BY <1>1 DEF ToSet
  <2>2. PICK i, j : StandsAt(p, i, j, s, s, ss, ss)
      BY <1>3
  <2>3. i \in 1..Len(ss) /\ j \in DOMAIN ss[i] /\ x = ss[i][j]
      BY <1>2, <2>1, <2>2 DEF StandsAt
  <2> QED
      BY <2>3 DEF ToSet
<1>5. ASSUME NEW i \in 1..Len(ss), NEW x \in ToSet(ss[i]) PROVE x \in ToSet(s)
  <2>1. PICK j \in 1..Len(ss[i]) : x = ss[i][j]
      BY <1>2 DEF ToSet
  <2>2. PICK p : StandsAt(p, i, j, s, s, ss, ss)
      BY <1>3
  <2> QED
      BY <1>1, <2>1, <2>2 DEF StandsAt, ToSet
<1> QED
    BY <1>4, <1>5 DEF s

-----------------------------------------------------------------------------
(* FlattenSeq, piece by piece. *)
LEMMA FlattenNone ==
    ASSUME NEW S, NEW ss \in Seq(Seq(S)), Len(ss) = 0
    PROVE  FlattenSeq(ss) = <<>>
<1>1. PICK runs : Runs(runs, S, ss) /\ FlattenSeq(ss) = runs[Len(ss)]
    BY FlattenDef
<1> QED
    BY <1>1 DEF Runs

LEMMA FlattenOne ==
    ASSUME NEW S, NEW ss \in Seq(Seq(S)), Len(ss) = 1
    PROVE  FlattenSeq(ss) = ss[1]
<1>1. PICK runs : Runs(runs, S, ss) /\ FlattenSeq(ss) = runs[Len(ss)]
    BY FlattenDef
<1>2. runs[1] = <<>> \o ss[1]
  <2>1. 1 \in 1..Len(ss) /\ 1 - 1 = 0
      OBVIOUS
  <2>2. runs[1] = runs[1 - 1] \o ss[1]
      BY <1>1, <2>1 DEF Runs
  <2>3. runs[0] = <<>>
      BY <1>1 DEF Runs
  <2> QED
      BY <2>1, <2>2, <2>3
<1>3. ss[1] \in Seq(S)
    BY ElementOfSeq
<1>4. <<>> \o ss[1] = ss[1]
    BY <1>3, ConcatEmptySeq
<1> QED
    BY <1>1, <1>2, <1>4

(* What is joined to one of the runs and to the next. *)
LEMMA CatNext ==
    ASSUME NEW S, NEW a \in Seq(S), NEW b \in Seq(S), NEW c \in Seq(S), NEW d, d = b \o c
    PROVE  a \o d = (a \o b) \o c
<1>1. Cat(Cat(a, b), c) = Cat(a, Cat(b, c))
    BY CatAssociative
<1> QED
    BY <1>1 DEF Cat

LEMMA FlattenConcat ==
    ASSUME NEW S, NEW ss \in Seq(Seq(S)), NEW tt \in Seq(Seq(S))
    PROVE  FlattenSeq(ss \o tt) = FlattenSeq(ss) \o FlattenSeq(tt)
<1>1. PICK rs : Runs(rs, S, ss) /\ FlattenSeq(ss) = rs[Len(ss)]
    BY FlattenDef
<1>2. PICK rt : Runs(rt, S, tt) /\ FlattenSeq(tt) = rt[Len(tt)]
    BY FlattenDef
<1>3. PICK n \in Nat, k \in Nat : n = Len(ss) /\ k = Len(tt)
    BY LenProperties
<1> DEFINE both == ss \o tt
           r == [i \in 0..n + k |-> IF i <= n THEN rs[i] ELSE rs[n] \o rt[i - n]]
<1>4. /\ both \in Seq(Seq(S)) /\ Len(both) = n + k
      /\ \A i \in 1..n : both[i] = ss[i]
      /\ \A j \in 1..k : both[n + j] = tt[j]
    BY <1>3, Joined
<1> HIDE DEF both
<1>5. /\ \A i \in 0..n : rs[i] \in Seq(S)
      /\ \A j \in 0..k : rt[j] \in Seq(S)
      /\ rs[0] = <<>> /\ rt[0] = <<>>
    BY <1>1, <1>2, <1>3 DEF Runs
<1>6. rs[n] \in Seq(S) /\ rs[n] \o rt[0] = rs[n]
  <2>1. rs[n] \in Seq(S)
      BY <1>5
  <2> QED
      BY <1>5, <2>1, ConcatEmptySeq
<1>7. ASSUME NEW j \in 0..k PROVE r[n + j] = rs[n] \o rt[j] /\ r[n + j] \in Seq(S)
  <2>1. PICK i \in 0..n + k : i = n + j
      OBVIOUS
  <2>2. (i <= n <=> j = 0) /\ i - n = j /\ (j = 0 => i = n)
      BY <2>1
  <2>3. rs[n] \o rt[j] \in Seq(S)
      BY <1>5, <1>6, ConcatProperties
  <2>4. r[i] = IF i <= n THEN rs[i] ELSE rs[n] \o rt[i - n]
      OBVIOUS
  <2> HIDE DEF r
  <2>5. CASE j = 0
      BY <1>6, <2>1, <2>2, <2>4, <2>5
  <2>6. CASE j # 0
    <3>1. r[i] = rs[n] \o rt[j]
        BY <2>2, <2>4, <2>6
    <3> QED
        BY <2>1, <2>3, <3>1
  <2> QED
      BY <2>5, <2>6
<1>8. \A i \in 0..n : r[i] = rs[i]
    OBVIOUS
<1>9. DOMAIN r = 0..n + k /\ r = [i \in 0..n + k |-> r[i]]
    OBVIOUS
<1> HIDE DEF r
<1>10. ASSUME NEW i \in 1..n + k PROVE r[i] = r[i - 1] \o both[i] /\ r[i] \in Seq(S)
  <2>1. CASE i <= n
    <3>1. i \in 1..n /\ i \in 0..n /\ i - 1 \in 0..n
        BY <2>1
    <3>2. rs[i] = rs[i - 1] \o ss[i]
        BY <1>1, <1>3, <3>1 DEF Runs
    <3> QED
        BY <1>4, <1>5, <1>8, <3>1, <3>2
  <2>2. CASE ~(i <= n)
    <3>1. PICK j \in 1..k : i = n + j
      <4>1. i - n \in 1..k /\ i = n + (i - n)
          BY <2>2
      <4> QED
          BY <4>1
    <3>2. j \in 0..k /\ j - 1 \in 0..k /\ i - 1 = n + (j - 1)
        BY <3>1
    <3>3. rt[j] = rt[j - 1] \o tt[j] /\ tt[j] \in Seq(S) /\ rt[j - 1] \in Seq(S)
        BY <1>2, <1>3, <1>5, <3>2, ElementOfSeq DEF Runs
    <3>4. rs[n] \o rt[j] = (rs[n] \o rt[j - 1]) \o tt[j]
      <4> DEFINE a == rs[n]
                 b == rt[j - 1]
                 c == tt[j]
                 d == rt[j]
      <4>1. a \in Seq(S) /\ b \in Seq(S) /\ c \in Seq(S) /\ d = b \o c
          BY <1>6, <3>3
      <4> HIDE DEF a, b, c, d
      <4>2. a \o d = (a \o b) \o c
          BY <4>1, CatNext
      <4> QED
          BY <4>2 DEF a, b, c, d
    <3>5. r[i] = rs[n] \o rt[j] /\ r[i] \in Seq(S)
        BY <1>7, <3>1, <3>2
    <3>6. r[i - 1] = rs[n] \o rt[j - 1]
        BY <1>7, <3>2
    <3> QED
        BY <1>4, <3>1, <3>4, <3>5, <3>6
  <2> QED
      BY <2>1, <2>2
<1>11. r[0] = <<>>
  <2>1. 0 \in 0..n
      OBVIOUS
  <2> QED
      BY <1>5, <1>8, <2>1
<1>12. Runs(r, S, both)
  <2>1. \A i \in 0..n + k : r[i] \in Seq(S)
    <3>1. \A i \in 0..n + k : i = 0 \/ i \in 1..n + k
        OBVIOUS
    <3>2. <<>> \in Seq(S)
        BY EmptySeq
    <3> QED
        BY <1>10, <1>11, <3>1, <3>2
  <2>2. r \in [0..n + k -> Seq(S)]
      BY <1>9, <2>1
  <2> QED
      BY <1>4, <1>10, <1>11, <2>2 DEF Runs
<1>13. FlattenSeq(both) = r[n + k]
    BY <1>4, <1>12, FlattenIsLastRun
<1>14. r[n + k] = rs[n] \o rt[k]
  <2>1. k \in 0..k
      OBVIOUS
  <2> QED
      BY <1>7, <2>1
<1> QED
    BY <1>1, <1>2, <1>3, <1>13, <1>14 DEF both

(* A function that goes through concatenation goes through FlattenSeq.     *)
LEMMA FlattenMap ==
    ASSUME NEW S, NEW ss \in Seq(Seq(S)), NEW h \in [Seq(S) -> Seq(S)],
           h[<<>>] = <<>>,
           \A a, b \in Seq(S) : h[a \o b] = h[a] \o h[b]
    PROVE  h[FlattenSeq(ss)] = FlattenSeq([i \in 1..Len(ss) |-> h[ss[i]]])
<1>1. PICK rs : Runs(rs, S, ss) /\ FlattenSeq(ss) = rs[Len(ss)]
    BY FlattenDef
<1>2. PICK n \in Nat : n = Len(ss)
    BY LenProperties
<1> DEFINE tt == [i \in 1..n |-> h[ss[i]]]
           r == [i \in 0..n |-> h[rs[i]]]
<1>3. \A i \in 1..n : ss[i] \in Seq(S)
    BY <1>2, ElementOfSeq
<1>4. tt \in [1..n -> Seq(S)]
    BY <1>3
<1>5. tt \in Seq(Seq(S)) /\ Len(tt) = n
  <2>1. DOMAIN tt = 1..n
      OBVIOUS
  <2> HIDE DEF tt
  <2>2. tt \in Seq(Seq(S))
      BY <1>4, SeqDef
  <2> QED
      BY <2>1, <2>2, LenProperties
<1>6. \A i \in 0..n : rs[i] \in Seq(S)
    BY <1>1, <1>2 DEF Runs
<1>7. Runs(r, S, tt)
  <2>1. r \in [0..n -> Seq(S)]
      BY <1>6
  <2>2. r[0] = <<>>
    <3>1. 0 \in 0..n /\ rs[0] = <<>>
        BY <1>1 DEF Runs
    <3> QED
        BY <3>1
  <2>3. ASSUME NEW i \in 1..n PROVE r[i] = r[i - 1] \o tt[i]
    <3>1. i \in 0..n /\ i - 1 \in 0..n
        OBVIOUS
    <3>2. rs[i] = rs[i - 1] \o ss[i]
        BY <1>1, <1>2 DEF Runs
    <3>3. h[rs[i]] = h[rs[i - 1]] \o h[ss[i]]
        BY <1>3, <1>6, <3>1, <3>2
    <3> QED
        BY <3>1, <3>3
  <2> HIDE DEF r, tt
  <2> QED
      BY <1>5, <2>1, <2>2, <2>3 DEF Runs
<1>8. FlattenSeq(tt) = r[n]
  <2> HIDE DEF r, tt
  <2> QED
      BY <1>5, <1>7, FlattenIsLastRun
<1>9. r[n] = h[rs[n]]
    OBVIOUS
<1> QED
    BY <1>1, <1>2, <1>8, <1>9

-----------------------------------------------------------------------------
(* Rows of at most one element, and none of them twice. *)
Single(row) == Len(row) = 1

Singles(ss) ==
    /\ \A i \in 1..Len(ss) : ss[i] = <<>> \/ Single(ss[i])
    /\ \A i, j \in 1..Len(ss) : Single(ss[i]) /\ Single(ss[j]) /\ ss[i][1] = ss[j][1] => i = j

(* s lists the elements of the rows ss, each once. *)
ListsOnce(s, ss) ==
    /\ \A p \in 1..Len(s) : \E i \in 1..Len(ss) : Single(ss[i]) /\ s[p] = ss[i][1]
    /\ \A i \in 1..Len(ss) : Single(ss[i]) => \E p \in 1..Len(s) : s[p] = ss[i][1]
    /\ \A p, q \in 1..Len(s) : s[p] = s[q] => p = q

LEMMA FlattenSingles ==
    ASSUME NEW S, NEW ss \in Seq(Seq(S)), Singles(ss)
    PROVE  FlattenSeq(ss) \in Seq(S) /\ ListsOnce(FlattenSeq(ss), ss)
<1> PICK s : s = FlattenSeq(ss)
    OBVIOUS
<1> USE DEF Singles, ListsOnce
<1>1. PICK runs : Runs(runs, S, ss) /\ s = runs[Len(ss)]
    BY FlattenDef
<1>2. PICK top \in Nat : top = Len(ss)
    BY LenProperties
<1> DEFINE From(n) == \A p \in 1..Len(runs[n]) :
                          \E i \in 1..n : Single(ss[i]) /\ runs[n][p] = ss[i][1]
           All(n) == \A i \in 1..n : Single(ss[i]) =>
                          \E p \in 1..Len(runs[n]) : runs[n][p] = ss[i][1]
           Once(n) == \A p, q \in 1..Len(runs[n]) : runs[n][p] = runs[n][q] => p = q
           P == {n \in 0..top : From(n) /\ All(n) /\ Once(n)}
<1>3. 0 \in P
  <2>1. Len(runs[0]) = 0 /\ 0 \in 0..top
      BY <1>1, EmptySeq DEF Runs
  <2> QED
      BY <2>1
<1>4. ASSUME NEW n \in 1..top, n - 1 \in P PROVE n \in P
  <2>1. n - 1 \in 0..top /\ n \in 0..top
      OBVIOUS
  <2>2. PICK old, new, row : old = runs[n - 1] /\ new = runs[n] /\ row = ss[n]
      OBVIOUS
  <2>3. old \in Seq(S) /\ new = old \o row /\ row \in Seq(S)
      BY <1>1, <1>2, <2>1, <2>2, ElementOfSeq DEF Runs
  <2>4. PICK k \in Nat : k = Len(old)
      BY <2>3, LenProperties
  <2>5. /\ \A p \in 1..k : \E i \in 1..n - 1 : Single(ss[i]) /\ old[p] = ss[i][1]
        /\ \A i \in 1..n - 1 : Single(ss[i]) => \E p \in 1..k : old[p] = ss[i][1]
        /\ \A p, q \in 1..k : old[p] = old[q] => p = q
      BY <1>4, <2>2, <2>4
  <2>6. \A i \in 1..n - 1 : i \in 1..n /\ i # n /\ i \in 1..Len(ss)
      BY <1>2
  <2>7. CASE row = <<>>
    <3>1. new = old
        BY <2>3, <2>7, ConcatEmptySeq
    <3>2. ~Single(ss[n])
        BY <2>2, <2>7, EmptySeq DEF Single
    <3>3. \A i \in 1..n : Single(ss[i]) => i \in 1..n - 1
        BY <3>2
    <3>4. From(n) /\ All(n) /\ Once(n)
        BY <2>2, <2>4, <2>5, <2>6, <3>1, <3>3
    <3> QED
        BY <2>1, <3>4
  <2>8. CASE Single(row)
    <3>1. /\ Len(new) = k + 1 /\ new[k + 1] = row[1]
          /\ \A p \in 1..k : new[p] = old[p]
      <4>1. /\ Len(new) = Len(old) + Len(row)
            /\ \A p \in 1..Len(old) : new[p] = old[p]
            /\ \A j \in 1..Len(row) : new[Len(old) + j] = row[j]
          BY <2>3, Joined
      <4>2. Len(row) = 1
          BY <2>8 DEF Single
      <4> QED
          BY <2>4, <4>1, <4>2
    <3>2. \A p \in 1..k + 1 : p \in 1..k \/ p = k + 1
        OBVIOUS
    <3>3. \A p \in 1..k : p \in 1..k + 1 /\ p # k + 1
        OBVIOUS
    <3>4. From(n)
      <4>1. ASSUME NEW p \in 1..k + 1
            PROVE  \E i \in 1..n : Single(ss[i]) /\ new[p] = ss[i][1]
        <5>1. CASE p = k + 1
            BY <2>2, <2>8, <3>1, <5>1
        <5>2. CASE p \in 1..k
          <6>1. PICK i \in 1..n - 1 : Single(ss[i]) /\ old[p] = ss[i][1]
              BY <2>5, <5>2
          <6>2. i \in 1..n /\ new[p] = ss[i][1]
              BY <2>6, <3>1, <5>2, <6>1
          <6> QED
              BY <6>1, <6>2
        <5> QED
            BY <3>2, <5>1, <5>2
      <4> QED
          BY <2>2, <3>1, <4>1
    <3>5. All(n)
      <4>1. ASSUME NEW i \in 1..n, Single(ss[i])
            PROVE  \E p \in 1..k + 1 : new[p] = ss[i][1]
        <5>1. CASE i = n
          <6>1. k + 1 \in 1..k + 1
              OBVIOUS
          <6> QED
              BY <2>2, <3>1, <5>1, <6>1
        <5>2. CASE i # n
          <6>1. i \in 1..n - 1
              BY <5>2
          <6> QED
              BY <2>5, <3>1, <3>3, <4>1, <6>1
        <5> QED
            BY <5>1, <5>2
      <4> QED
          BY <2>2, <3>1, <4>1
    <3>6. Once(n)
      <4>1. \A p \in 1..k : new[p] # new[k + 1]
        <5> SUFFICES ASSUME NEW p \in 1..k, new[p] = new[k + 1] PROVE FALSE
            OBVIOUS
        <5>1. PICK i \in 1..n - 1 : Single(ss[i]) /\ old[p] = ss[i][1]
            BY <2>5
        <5>2. ss[i][1] = ss[n][1] /\ Single(ss[n])
            BY <2>2, <2>8, <3>1, <5>1
        <5>3. i \in 1..Len(ss) /\ n \in 1..Len(ss) /\ i # n
            BY <1>2, <2>6
        <5> QED
            BY <5>1, <5>2, <5>3
      <4>2. \A p, q \in 1..k + 1 : new[p] = new[q] => p = q
          BY <2>5, <3>1, <3>2, <4>1
      <4> QED
          BY <2>2, <3>1, <4>2
    <3> QED
        BY <2>1, <3>4, <3>5, <3>6
  <2> QED
      BY <1>2, <2>2, <2>7, <2>8
<1>5. \A n \in 0..top : n \in P
  <2> HIDE DEF P
  <2> QED
      BY <1>3, <1>4, InductionUpTo
<1>6. top \in P
  <2>1. top \in 0..top
      OBVIOUS
  <2> QED
      BY <1>5, <2>1
<1>7. From(top) /\ All(top) /\ Once(top)
    BY <1>6
<1>8. s = runs[top] /\ s \in Seq(S)
    BY <1>1, <1>2, FlattenType
<1> QED
    BY <1>2, <1>7, <1>8

(* The greatest element is known when it is seen. *)
LEMMA MaxIs ==
    ASSUME NEW n \in Nat, NEW T \in SUBSET (0..n), NEW m \in T, \A y \in T : m >= y
    PROVE  Max(T) = m
<1>1. \A x \in T : (\A y \in T : x >= y) => x = m
    OBVIOUS
<1> QED
    BY <1>1 DEF Max

(* What follows a prefix. *)
LEMMA PrefixCut ==
    ASSUME NEW S, NEW p \in Seq(S), NEW u \in Seq(S), IsPrefix(p, u)
    PROVE  /\ SubSeq(u, Len(p) + 1, Len(u)) \in Seq(S)
           /\ u = p \o SubSeq(u, Len(p) + 1, Len(u))
<1>1. PICK n \in Nat, k \in Nat : n = Len(p) /\ k = Len(u)
    BY LenProperties
<1>2. n <= k /\ SubSeq(p, 1, n) = SubSeq(u, 1, n)
    BY <1>1 DEF IsPrefix
<1>3. (\A i \in 1..n : p[i] \in S) /\ (\A i \in 1..k : u[i] \in S)
    BY <1>1, ElementOfSeq
<1>4. \A i \in 1..n : u[i] = p[i]
  <2>1. \A i \in 1..n : u[i] \in S
    <3>1. \A i \in 1..n : i \in 1..k
        BY <1>2
    <3> QED
        BY <1>3, <3>1
  <2>2. \A i \in 1..n : SubSeq(p, 1, n)[i] = p[i]
      BY <1>3, SubSeqProperties
  <2>3. \A i \in 1..n : SubSeq(u, 1, n)[i] = u[i]
      BY <2>1, SubSeqProperties
  <2> QED
      BY <1>2, <2>2, <2>3
<1> DEFINE rest == SubSeq(u, n + 1, k)
<1>5. /\ rest \in Seq(S) /\ Len(rest) = k - n
      /\ \A j \in 1..k - n : rest[j] = u[n + j]
  <2>1. \A i \in n + 1..k : u[i] \in S
      BY <1>3
  <2>2. /\ rest \in Seq(S)
        /\ Len(rest) = IF n + 1 <= k THEN k - (n + 1) + 1 ELSE 0
        /\ \A j \in 1..k - (n + 1) + 1 : rest[j] = u[(n + 1) + j - 1]
      BY <2>1, SubSeqProperties
  <2> HIDE DEF rest
  <2>3. k - (n + 1) + 1 = k - n /\ \A j \in 1..k - n : (n + 1) + j - 1 = n + j
      OBVIOUS
  <2>4. Len(rest) = k - n
      BY <1>2, <2>2
  <2> QED
      BY <2>2, <2>3, <2>4
<1> HIDE DEF rest
<1>6. u = p \o rest
  <2>1. /\ Len(u) = Len(p) + Len(rest)
        /\ \A i \in 1..Len(p) : u[i] = p[i]
        /\ \A j \in 1..Len(rest) : u[Len(p) + j] = rest[j]
      BY <1>1, <1>2, <1>4, <1>5
  <2> QED
      BY <1>5, <2>1, ConcatIs, Zenon
<1> QED
    BY <1>1, <1>5, <1>6 DEF rest
=============================================================================
