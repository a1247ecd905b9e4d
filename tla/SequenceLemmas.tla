---------------------------- MODULE SequenceLemmas ----------------------------
(***************************************************************************)
(* Facts about sequences and natural numbers that the proofs of several    *)
(* modules need.                                                           *)
(***************************************************************************)
EXTENDS Integers, Sequences, Functions, Selection, SequenceTheorems,
        WellFoundedInduction, TLAPS

\* A set of natural numbers that is not empty has a least element.
LEMMA Least ==
    ASSUME NEW T \in SUBSET Nat, T # {}
    PROVE  \E n \in T : \A m \in T : n <= m
<1>. DEFINE R == {ss \in Nat \X Nat : ss[1] < ss[2]}
<1>1. IsWellFoundedOn(R, Nat)
  BY NatLessThanWellFounded DEF OpToRel
<1>. HIDE DEF R
<1>2. PICK n \in T : \A m \in T : <<m, n>> \notin R
  BY <1>1, WFMin
<1>3. ASSUME NEW m \in T, m < n
      PROVE  FALSE
  <2>1. <<m, n>> \in Nat \X Nat /\ <<m, n>>[1] < <<m, n>>[2]
    BY <1>3
  <2>. QED  BY <1>2, <2>1 DEF R
<1>. QED  BY <1>3

\* Moving the head of one sequence to the end of another keeps the whole.
LEMMA MoveOne ==
    ASSUME NEW S, NEW a \in Seq(S), NEW b \in Seq(S), b # <<>>
    PROVE  /\ Head(b) \in S /\ Tail(b) \in Seq(S)
           /\ Append(a, Head(b)) \o Tail(b) = a \o b
<1>1. Head(b) \in S /\ Tail(b) \in Seq(S) /\ <<Head(b)>> \o Tail(b) = b
  BY HeadTailProperties, ConcatProperties
<1>2. Append(a, Head(b)) = a \o <<Head(b)>>
  BY <1>1, AppendIsConcat
<1>3. <<Head(b)>> \in Seq(S)
  BY <1>1
<1>. QED  BY <1>1, <1>2, <1>3, ConcatAssociative

\* Appending a new element to a sequence without repetitions adds it to the range
\* and repeats nothing; and if the longer sequence repeats nothing, it was new.
LEMMA AppendNew ==
    ASSUME NEW S, NEW s \in Seq(S), NEW e \in S
    PROVE  /\ Range(Append(s, e)) = Range(s) \cup {e}
           /\ IsInjective(Append(s, e)) <=> IsInjective(s) /\ e \notin Range(s)
<1>. DEFINE t == Append(s, e)
<1>1. /\ Len(s) \in Nat /\ DOMAIN s = 1 .. Len(s)
      /\ t \in Seq(S) /\ Len(t) = Len(s) + 1
      /\ \A i \in 1 .. Len(s) : t[i] = s[i]
      /\ t[Len(s) + 1] = e
  BY LenProperties, AppendProperties
<1>2. DOMAIN t = 1 .. Len(s) + 1
  BY <1>1, LenProperties
<1>. HIDE DEF t
<1>3. Range(t) = Range(s) \cup {e}
  BY <1>1, <1>2 DEF Range
<1>4. ASSUME IsInjective(t)
      PROVE  IsInjective(s) /\ e \notin Range(s)
  <2>1. \A i \in 1 .. Len(s) : i \in DOMAIN t /\ i # Len(s) + 1 /\ Len(s) + 1 \in DOMAIN t
    BY <1>1, <1>2
  <2>. QED  BY <1>1, <1>4, <2>1 DEF IsInjective, Range
<1>5. ASSUME IsInjective(s), e \notin Range(s)
      PROVE  IsInjective(t)
  <2>. SUFFICES ASSUME NEW i \in DOMAIN t, NEW j \in DOMAIN t, t[i] = t[j]
                PROVE  i = j
    BY DEF IsInjective
  <2>1. \A n \in DOMAIN t : n \in DOMAIN s \/ n = Len(s) + 1
    BY <1>1, <1>2
  <2>. QED  BY <1>1, <1>5, <2>1 DEF IsInjective, Range
<1>. QED  BY <1>3, <1>4, <1>5 DEF t

\* The front of a sequence without repetitions has none.
LEMMA FrontInjective ==
    ASSUME NEW S, NEW a \in Seq(S), NEW b \in Seq(S), NEW c \in Seq(S),
           IsInjective(a \o b \o c)
    PROVE  IsInjective(a)
<1>. DEFINE d == b \o c
<1>1. d \in Seq(S) /\ a \o d = a \o b \o c
  BY ConcatProperties, ConcatAssociative
<1>. HIDE DEF d
<1>2. /\ DOMAIN a = 1 .. Len(a) /\ Len(a) \in Nat /\ Len(d) \in Nat
      /\ DOMAIN (a \o d) = 1 .. Len(a) + Len(d)
      /\ \A i \in 1 .. Len(a) : (a \o d)[i] = a[i]
  BY <1>1, LenProperties, ConcatProperties
<1>. QED  BY <1>1, <1>2 DEF IsInjective

\* Sequences of one and of two elements, built one element at a time.
LEMMA ShortSequences ==
    ASSUME NEW x, NEW y
    PROVE  /\ \A f \in [1 .. 1 -> {x}] : f = <<x>>
           /\ Append(<<>>, x) = <<x>>
           /\ <<x, y>> = Append(<<x>>, y)
<1>. DEFINE S == {x, y}
<1>1. <<>> \in Seq(S) /\ <<x>> \in Seq(S) /\ <<x, y>> \in Seq(S)
  OBVIOUS
<1>2. Len(<<>>) = 0 /\ Len(<<x>>) = 1 /\ Len(<<x, y>>) = 2
  OBVIOUS
<1>3. Append(<<>>, x) = <<x>>
  <2>1. Append(<<>>, x) \in Seq(S) /\ Len(Append(<<>>, x)) = 1 /\ Append(<<>>, x)[1] = x
    BY <1>1, <1>2, AppendProperties
  <2>. QED  BY <1>1, <1>2, <2>1, SeqEqual
<1>4. Append(<<x>>, y) = <<x, y>>
  <2>. DEFINE a == Append(<<x>>, y)
  <2>1. a \in Seq(S) /\ Len(a) = 2 /\ a[1] = x /\ a[2] = y
    BY <1>1, <1>2, AppendProperties
  <2>. HIDE DEF a
  <2>2. \A i \in 1 .. Len(a) : a[i] = <<x, y>>[i]
    BY <2>1
  <2>3. Len(a) = Len(<<x, y>>)
    BY <1>2, <2>1
  <2>4. a = <<x, y>>
    BY <1>1, <2>1, <2>2, <2>3, SeqEqual
  <2>. QED  BY <2>4 DEF a
<1>5. ASSUME NEW f \in [1 .. 1 -> {x}]
      PROVE  f = <<x>>
  <2>1. f \in Seq({x}) /\ <<x>> \in Seq({x})
    <3>1. \E n \in Nat : f \in [1 .. n -> {x}]
      OBVIOUS
    <3>2. f \in Seq({x})
      BY <3>1, SeqDef
    <3>. QED  BY <3>2
  <2>2. DOMAIN f = 1 .. Len(f) /\ Len(f) \in Nat
    BY <2>1, LenProperties
  <2>3. DOMAIN f = 1 .. 1 /\ f[1] = x
    OBVIOUS
  <2>. DEFINE n == Len(f)
  <2>. HIDE DEF n
  <2>4. \A i \in Nat : i \in 1 .. n <=> i = 1
    BY <2>2, <2>3 DEF n
  <2>5. n = 1
    BY <2>2, <2>4 DEF n
  <2>. QED  BY <1>2, <2>1, <2>3, <2>5, SeqEqual DEF n
<1>. QED  BY <1>3, <1>4, <1>5

\* Induction along 0 .. n, for the set of numbers at which a statement holds.
LEMMA Reaches ==
    ASSUME NEW n \in Nat, NEW G \in SUBSET (0 .. n), 0 \in G,
           \A i \in 0 .. n : i # 0 /\ i - 1 \in G => i \in G
    PROVE  \A i \in 0 .. n : i \in G
<1>. DEFINE T == {i \in 0 .. n : i \notin G}
<1>. SUFFICES ASSUME T # {} PROVE FALSE
  OBVIOUS
<1>1. T \in SUBSET Nat
  OBVIOUS
<1>. HIDE DEF T
<1>2. PICK m \in T : \A k \in T : m <= k
  BY <1>1, Least
<1>3. m \in 0 .. n /\ m \notin G /\ m # 0
  BY <1>2 DEF T
<1>4. m - 1 \in 0 .. n /\ m - 1 \notin T
  BY <1>2, <1>3
<1>. QED  BY <1>3, <1>4 DEF T

\* f is what n rounds of a loop compute, from base on, without leaving A.
Iterates(f, n, A, base, step) ==
    /\ f \in [0 .. n -> A]
    /\ \A i \in 0 .. n : f[i] = IF i = 0 THEN base ELSE step[i][f[i - 1]]

\* Every loop whose rounds stay in a set computes something.
LEMMA Iteration ==
    ASSUME NEW A, NEW n \in Nat, NEW base \in A, NEW step \in [1 .. n -> [A -> A]]
    PROVE  \E f : Iterates(f, n, A, base, step)
<1>. DEFINE Solves(f, m) == /\ f \in [0 .. m -> A]
                            /\ \A i \in 0 .. m : f[i] = IF i = 0 THEN base ELSE step[i][f[i - 1]]
            G == {m \in 0 .. n : \E f : Solves(f, m)}
<1>1. 0 \in G
  <2>1. Solves([i \in 0 .. 0 |-> base], 0)
    OBVIOUS
  <2>. HIDE DEF Solves
  <2>. QED  BY <2>1
<1>. HIDE DEF G, Solves
<1>2. ASSUME NEW m \in 0 .. n, m # 0, m - 1 \in G
      PROVE  m \in G
  <2>0. m \in Nat \ {0}
    BY <1>2
  <2>1. PICK f : Solves(f, m - 1)
    BY <1>2 DEF G
  <2>. DEFINE g == [i \in 0 .. m |-> IF i = m THEN step[m][f[m - 1]] ELSE f[i]]
  <2>2. m \in 1 .. n /\ m - 1 \in 0 .. (m - 1) /\ f[m - 1] \in A
    BY <2>0, <2>1 DEF Solves
  <2>3. step[m][f[m - 1]] \in A
    BY <2>2
  <2>4. \A i \in 0 .. m : i # m => i \in 0 .. (m - 1) /\ (i # 0 => i - 1 \in 0 .. (m - 1))
    BY <2>0
  <2>5. \A i \in 0 .. (m - 1) : i \in 0 .. m /\ i # m
    BY <2>0
  <2>6. g \in [0 .. m -> A]
    BY <2>1, <2>3, <2>4 DEF Solves
  <2>7. ASSUME NEW i \in 0 .. m
        PROVE  g[i] = IF i = 0 THEN base ELSE step[i][g[i - 1]]
    <3>1. CASE i = m
      <4>1. g[m] = step[m][f[m - 1]] /\ g[m - 1] = f[m - 1]
        BY <2>0, <2>2, <2>5
      <4>. QED  BY <2>0, <3>1, <4>1
    <3>2. CASE i # m
      BY <2>1, <2>4, <2>5, <3>2 DEF Solves
    <3>. QED  BY <3>1, <3>2
  <2>. HIDE DEF g
  <2>8. Solves(g, m)
    BY <2>6, <2>7 DEF Solves
  <2>. QED  BY <2>8 DEF G
<1>3. n \in G
  <2>1. G \in SUBSET (0 .. n)
    BY DEF G
  <2>2. \A i \in 0 .. n : i \in G
    BY <1>1, <1>2, <2>1, Reaches
  <2>. QED  BY <2>2
<1>4. PICK f : Solves(f, n)
  BY <1>3 DEF G
<1>. QED  BY <1>4 DEF Solves, Iterates

\* The elements of a sequence are told apart by their ids.
Distinct(s) == \A i, j \in DOMAIN s : s[i].id = s[j].id => i = j

\* Selecting keeps what it should, and no more.
LEMMA SelectedProperties ==
    ASSUME NEW S, NEW s \in Seq(S), NEW T
    PROVE  /\ Selected(s, T) \in Seq(S)
           /\ Range(Selected(s, T)) = Range(s) \cap T
           /\ Distinct(s) => Distinct(Selected(s, T))
<1>. DEFINE n == Len(s)
            Step(i, k) == IF s[i] \in T THEN Append(k, s[i]) ELSE k
            f == CHOOSE g : g = [i \in 0 .. n |-> IF i = 0 THEN <<>> ELSE Step(i, g[i - 1])]
<1>1. n \in Nat /\ DOMAIN s = 1 .. n /\ \A i \in 1 .. n : s[i] \in S
  BY LenProperties, ElementOfSeq
<1>. HIDE DEF n
<1>2. f = [i \in 0 .. n |-> IF i = 0 THEN <<>> ELSE Step(i, f[i - 1])]
  <2>. DEFINE A == Seq(S)
              e == <<>>
              step == [i \in 1 .. n |-> [k \in A |-> Step(i, k)]]
  <2>1. \A i \in 1 .. n : \A k \in A : Step(i, k) \in A
    BY <1>1, AppendProperties
  <2>2. step \in [1 .. n -> [A -> A]] /\ e \in A
    BY <2>1
  <2>3. \A i \in 1 .. n : \A k \in A : step[i][k] = Step(i, k)
    OBVIOUS
  <2>. HIDE DEF A, step, Step, e, f
  <2>4. PICK g : Iterates(g, n, A, e, step)
    BY <1>1, <2>2, Iteration
  <2>5. g \in [0 .. n -> A] /\ \A i \in 0 .. n : g[i] = IF i = 0 THEN e ELSE step[i][g[i - 1]]
    BY <2>4 DEF Iterates
  <2>7. \A i \in 0 .. n : i # 0 => i \in 1 .. n /\ i - 1 \in 0 .. n
    BY <1>1
  <2>6. g = [i \in 0 .. n |-> IF i = 0 THEN <<>> ELSE Step(i, g[i - 1])]
    BY <2>3, <2>5, <2>7 DEF e
  <2>. QED  BY <2>6 DEF f
<1>3. Selected(s, T) = f[n]
  BY DEF Selected, n
<1>4. \A i \in 0 .. n : f[i] = IF i = 0 THEN <<>> ELSE Step(i, f[i - 1])
  BY <1>2
<1>. HIDE DEF f
<1>. DEFINE P(i) == /\ f[i] \in Seq(S)
                    /\ Range(f[i]) = {s[j] : j \in 1 .. i} \cap T
                    /\ Distinct(s) => Distinct(f[i])
            G == {i \in 0 .. n : P(i)}
<1>5. 0 \in G
  <2>1. f[0] = <<>>
    BY <1>1, <1>4
  <2>2. P(0)
    BY <2>1 DEF Range, Distinct
  <2>. QED  BY <1>1, <2>2
<1>. HIDE DEF G
<1>6. ASSUME NEW m \in 0 .. n, m # 0, m - 1 \in G
      PROVE  m \in G
  <2>. DEFINE k == f[m - 1]
  <2>0. m \in 1 .. n
    BY <1>1, <1>6
  <2>1. P(m - 1) /\ m \in 1 .. n
    BY <1>6, <2>0 DEF G
  <2>2. f[m] = Step(m, k) /\ s[m] \in S
    BY <1>1, <1>4, <1>6, <2>0
  <2>3. {s[j] : j \in 1 .. m} = {s[j] : j \in 1 .. (m - 1)} \cup {s[m]}
    BY <1>1, <2>1
  <2>4. CASE s[m] \notin T
    <3>1. f[m] = k
      BY <2>2, <2>4
    <3>2. P(m)
      BY <2>1, <2>3, <2>4, <3>1
    <3>. QED  BY <3>2 DEF G
  <2>5. CASE s[m] \in T
    <3>1. f[m] = Append(k, s[m]) /\ k \in Seq(S)
      BY <2>1, <2>2, <2>5
    <3>2. f[m] \in Seq(S) /\ Range(f[m]) = Range(k) \cup {s[m]}
      BY <2>2, <3>1, AppendNew, AppendProperties
    <3>3. ASSUME Distinct(s)
          PROVE  Distinct(f[m])
      <4>1. /\ DOMAIN k = 1 .. Len(k) /\ Len(k) \in Nat
            /\ DOMAIN f[m] = 1 .. (Len(k) + 1)
            /\ \A i \in 1 .. Len(k) : f[m][i] = k[i]
            /\ f[m][Len(k) + 1] = s[m]
        BY <2>2, <3>1, <3>2, AppendProperties, LenProperties
      <4>2. \A i \in 1 .. Len(k) : k[i].id # s[m].id
        <5>. SUFFICES ASSUME NEW i \in 1 .. Len(k) PROVE k[i].id # s[m].id
          OBVIOUS
        <5>1. k[i] \in Range(k)
          BY <4>1 DEF Range
        <5>2. PICK j \in 1 .. (m - 1) : k[i] = s[j]
          BY <2>1, <5>1
        <5>3. j \in DOMAIN s /\ m \in DOMAIN s /\ j # m
          BY <1>1, <2>1
        <5>. QED  BY <3>3, <5>2, <5>3 DEF Distinct
      <4>3. Distinct(k)
        BY <2>1, <3>3
      <4>4. \A i \in DOMAIN f[m] : i \in DOMAIN k \/ i = Len(k) + 1
        BY <4>1
      <4>. HIDE DEF k
      <4>. QED  BY <4>1, <4>2, <4>3, <4>4 DEF Distinct
    <3>4. P(m)
      BY <2>1, <2>3, <2>5, <3>2, <3>3
    <3>. QED  BY <3>4 DEF G
  <2>. QED  BY <2>4, <2>5
<1>7. P(n)
  <2>1. G \in SUBSET (0 .. n)
    BY DEF G
  <2>2. \A i \in 0 .. n : i \in G
    BY <1>1, <1>5, <1>6, <2>1, Reaches
  <2>3. n \in 0 .. n
    BY <1>1
  <2>. QED  BY <2>2, <2>3 DEF G
<1>8. Range(s) = {s[j] : j \in 1 .. n}
  BY <1>1 DEF Range
<1>. QED  BY <1>3, <1>7, <1>8
=============================================================================
