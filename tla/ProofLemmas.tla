---------------------------- MODULE ProofLemmas ----------------------------
(***************************************************************************)
(* Lemmas that the proofs about several modules need: induction, sequences *)
(* and their flattening, and how activations nest.                         *)
(***************************************************************************)
EXTENDS Naturals, Sequences, SequencesExt, WellFoundedInduction, TLAPS

(***************************************************************************)
(* Induction.  A property of natural numbers is given as the set of those  *)
(* that have it.                                                           *)
(***************************************************************************)

\* The least number of a set.
LEMMA Minimum ==
  ASSUME NEW T, T \subseteq Nat, T # {}
  PROVE  \E x \in T : \A y \in T : x <= y
<1> DEFINE R == {ss \in Nat \X Nat : ss[1] < ss[2]}
<1>1. IsWellFoundedOn(R, Nat)
  BY NatLessThanWellFounded DEF OpToRel
<1>2. \A x, y \in Nat : x < y => <<x, y>> \in R
  OBVIOUS
<1> HIDE DEF R
<1>3. PICK x \in T : \A y \in T : ~ (<<y, x>> \in R)
  BY <1>1, WFMin
<1>4. \A y \in T : x <= y
  <2> TAKE y \in T
  <2>1. x \in Nat /\ y \in Nat
    OBVIOUS
  <2>2. ~(y < x)
    BY <1>2, <1>3, <2>1
  <2>3. QED BY <2>1, <2>2
<1>5. QED
  BY <1>4

\* A set of numbers that has 0 and successors has all of them.
LEMMA Inductive ==
  ASSUME NEW S, S \subseteq Nat, 0 \in S, \A n \in S : n + 1 \in S
  PROVE  S = Nat
<1>1. SUFFICES ASSUME Nat \ S # {} PROVE FALSE
  OBVIOUS
<1>2. PICK x \in Nat \ S : \A y \in Nat \ S : x <= y
  BY <1>1, Minimum
<1>3. x - 1 \in Nat /\ x - 1 \in S
  BY <1>2
<1>4. QED
  BY <1>2, <1>3

\* Min and Max.
LEMMA MinIn ==
  ASSUME NEW T, T \subseteq Nat, T # {}
  PROVE  Min(T) \in T /\ \A y \in T : Min(T) <= y
<1>1. \E x \in T : \A y \in T : x <= y
  BY Minimum
<1>2. QED
  BY <1>1 DEF Min

LEMMA MaxTwo ==
  ASSUME NEW a \in Nat, NEW b \in Nat
  PROVE  Max({a, b}) \in Nat /\ a <= Max({a, b}) /\ b <= Max({a, b}) /\ Max({a, b}) \in {a, b}
<1>1. \E x \in {a, b} : \A y \in {a, b} : x >= y
  OBVIOUS
<1>2. PICK m : m = Max({a, b})
  OBVIOUS
<1>3. m \in {a, b} /\ \A y \in {a, b} : m >= y
  BY <1>1, <1>2 DEF Max
<1>4. QED
  BY <1>2, <1>3

LEMMA MaxThree ==
  ASSUME NEW a \in Nat, NEW b \in Nat, NEW c \in Nat
  PROVE  Max({a, b, c}) \in Nat /\ a <= Max({a, b, c}) /\ b <= Max({a, b, c}) /\ c <= Max({a, b, c})
<1>1. \E x \in {a, b, c} : \A y \in {a, b, c} : x >= y
  OBVIOUS
<1>2. PICK m : m = Max({a, b, c})
  OBVIOUS
<1>3. m \in {a, b, c} /\ \A y \in {a, b, c} : m >= y
  BY <1>1, <1>2 DEF Max
<1>4. QED
  BY <1>2, <1>3

-----------------------------------------------------------------------------
(* Sequences.                                                              *)

\* Sequences are equal if their elements are.
LEMMA SeqEqual ==
  ASSUME NEW S, NEW s \in Seq(S), NEW t \in Seq(S), Len(s) = Len(t),
         \A i \in 1..Len(s) : s[i] = t[i]
  PROVE  s = t
  OBVIOUS

\* Only the empty sequence has length 0.
LEMMA LenZero ==
  ASSUME NEW S, NEW s \in Seq(S), Len(s) = 0
  PROVE  s = <<>>
  OBVIOUS

\* What Front and Last make of a sequence that is not empty.
LEMMA FrontLast ==
  ASSUME NEW S, NEW s \in Seq(S), s # <<>>
  PROVE  /\ Len(s) \in Nat \ {0}
         /\ Front(s) \in Seq(S) /\ Len(Front(s)) = Len(s) - 1
         /\ \A i \in 1..(Len(s) - 1) : Front(s)[i] = s[i]
         /\ Last(s) \in S /\ Last(s) = s[Len(s)]
<1>1. Len(s) \in Nat \ {0}
  OBVIOUS
<1>2. Front(s) = [i \in 1..(Len(s) - 1) |-> s[i]]
  BY <1>1 DEF Front
<1>3. \A i \in 1..(Len(s) - 1) : s[i] \in S
  BY <1>1
<1>4. Front(s) \in Seq(S) /\ Len(Front(s)) = Len(s) - 1
  BY <1>1, <1>2, <1>3
<1>5. \A i \in 1..(Len(s) - 1) : Front(s)[i] = s[i]
  BY <1>2
<1>6. Last(s) \in S /\ Last(s) = s[Len(s)]
  BY <1>1 DEF Last
<1>7. QED
  BY <1>1, <1>4, <1>5, <1>6

\* What Append makes of a sequence.
LEMMA AppendOne ==
  ASSUME NEW S, NEW s \in Seq(S), NEW e \in S
  PROVE  /\ Len(s) \in Nat
         /\ Append(s, e) \in Seq(S) /\ Len(Append(s, e)) = Len(s) + 1
         /\ \A i \in 1..Len(s) : Append(s, e)[i] = s[i]
         /\ Append(s, e)[Len(s) + 1] = e
         /\ Append(s, e) # <<>>
  OBVIOUS

\* A sequence that is not empty is its front with its last element.
LEMMA SplitLast ==
  ASSUME NEW S, NEW s \in Seq(S), s # <<>>
  PROVE  s = Append(Front(s), Last(s))
<1>1. PICK f, e, n : f = Front(s) /\ e = Last(s) /\ n = Len(s)
  OBVIOUS
<1>2. /\ n \in Nat \ {0} /\ f \in Seq(S) /\ Len(f) = n - 1 /\ e \in S /\ e = s[n]
      /\ \A i \in 1..(n - 1) : f[i] = s[i]
  BY <1>1, FrontLast
<1>3. PICK a : a = Append(f, e)
  OBVIOUS
<1>4. a \in Seq(S) /\ Len(a) = n /\ \A i \in 1..n : a[i] = s[i]
  BY <1>2, <1>3
<1>5. a = s
  BY <1>1, <1>4
<1>6. QED
  BY <1>1, <1>3, <1>5

\* Front and Last undo Append.
LEMMA AppendSplit ==
  ASSUME NEW S, NEW s \in Seq(S), NEW e \in S
  PROVE  Front(Append(s, e)) = s /\ Last(Append(s, e)) = e
<1>1. PICK a, f : a = Append(s, e) /\ f = Front(a)
  OBVIOUS
<1>2. /\ a \in Seq(S) /\ Len(a) = Len(s) + 1 /\ a # <<>> /\ a[Len(s) + 1] = e
      /\ \A i \in 1..Len(s) : a[i] = s[i]
  BY <1>1, AppendOne
<1>3. /\ f \in Seq(S) /\ Len(f) = Len(s) /\ Last(a) = e
      /\ \A i \in 1..Len(s) : f[i] = s[i]
  <2>1. Len(s) \in Nat /\ Len(a) - 1 = Len(s)
    BY <1>2
  <2>2. /\ f \in Seq(S) /\ Len(f) = Len(a) - 1 /\ Last(a) = a[Len(a)]
        /\ \A i \in 1..(Len(a) - 1) : f[i] = a[i]
    BY <1>1, <1>2, FrontLast
  <2>3. QED
    BY <1>2, <2>1, <2>2
<1>4. f = s
  BY <1>3
<1>5. QED
  BY <1>1, <1>3, <1>4

\* Append after a concatenation.
LEMMA ConcatAppend ==
  ASSUME NEW S, NEW s \in Seq(S), NEW t \in Seq(S), NEW e \in S
  PROVE  s \o Append(t, e) = Append(s \o t, e) /\ s \o t \in Seq(S) /\ s \o <<>> = s
  OBVIOUS

-----------------------------------------------------------------------------
(* FlattenSeq.                                                             *)

\* What FlattenSeq computes at i, from its value f before.
FlattenStep(f, s, i) == IF i = 1 THEN s[i] ELSE f[i - 1] \o s[i]

\* f is what FlattenSeq evaluates, from the front of s up to n.
Flattens(f, s, n) ==
  f = [i \in 1..n |-> IF i = 1 THEN s[i] ELSE f[i - 1] \o s[i]]

\* Such a function at one argument.
LEMMA FlattensAt ==
  ASSUME NEW s, NEW n \in Nat, NEW f, Flattens(f, s, n)
  PROVE  \A i \in 1..n : f[i] = FlattenStep(f, s, i)
<1> TAKE i \in 1..n
<1>1. f = [j \in 1..n |-> IF j = 1 THEN s[j] ELSE f[j - 1] \o s[j]]
  BY DEF Flattens
<1>2. [j \in 1..n |-> IF j = 1 THEN s[j] ELSE f[j - 1] \o s[j]][i]
          = IF i = 1 THEN s[i] ELSE f[i - 1] \o s[i]
  OBVIOUS
<1>3. f[i] = IF i = 1 THEN s[i] ELSE f[i - 1] \o s[i]
  BY <1>1, <1>2, Zenon
<1>4. QED
  BY <1>3 DEF FlattenStep

\* There is such a function ...
LEMMA FlattenExists ==
  ASSUME NEW S, NEW s \in Seq(Seq(S))
  PROVE  \E f \in [1..Len(s) -> Seq(S)] : Flattens(f, s, Len(s))
<1> DEFINE T == {n \in Nat : n <= Len(s) => \E f \in [1..n -> Seq(S)] : Flattens(f, s, n)}
<1>1. 0 \in T
  <2>1. PICK f : f = [i \in 1..0 |-> <<>>]
    OBVIOUS
  <2>2. f \in [1..0 -> Seq(S)] /\ Flattens(f, s, 0)
    BY <2>1 DEF Flattens
  <2>3. QED
    BY <2>2
<1>2. ASSUME NEW n \in T PROVE n + 1 \in T
  <2> SUFFICES ASSUME n + 1 <= Len(s)
               PROVE  \E f \in [1..(n + 1) -> Seq(S)] : Flattens(f, s, n + 1)
    OBVIOUS
  <2>1. n \in Nat /\ n <= Len(s) /\ s[n + 1] \in Seq(S)
    OBVIOUS
  <2>2. PICK f \in [1..n -> Seq(S)] : Flattens(f, s, n)
    BY <2>1
  <2>3. PICK last : last = IF n = 0 THEN s[1] ELSE f[n] \o s[n + 1]
    OBVIOUS
  <2>4. last \in Seq(S)
    <3>1. CASE n = 0
      BY <2>1, <2>3, <3>1
    <3>2. CASE n # 0
      <4>1. f[n] \in Seq(S)
        BY <2>1, <2>2, <3>2
      <4>2. QED
        BY <2>1, <2>3, <3>2, <4>1
    <3>3. QED
      BY <3>1, <3>2
  <2>5. PICK g : g = [i \in 1..(n + 1) |-> IF i = n + 1 THEN last ELSE f[i]]
    OBVIOUS
  <2>6. g \in [1..(n + 1) -> Seq(S)]
    BY <2>1, <2>2, <2>4, <2>5
  <2>7. \A i \in 1..(n + 1) : g[i] = IF i = 1 THEN s[i] ELSE g[i - 1] \o s[i]
    <3> TAKE i \in 1..(n + 1)
    <3>1. CASE i = n + 1
      <4>1. g[i] = last /\ (n # 0 => g[i - 1] = f[n])
        BY <2>1, <2>5, <3>1
      <4>2. QED
        BY <2>1, <2>3, <3>1, <4>1
    <3>2. CASE i # n + 1
      <4>1. i \in 1..n
        BY <2>1, <3>2
      <4>2. g[i] = f[i] /\ (i # 1 => g[i - 1] = f[i - 1])
        BY <2>1, <2>5, <4>1
      <4>3. f[i] = IF i = 1 THEN s[i] ELSE f[i - 1] \o s[i]
        BY <2>2, <4>1 DEF Flattens
      <4>4. QED
        BY <4>2, <4>3
    <3>3. QED
      BY <3>1, <3>2
  <2>8. Flattens(g, s, n + 1)
    BY <2>6, <2>7 DEF Flattens
  <2>9. QED
    BY <2>6, <2>8
<1> HIDE DEF T
<1>3. T = Nat
  <2>1. T \subseteq Nat
    BY DEF T
  <2>2. QED
    BY <1>1, <1>2, <2>1, Inductive
<1>4. Len(s) \in T
  BY <1>3
<1>5. QED
  BY <1>4 DEF T

\* ... and only one.
LEMMA FlattenUnique ==
  ASSUME NEW s, NEW n \in Nat, NEW f, NEW g, Flattens(f, s, n), Flattens(g, s, n)
  PROVE  f = g
<1> DEFINE T == {k \in Nat : k \in 1..n => f[k] = g[k]}
<1>1. 0 \in T
  OBVIOUS
<1>2. ASSUME NEW k \in T PROVE k + 1 \in T
  <2> SUFFICES ASSUME k + 1 \in 1..n PROVE f[k + 1] = g[k + 1]
    OBVIOUS
  <2>1. k \in Nat /\ (k # 0 => f[k] = g[k])
    OBVIOUS
  <2>2. /\ f[k + 1] = IF k + 1 = 1 THEN s[k + 1] ELSE f[k + 1 - 1] \o s[k + 1]
        /\ g[k + 1] = IF k + 1 = 1 THEN s[k + 1] ELSE g[k + 1 - 1] \o s[k + 1]
    BY FlattensAt DEF FlattenStep
  <2>3. k + 1 - 1 = k /\ (k + 1 = 1 <=> k = 0)
    BY <2>1
  <2>4. QED
    BY <2>1, <2>2, <2>3
<1> HIDE DEF T
<1>3. T = Nat
  <2>1. T \subseteq Nat
    BY DEF T
  <2>2. QED
    BY <1>1, <1>2, <2>1, Inductive
<1>4. \A k \in 1..n : f[k] = g[k]
  BY <1>3 DEF T
<1>5. QED
  BY <1>4 DEF Flattens

\* Whatever function satisfies the equation of FlattenSeq is the one meant.
LEMMA FlattenValue ==
  ASSUME NEW S, NEW s \in Seq(Seq(S)), Len(s) # 0, NEW f, Flattens(f, s, Len(s))
  PROVE  FlattenSeq(s) = f[Len(s)]
<1>1. FlattenSeq(s) = (CHOOSE g : Flattens(g, s, Len(s)))[Len(s)]
  BY DEF FlattenSeq, Flattens
<1>2. PICK h : h = CHOOSE g : Flattens(g, s, Len(s))
  OBVIOUS
<1>3. Flattens(h, s, Len(s))
  BY <1>2
<1>4. h = f
  BY <1>3, FlattenUnique
<1>5. QED
  BY <1>1, <1>2, <1>4

\* What is flattened keeps its elements.
LEMMA FlattenType ==
  ASSUME NEW S, NEW s \in Seq(Seq(S))
  PROVE  FlattenSeq(s) \in Seq(S)
<1>1. CASE Len(s) = 0
  <2>1. s = <<>>
    BY <1>1
  <2>2. QED
    BY <1>1, <2>1 DEF FlattenSeq
<1>2. CASE Len(s) # 0
  <2>1. PICK f \in [1..Len(s) -> Seq(S)] : Flattens(f, s, Len(s))
    BY FlattenExists
  <2>2. Len(s) \in 1..Len(s)
    BY <1>2
  <2>3. FlattenSeq(s) = f[Len(s)]
    BY <1>2, <2>1, FlattenValue
  <2>4. QED
    BY <2>1, <2>2, <2>3
<1>3. QED
  BY <1>1, <1>2

\* To flatten one sequence more is to append it.
LEMMA FlattenAppend ==
  ASSUME NEW S, NEW s \in Seq(Seq(S)), NEW t \in Seq(S)
  PROVE  FlattenSeq(Append(s, t)) = FlattenSeq(s) \o t
<1>1. PICK a, n, m : a = Append(s, t) /\ n = Len(s) /\ m = n + 1
  OBVIOUS
<1>2. /\ a \in Seq(Seq(S)) /\ n \in Nat /\ m \in Nat /\ Len(a) = m /\ a[m] = t /\ m # 0
      /\ \A i \in 1..n : a[i] = s[i]
  BY <1>1
<1>3. PICK f \in [1..m -> Seq(S)] : Flattens(f, a, m)
  BY <1>2, FlattenExists
<1>4. FlattenSeq(a) = f[m]
  BY <1>2, <1>3, FlattenValue
<1>5. \A i \in 1..m : f[i] = FlattenStep(f, a, i)
  <2>1. m \in Nat /\ Flattens(f, a, m)
    BY <1>2, <1>3
  <2>2. QED
    BY <2>1, FlattensAt, Zenon
<1>6. CASE n = 0
  <2>1. FlattenSeq(s) = <<>>
    <3>1. s = <<>>
      BY <1>1, <1>6, LenZero
    <3>2. QED
      BY <3>1 DEF FlattenSeq
  <2>2. f[1] = t
    BY <1>1, <1>2, <1>5, <1>6 DEF FlattenStep
  <2>3. QED
    BY <1>1, <1>4, <1>6, <2>1, <2>2
<1>7. CASE n # 0
  <2>1. PICK g : g = [i \in 1..n |-> f[i]]
    OBVIOUS
  <2>2. \A i \in 1..n : g[i] = IF i = 1 THEN s[i] ELSE g[i - 1] \o s[i]
    <3> TAKE i \in 1..n
    <3>1. g[i] = f[i] /\ a[i] = s[i] /\ i \in 1..m
      BY <1>1, <1>2, <2>1
    <3>2. i # 1 => i - 1 \in 1..n
      BY <1>2
    <3>3. i # 1 => g[i - 1] = f[i - 1]
      BY <2>1, <3>2
    <3>4. f[i] = IF i = 1 THEN a[i] ELSE f[i - 1] \o a[i]
      BY <1>5, <3>1 DEF FlattenStep
    <3>5. QED
      BY <3>1, <3>3, <3>4
  <2>3. Flattens(g, s, n)
    BY <2>1, <2>2 DEF Flattens
  <2>4. FlattenSeq(s) = g[n]
    BY <1>1, <1>7, <2>3, FlattenValue
  <2>5. f[m] = f[n] \o t
    <3>1. m \in 1..m /\ m # 1 /\ m - 1 = n
      BY <1>1, <1>2, <1>7
    <3>2. f[m] = IF m = 1 THEN a[m] ELSE f[m - 1] \o a[m]
      BY <1>5, <3>1 DEF FlattenStep
    <3>3. QED
      BY <1>2, <3>1, <3>2
  <2>6. g[n] = f[n]
    BY <1>2, <1>7, <2>1
  <2>7. QED
    BY <1>1, <1>4, <2>4, <2>5, <2>6
<1>8. QED
  BY <1>6, <1>7

\* To flatten one sequence more at the front is to put it in front.
LEMMA FlattenCons ==
  ASSUME NEW S, NEW s \in Seq(Seq(S)), NEW t \in Seq(S)
  PROVE  FlattenSeq(<<t>> \o s) = t \o FlattenSeq(s)
<1>1. PICK a, n, m : a = <<t>> \o s /\ n = Len(s) /\ m = n + 1
  OBVIOUS
<1>2. /\ a \in Seq(Seq(S)) /\ n \in Nat /\ m \in Nat /\ Len(a) = m /\ a[1] = t /\ m # 0
      /\ \A i \in 1..n : a[i + 1] = s[i]
  BY <1>1
<1>3. PICK f \in [1..m -> Seq(S)] : Flattens(f, a, m)
  BY <1>2, FlattenExists
<1>4. FlattenSeq(a) = f[m]
  BY <1>2, <1>3, FlattenValue
<1>5. \A i \in 1..m : f[i] = FlattenStep(f, a, i)
  <2>1. m \in Nat /\ Flattens(f, a, m)
    BY <1>2, <1>3
  <2>2. QED
    BY <2>1, FlattensAt, Zenon
<1>6. f[1] = t
  <2>1. 1 \in 1..m
    BY <1>2
  <2>2. QED
    BY <1>2, <1>5, <2>1 DEF FlattenStep
<1>7. CASE n = 0
  <2>1. FlattenSeq(s) = <<>>
    <3>1. s = <<>>
      BY <1>1, <1>7, LenZero
    <3>2. QED
      BY <3>1 DEF FlattenSeq
  <2>2. QED
    BY <1>1, <1>4, <1>6, <1>7, <2>1
<1>8. CASE n # 0
  <2>1. PICK g \in [1..n -> Seq(S)] : Flattens(g, s, n)
    BY <1>1, FlattenExists
  <2>2. FlattenSeq(s) = g[n]
    BY <1>1, <1>8, <2>1, FlattenValue
  <2>3. \A i \in 1..n : g[i] = FlattenStep(g, s, i)
    <3>1. n \in Nat /\ Flattens(g, s, n)
      BY <1>2, <2>1
    <3>2. QED
      BY <3>1, FlattensAt, Zenon
  <2> DEFINE T == {i \in Nat : i + 1 \in 1..n => f[i + 2] = t \o g[i + 1]}
  <2>4. 0 \in T
    <3>1. 1 \in 1..n /\ 2 \in 1..m /\ 2 - 1 = 1 /\ 1 + 1 = 2
      BY <1>1, <1>2, <1>8
    <3>2. f[2] = FlattenStep(f, a, 2) /\ g[1] = FlattenStep(g, s, 1)
      BY <1>5, <2>3, <3>1, Zenon
    <3>3. a[2] = s[1]
      BY <1>2, <3>1
    <3>4. f[2] = f[1] \o a[2] /\ g[1] = s[1]
      BY <3>1, <3>2 DEF FlattenStep
    <3>5. 0 + 2 = 2 /\ 0 + 1 = 1
      OBVIOUS
    <3>6. f[0 + 2] = t \o g[0 + 1]
      BY <1>6, <3>3, <3>4, <3>5
    <3>7. QED
      BY <3>6
  <2>5. ASSUME NEW i \in T PROVE i + 1 \in T
    <3>a. i \in Nat /\ i + 1 + 1 = i + 2 /\ i + 1 + 2 = i + 3
      OBVIOUS
    <3>b. SUFFICES ASSUME i + 2 \in 1..n PROVE f[i + 3] = t \o g[i + 2]
      BY <3>a
    <3>c. i + 1 \in 1..n /\ i + 2 \in 1..m /\ i + 3 \in 1..m
      BY <1>1, <1>2, <3>a, <3>b
    <3>1. f[i + 2] = t \o g[i + 1]
      BY <3>c
    <3>2. i + 3 - 1 = i + 2 /\ i + 2 - 1 = i + 1 /\ i + 2 + 1 = i + 3 /\ i + 3 # 1 /\ i + 2 # 1
      BY <3>a
    <3>d. f[i + 3] = FlattenStep(f, a, i + 3) /\ g[i + 2] = FlattenStep(g, s, i + 2)
      BY <1>5, <2>3, <3>b, <3>c, Zenon
    <3>e. a[i + 3] = s[i + 2]
      BY <1>2, <3>2, <3>b
    <3>3. f[i + 3] = f[i + 2] \o a[i + 3] /\ a[i + 3] = s[i + 2] /\ g[i + 2] = g[i + 1] \o s[i + 2]
      <4>1. PICK k, l : k = i + 3 /\ l = i + 2
        OBVIOUS
      <4>2. k # 1 /\ k - 1 = l /\ l # 1 /\ l - 1 = i + 1
        BY <3>a, <4>1
      <4>3. f[k] = FlattenStep(f, a, k) /\ g[l] = FlattenStep(g, s, l)
        BY <3>d, <4>1
      <4>4. f[k] = f[k - 1] \o a[k]
        BY <4>2, <4>3, Zenon DEF FlattenStep
      <4>5. g[l] = g[l - 1] \o s[l]
        BY <4>2, <4>3, Zenon DEF FlattenStep
      <4>6. QED
        BY <3>e, <4>1, <4>2, <4>4, <4>5, Zenon
    <3>4. PICK x, y : x = g[i + 1] /\ y = s[i + 2]
      OBVIOUS
    <3>5. x \in Seq(S) /\ y \in Seq(S)
      <4>1. s[i + 2] \in Seq(S)
        BY <1>1, <3>b
      <4>2. g[i + 1] \in Seq(S)
        BY <2>1, <3>c
      <4>3. QED
        BY <3>4, <4>1, <4>2
    <3>6. (t \o x) \o y = t \o (x \o y)
      BY <3>5
    <3>7. QED
      BY <3>1, <3>3, <3>4, <3>6
  <2> HIDE DEF T
  <2>6. T = Nat
    <3>1. T \subseteq Nat
      BY DEF T
    <3>2. QED
      BY <2>4, <2>5, <3>1, Inductive
  <2>7. n - 1 \in T
    BY <1>2, <1>8, <2>6
  <2>8. n - 1 + 1 \in 1..n /\ n - 1 + 2 = m /\ n - 1 + 1 = n
    BY <1>1, <1>2, <1>8
  <2>9. f[m] = t \o g[n]
    BY <2>7, <2>8 DEF T
  <2>10. QED
    BY <1>1, <1>4, <2>2, <2>9
<1>9. QED
  BY <1>7, <1>8

\* Where the elements of the sequences of s are when s is flattened: u[m] is
\* the number of elements of the first m sequences.
LEMMA FlattenIndex ==
  ASSUME NEW S, NEW s \in Seq(Seq(S)), NEW u \in [0..Len(s) -> Nat], u[0] = 0,
         \A m \in 1..Len(s) : u[m] = u[m - 1] + Len(s[m])
  PROVE  /\ Len(FlattenSeq(s)) = u[Len(s)]
         /\ \A m \in 1..Len(s) : \A j \in 1..Len(s[m]) :
              /\ u[m - 1] + j \in 1..u[Len(s)]
              /\ FlattenSeq(s)[u[m - 1] + j] = s[m][j]
<1>1. PICK n : n = Len(s)
  OBVIOUS
<1>2. n \in Nat
  BY <1>1
<1>3. CASE n = 0
  <2>1. FlattenSeq(s) = <<>>
    <3>1. s = <<>>
      BY <1>1, <1>3, LenZero
    <3>2. QED
      BY <3>1 DEF FlattenSeq
  <2>2. QED
    BY <1>1, <1>3, <2>1
<1>4. CASE n # 0
  <2>1. PICK f \in [1..n -> Seq(S)] : Flattens(f, s, n)
    BY <1>1, FlattenExists
  <2>2. FlattenSeq(s) = f[n]
    BY <1>1, <1>4, <2>1, FlattenValue
  <2>3. \A i \in 1..n : f[i] = FlattenStep(f, s, i)
    BY <1>2, <2>1, FlattensAt, Zenon
  <2> DEFINE At(q, k) == /\ Len(q) = u[k]
                         /\ \A m \in 1..k : \A j \in 1..Len(s[m]) :
                              u[m - 1] + j \in 1..u[k] /\ q[u[m - 1] + j] = s[m][j]
             T == {k \in Nat : k \in 1..n => At(f[k], k)}
  <2>4. 0 \in T
    OBVIOUS
  <2>5. ASSUME NEW k \in T PROVE k + 1 \in T
    <3>1. SUFFICES ASSUME k + 1 \in 1..n PROVE At(f[k + 1], k + 1)
      OBVIOUS
    <3>2. /\ k \in Nat /\ k + 1 \in 1..n /\ k + 1 - 1 = k /\ k \in 0..n /\ (k + 1 = 1 <=> k = 0)
          /\ k # 0 => k \in 1..n
      BY <1>2, <3>1
    <3>3. PICK x, y, q : x = f[k] /\ y = s[k + 1] /\ q = f[k + 1]
      OBVIOUS
    <3>4. y \in Seq(S) /\ (k # 0 => x \in Seq(S)) /\ q \in Seq(S)
      <4>1. s[k + 1] \in Seq(S)
        BY <1>1, <3>2
      <4>2. f[k + 1] \in Seq(S) /\ (k # 0 => f[k] \in Seq(S))
        BY <2>1, <3>2
      <4>3. QED
        BY <3>3, <4>1, <4>2
    <3>5. u[k + 1] = u[k] + Len(y) /\ u[k] \in Nat
      BY <1>1, <3>2, <3>3
    <3>6. q = IF k = 0 THEN y ELSE x \o y
      <4>1. f[k + 1] = FlattenStep(f, s, k + 1)
        BY <2>3, <3>2, Zenon
      <4>2. QED
        BY <3>2, <3>3, <4>1 DEF FlattenStep
    <3>7. Len(q) = u[k + 1]
      <4>1. CASE k = 0
        <5>1. q = y /\ u[k] = 0
          BY <3>6, <4>1
        <5>2. QED
          BY <3>4, <3>5, <5>1
      <4>2. CASE k # 0
        <5>1. Len(x) = u[k]
          BY <3>2, <3>3, <4>2
        <5>2. QED
          BY <3>4, <3>5, <3>6, <4>2, <5>1, <3>2
      <4>3. QED
        BY <4>1, <4>2
    <3>8. ASSUME NEW m \in 1..(k + 1), NEW j \in 1..Len(s[m])
          PROVE  u[m - 1] + j \in 1..u[k + 1] /\ q[u[m - 1] + j] = s[m][j]
      <4>1. CASE m = k + 1
        <5>1. j \in 1..Len(y) /\ m - 1 = k /\ s[m] = y
          BY <3>2, <3>3, <3>8, <4>1
        <5>2. q[u[k] + j] = y[j]
          <6>1. CASE k = 0
            BY <3>4, <3>6, <5>1, <6>1
          <6>2. CASE k # 0
            <7>1. Len(x) = u[k]
              BY <3>2, <3>3, <6>2
            <7>2. (x \o y)[Len(x) + j] = y[j]
              BY <3>4, <5>1, <6>2
            <7>3. QED
              BY <3>6, <6>2, <7>1, <7>2
          <6>3. QED
            BY <6>1, <6>2
        <5>3. u[k] + j \in 1..u[k + 1]
          BY <3>4, <3>5, <5>1
        <5>4. QED
          BY <5>1, <5>2, <5>3
      <4>2. CASE m # k + 1
        <5>1. m \in 1..k /\ k # 0
          BY <3>2, <3>8, <4>2
        <5>2. At(x, k)
          BY <3>2, <3>3, <5>1
        <5>3. PICK w : w = u[m - 1] + j
          OBVIOUS
        <5>4. w \in 1..u[k] /\ x[w] = s[m][j] /\ Len(x) = u[k]
          BY <3>8, <5>1, <5>2, <5>3
        <5>5. (x \o y)[w] = x[w]
          BY <3>4, <5>1, <5>4
        <5>6. w \in 1..u[k + 1]
          BY <3>4, <3>5, <5>4
        <5>7. QED
          BY <3>6, <5>1, <5>3, <5>4, <5>5, <5>6
      <4>3. QED
        BY <4>1, <4>2
    <3>9. At(q, k + 1)
      BY <3>7, <3>8
    <3>10. QED
      BY <3>3, <3>9
  <2>6. T = Nat
    <3>1. T \subseteq Nat
      OBVIOUS
    <3> HIDE DEF T
    <3>2. QED
      BY <2>4, <2>5, <3>1, Inductive
  <2>7. n \in 1..n
    BY <1>2, <1>4
  <2>8. At(f[n], n)
    <3> HIDE DEF At
    <3>1. n \in T
      <4> HIDE DEF T
      <4>1. QED
        BY <1>2, <2>6
    <3>2. QED
      BY <2>7, <3>1
  <2>9. QED
    BY <1>1, <2>2, <2>8
<1>5. QED
  BY <1>3, <1>4

\* To flatten singletons.
LEMMA FlattenSingletons ==
  ASSUME NEW S, NEW s \in Seq(S)
  PROVE  FlattenSeq([i \in 1..Len(s) |-> <<s[i]>>]) = s
<1>1. PICK n, a, u : /\ n = Len(s) /\ a = [i \in 1..n |-> <<s[i]>>]
                     /\ u = [i \in 0..n |-> i]
  OBVIOUS
<1>2. n \in Nat /\ \A i \in 1..n : s[i] \in S /\ <<s[i]>> \in Seq(S) /\ Len(<<s[i]>>) = 1
  BY <1>1
<1>3. a \in Seq(Seq(S)) /\ Len(a) = n /\ \A i \in 1..n : a[i] = <<s[i]>>
  BY <1>1, <1>2
<1>4. u \in [0..n -> Nat] /\ u[0] = 0 /\ \A m \in 1..n : u[m] = u[m - 1] + 1 /\ u[m - 1] = m - 1
  BY <1>1, <1>2
<1>5. PICK c : c = FlattenSeq(a)
  OBVIOUS
<1>6. c \in Seq(S)
  BY <1>3, <1>5, FlattenType
<1>7. \A m \in 1..n : u[m] = u[m - 1] + Len(a[m])
  BY <1>2, <1>3, <1>4
<1>8. /\ Len(c) = u[n]
      /\ \A m \in 1..n : \A j \in 1..Len(a[m]) : c[u[m - 1] + j] = a[m][j]
  <2>1. /\ Len(FlattenSeq(a)) = u[Len(a)]
        /\ \A m \in 1..Len(a) : \A j \in 1..Len(a[m]) :
              /\ u[m - 1] + j \in 1..u[Len(a)]
              /\ FlattenSeq(a)[u[m - 1] + j] = a[m][j]
    <3>1. a \in Seq(Seq(S)) /\ u \in [0..Len(a) -> Nat] /\ u[0] = 0
      BY <1>3, <1>4
    <3>2. \A m \in 1..Len(a) : u[m] = u[m - 1] + Len(a[m])
      BY <1>3, <1>7
    <3>3. QED
      BY <3>1, <3>2, FlattenIndex, ZenonT(30)
  <2>2. QED
    BY <1>3, <1>5, <2>1
<1>9. u[n] = n
  BY <1>1, <1>2
<1>10. \A m \in 1..n : c[m] = s[m]
  <2> TAKE m \in 1..n
  <2>1. 1 \in 1..Len(a[m]) /\ u[m - 1] + 1 = m /\ a[m][1] = s[m]
    <3>1. a[m] = <<s[m]>> /\ u[m - 1] = m - 1 /\ m \in Nat
      BY <1>2, <1>3, <1>4
    <3>2. QED
      BY <3>1
  <2>2. QED
    BY <1>8, <2>1
<1>11. c = s
  BY <1>1, <1>6, <1>8, <1>9, <1>10
<1>12. QED
  BY <1>1, <1>5, <1>11

-----------------------------------------------------------------------------
(***************************************************************************)
(* How activations nest, for the proofs about Transmission and Activation. *)
(*                                                                         *)
(* A return needs an activator to go to, and nothing that a co-expression  *)
(* keeps by itself says that it has one.  But activations nest when all    *)
(* activator stacks are taken together: there is a trail of co-expressions *)
(* from &main to &current, each activated by the one before it, and the    *)
(* activator stacks are that trail, dealt out to the co-expressions that   *)
(* were activated.                                                         *)
(*                                                                         *)
(* Stacks are a function acts from co-expressions to sequences of them.    *)
(***************************************************************************)

\* trail[1..top] runs from main, which is its own activator, to cur.
TrailEnds(C, main, cur, top, trail, rank) ==
  /\ top \in Nat /\ top >= 2
  /\ trail \in [Nat -> C] /\ rank \in [Nat -> Nat]
  /\ trail[1] = main /\ trail[2] = main /\ trail[top] = cur

\* What is in front of c on the trail is one of c's activators, number rank[i].
TrailDealt(acts, top, trail, rank) ==
  \A i \in 2..top :
    /\ rank[i] \in 1..Len(acts[trail[i]])
    /\ acts[trail[i]][rank[i]] = trail[i - 1]

\* It has been dealt out in order, and nothing else has.
TrailOrdered(top, trail, rank) ==
  \A i, j \in 2..top : i < j /\ trail[i] = trail[j] => rank[i] < rank[j]
TrailCovers(C, acts, top, trail, rank) ==
  \A c \in C : \A j \in 1..Len(acts[c]) : \E i \in 2..top : trail[i] = c /\ rank[i] = j

Trail(C, acts, main, cur, top, trail, rank) ==
  /\ TrailEnds(C, main, cur, top, trail, rank)
  /\ TrailDealt(acts, top, trail, rank)
  /\ TrailOrdered(top, trail, rank)
  /\ TrailCovers(C, acts, top, trail, rank)

Nest(C, acts, main, cur) == \E top, trail, rank : Trail(C, acts, main, cur, top, trail, rank)

-----------------------------------------------------------------------------
\* At first &main has itself for its activator, and nothing else has one.
LEMMA TrailStarts ==
  ASSUME NEW C, NEW main \in C,
         NEW acts, acts = [c \in C |-> IF c = main THEN <<main>> ELSE <<>>]
  PROVE  Nest(C, acts, main, main)
<1>1. PICK t, r : t = [i \in Nat |-> main] /\ r = [i \in Nat |-> 1]
  OBVIOUS
<1>2. t \in [Nat -> C] /\ r \in [Nat -> Nat] /\ \A i \in Nat : t[i] = main /\ r[i] = 1
  BY <1>1
<1>3. acts[main] = <<main>> /\ \A c \in C \ {main} : acts[c] = <<>>
  OBVIOUS
<1>4. TrailEnds(C, main, main, 2, t, r)
  BY <1>2 DEF TrailEnds
<1>5. TrailDealt(acts, 2, t, r)
  BY <1>2, <1>3 DEF TrailDealt
<1>6. TrailOrdered(2, t, r)
  BY DEF TrailOrdered
<1>7. TrailCovers(C, acts, 2, t, r)
  <2> SUFFICES ASSUME NEW c \in C, NEW j \in 1..Len(acts[c])
               PROVE  \E i \in 2..2 : t[i] = c /\ r[i] = j
    BY DEF TrailCovers
  <2>1. c = main /\ j = 1
    BY <1>3
  <2>2. QED
    BY <1>2, <2>1
<1>8. QED
  BY <1>4, <1>5, <1>6, <1>7 DEF Nest, Trail

\* The running co-expression has an activator unless it is &main, and the last
\* one is in front of it at the end of the trail.
LEMMA HasActivator ==
  ASSUME NEW C, NEW main \in C, NEW cur \in C, NEW acts \in [C -> Seq(C)],
         NEW top, NEW trail, NEW rank, Trail(C, acts, main, cur, top, trail, rank),
         cur # main
  PROVE  /\ acts[cur] # <<>> /\ top > 2
         /\ rank[top] = Len(acts[cur])
         /\ Last(acts[cur]) = trail[top - 1]
<1>1. /\ TrailEnds(C, main, cur, top, trail, rank) /\ TrailDealt(acts, top, trail, rank)
      /\ TrailOrdered(top, trail, rank) /\ TrailCovers(C, acts, top, trail, rank)
  BY DEF Trail
<1>2. top \in Nat /\ top > 2 /\ trail[top] = cur
  BY <1>1 DEF TrailEnds
<1>3. acts[cur] \in Seq(C)
  OBVIOUS
<1>4. /\ rank[top] \in 1..Len(acts[cur])
      /\ acts[cur][rank[top]] = trail[top - 1]
  BY <1>1, <1>2 DEF TrailDealt
<1>5. Len(acts[cur]) \in Nat \ {0}
  BY <1>3, <1>4
<1>6. PICK i \in 2..top : trail[i] = cur /\ rank[i] = Len(acts[cur])
  <2>1. Len(acts[cur]) \in 1..Len(acts[cur])
    BY <1>5
  <2>2. QED
    BY <1>1, <2>1 DEF TrailCovers
<1>7. i < top => rank[i] < rank[top]
  <2>1. top \in 2..top
    BY <1>2
  <2>2. QED
    BY <1>1, <1>2, <1>6, <2>1 DEF TrailOrdered
<1>8. i = top
  BY <1>2, <1>4, <1>5, <1>6, <1>7
<1>9. acts[cur] # <<>>
  BY <1>3, <1>5
<1>10. QED
  BY <1>2, <1>4, <1>6, <1>8, <1>9 DEF Last

\* An activation adds its target to the trail.
LEMMA TrailGrows ==
  ASSUME NEW C, NEW main \in C, NEW cur \in C, NEW acts \in [C -> Seq(C)],
         Nest(C, acts, main, cur),
         NEW n \in C, NEW after, after = [acts EXCEPT ![n] = Append(@, cur)]
  PROVE  Nest(C, after, main, n)
<1>0. PICK top, trail, rank : Trail(C, acts, main, cur, top, trail, rank)
  BY DEF Nest
<1>d. /\ TrailEnds(C, main, cur, top, trail, rank) /\ TrailDealt(acts, top, trail, rank)
      /\ TrailOrdered(top, trail, rank) /\ TrailCovers(C, acts, top, trail, rank)
  BY <1>0 DEF Trail
<1>1. /\ top \in Nat /\ top >= 2
      /\ trail \in [Nat -> C] /\ rank \in [Nat -> Nat]
      /\ trail[1] = main /\ trail[2] = main /\ trail[top] = cur
  BY <1>d DEF TrailEnds
<1>2. PICK len : len = Len(acts[n])
  OBVIOUS
<1>3. /\ len \in Nat /\ Len(after[n]) = len + 1 /\ after[n][len + 1] = cur
      /\ \A j \in 1..len : after[n][j] = acts[n][j]
      /\ \A c \in C \ {n} : after[c] = acts[c]
  <2>1. after[n] = Append(acts[n], cur) /\ acts[n] \in Seq(C)
    OBVIOUS
  <2>2. \A c \in C \ {n} : after[c] = acts[c]
    OBVIOUS
  <2>3. QED
    BY <1>2, <2>1, <2>2, AppendOne
<1>4. PICK k, t, r : /\ k = top + 1 /\ t = [trail EXCEPT ![k] = n]
                     /\ r = [rank EXCEPT ![k] = len + 1]
  OBVIOUS
<1>5. k \in Nat /\ k >= 2 /\ k - 1 = top
  BY <1>1, <1>4
<1>6. \A i \in 2..k : i = k \/ i \in 2..top
  BY <1>1, <1>4
<1>7. \A i \in 1..top : i \in Nat /\ i # k /\ (i # 1 => i \in 2..k /\ i - 1 \in 1..top)
  BY <1>1, <1>4
<1>8. t \in [Nat -> C] /\ r \in [Nat -> Nat] /\ t[k] = n /\ r[k] = len + 1
  <2>1. t \in [Nat -> C] /\ t[k] = n
    BY <1>1, <1>4, <1>5
  <2>2. len + 1 \in Nat
    BY <1>3
  <2>3. r \in [Nat -> Nat] /\ r[k] = len + 1
    BY <1>1, <1>4, <1>5, <2>2
  <2>4. QED
    BY <2>1, <2>3
<1>9. \A i \in 1..top : t[i] = trail[i] /\ r[i] = rank[i]
  BY <1>1, <1>4, <1>7
<1>10. 1 \in 1..top /\ 2 \in 1..top /\ top \in 1..top /\ \A i \in 2..top : i \in 1..top /\ i # 1
  BY <1>1
<1>11. TrailEnds(C, main, n, k, t, r)
  BY <1>1, <1>5, <1>8, <1>9, <1>10 DEF TrailEnds
<1>12. TrailDealt(after, k, t, r)
  <2> SUFFICES ASSUME NEW i \in 2..k
               PROVE  /\ r[i] \in 1..Len(after[t[i]])
                      /\ after[t[i]][r[i]] = t[i - 1]
    BY DEF TrailDealt
  <2>1. CASE i = k
    <3>1. t[i - 1] = cur
      BY <1>1, <1>5, <1>9, <1>10, <2>1
    <3>2. len + 1 \in 1..Len(after[n])
      BY <1>3
    <3>3. QED
      BY <1>3, <1>8, <2>1, <3>1, <3>2
  <2>2. CASE i \in 2..top
    <3>1. t[i] = trail[i] /\ r[i] = rank[i] /\ t[i - 1] = trail[i - 1] /\ trail[i] \in C
      BY <1>1, <1>7, <1>9, <1>10, <2>2
    <3>2. rank[i] \in 1..Len(acts[trail[i]]) /\ acts[trail[i]][rank[i]] = trail[i - 1]
      BY <1>d, <2>2 DEF TrailDealt
    <3>3. CASE trail[i] = n
      BY <1>2, <1>3, <3>1, <3>2, <3>3
    <3>4. CASE trail[i] # n
      BY <1>3, <3>1, <3>2, <3>4
    <3>5. QED
      BY <3>3, <3>4
  <2>3. QED
    BY <1>6, <2>1, <2>2
<1>13. TrailOrdered(k, t, r)
  <2> SUFFICES ASSUME NEW i \in 2..k, NEW j \in 2..k, i < j, t[i] = t[j]
               PROVE  r[i] < r[j]
    BY DEF TrailOrdered
  <2>1. i \in 2..top
    BY <1>1, <1>4
  <2>2. t[i] = trail[i] /\ r[i] = rank[i]
    BY <1>9, <1>10, <2>1
  <2>3. CASE j = k
    <3>1. trail[i] = n
      BY <1>8, <2>2, <2>3
    <3>2. rank[i] \in 1..len
      BY <1>d, <1>2, <2>1, <3>1 DEF TrailDealt
    <3>3. rank[i] < len + 1
      BY <1>3, <3>2
    <3>4. QED
      BY <1>8, <2>2, <2>3, <3>3
  <2>4. CASE j \in 2..top
    <3>1. t[j] = trail[j] /\ r[j] = rank[j]
      BY <1>9, <1>10, <2>4
    <3>2. rank[i] < rank[j]
      BY <1>d, <2>1, <2>2, <2>4, <3>1 DEF TrailOrdered
    <3>3. QED
      BY <2>2, <3>1, <3>2
  <2>5. QED
    BY <1>6, <2>3, <2>4
<1>14. TrailCovers(C, after, k, t, r)
  <2> SUFFICES ASSUME NEW c \in C, NEW j \in 1..Len(after[c])
               PROVE  \E i \in 2..k : t[i] = c /\ r[i] = j
    BY DEF TrailCovers
  <2>1. CASE c = n /\ j = len + 1
    BY <1>5, <1>8, <2>1
  <2>2. CASE ~(c = n /\ j = len + 1)
    <3>1. j \in 1..Len(acts[c])
      BY <1>2, <1>3, <2>2
    <3>2. PICK i \in 2..top : trail[i] = c /\ rank[i] = j
      BY <1>d, <3>1 DEF TrailCovers
    <3>3. i \in 2..k /\ t[i] = c /\ r[i] = j
      BY <1>7, <1>9, <1>10, <3>2
    <3>4. QED
      BY <3>3
  <2>3. QED
    BY <2>1, <2>2
<1>15. QED
  BY <1>11, <1>12, <1>13, <1>14 DEF Nest, Trail

\* A return takes the running co-expression off the trail's end.
LEMMA TrailShrinks ==
  ASSUME NEW C, NEW main \in C, NEW cur \in C, NEW acts \in [C -> Seq(C)],
         Nest(C, acts, main, cur), cur # main,
         NEW after, after = [acts EXCEPT ![cur] = Front(@)]
  PROVE  /\ acts[cur] # <<>>
         /\ Nest(C, after, main, Last(acts[cur]))
<1>0. PICK top, trail, rank : Trail(C, acts, main, cur, top, trail, rank)
  BY DEF Nest
<1>d. /\ TrailEnds(C, main, cur, top, trail, rank) /\ TrailDealt(acts, top, trail, rank)
      /\ TrailOrdered(top, trail, rank) /\ TrailCovers(C, acts, top, trail, rank)
  BY <1>0 DEF Trail
<1>1. /\ top \in Nat /\ trail \in [Nat -> C] /\ rank \in [Nat -> Nat]
      /\ trail[1] = main /\ trail[2] = main /\ trail[top] = cur
  BY <1>d DEF TrailEnds
<1>2. PICK k, len : k = top - 1 /\ len = Len(acts[cur])
  OBVIOUS
<1>3. acts[cur] # <<>> /\ top > 2 /\ rank[top] = len /\ Last(acts[cur]) = trail[k]
  BY <1>0, <1>2, HasActivator
<1>4. /\ len \in Nat \ {0} /\ Len(after[cur]) = len - 1
      /\ \A j \in 1..(len - 1) : after[cur][j] = acts[cur][j]
      /\ \A c \in C \ {cur} : after[c] = acts[c]
  <2>1. after[cur] = Front(acts[cur]) /\ acts[cur] \in Seq(C)
    OBVIOUS
  <2>2. \A c \in C \ {cur} : after[c] = acts[c]
    OBVIOUS
  <2>3. /\ Len(acts[cur]) \in Nat \ {0} /\ Len(after[cur]) = Len(acts[cur]) - 1
        /\ \A j \in 1..(Len(acts[cur]) - 1) : after[cur][j] = acts[cur][j]
    BY <1>3, <2>1, FrontLast
  <2>4. QED
    BY <1>2, <2>2, <2>3
<1>5. k \in Nat /\ k >= 2 /\ top \in 2..top
  BY <1>1, <1>2, <1>3
<1>6. \A i \in 2..k : i \in 2..top /\ i < top /\ i \in Nat
  BY <1>1, <1>2
<1>7. \A i \in 2..top : i = top \/ i \in 2..k
  BY <1>1, <1>2
<1>8. TrailEnds(C, main, Last(acts[cur]), k, trail, rank)
  BY <1>1, <1>3, <1>5 DEF TrailEnds
<1>9. TrailDealt(after, k, trail, rank)
  <2> SUFFICES ASSUME NEW i \in 2..k
               PROVE  /\ rank[i] \in 1..Len(after[trail[i]])
                      /\ after[trail[i]][rank[i]] = trail[i - 1]
    BY DEF TrailDealt
  <2>1. rank[i] \in 1..Len(acts[trail[i]]) /\ acts[trail[i]][rank[i]] = trail[i - 1]
    BY <1>d, <1>6 DEF TrailDealt
  <2>2. CASE trail[i] = cur
    <3>1. rank[i] < rank[top]
      BY <1>d, <1>1, <1>5, <1>6, <2>2 DEF TrailOrdered
    <3>2. rank[i] \in 1..len
      BY <1>2, <2>1, <2>2
    <3>3. rank[i] \in 1..(len - 1)
      BY <1>3, <1>4, <3>1, <3>2
    <3>4. QED
      BY <1>4, <2>1, <2>2, <3>3
  <2>3. CASE trail[i] # cur
    <3>1. trail[i] \in C \ {cur}
      BY <1>1, <1>6, <2>3
    <3>2. QED
      BY <1>4, <2>1, <3>1
  <2>4. QED
    BY <2>2, <2>3
<1>10. TrailOrdered(k, trail, rank)
  BY <1>d, <1>6 DEF TrailOrdered
<1>11. TrailCovers(C, after, k, trail, rank)
  <2> SUFFICES ASSUME NEW c \in C, NEW j \in 1..Len(after[c])
               PROVE  \E i \in 2..k : trail[i] = c /\ rank[i] = j
    BY DEF TrailCovers
  <2>1. j \in 1..Len(acts[c]) /\ (c = cur => j < len)
    BY <1>2, <1>4
  <2>2. PICK i \in 2..top : trail[i] = c /\ rank[i] = j
    BY <1>d, <2>1 DEF TrailCovers
  <2>3. i # top
    BY <1>1, <1>3, <1>4, <2>1, <2>2
  <2>4. QED
    BY <1>7, <2>2, <2>3
<1>12. QED
  BY <1>3, <1>8, <1>9, <1>10, <1>11 DEF Nest, Trail
=============================================================================
