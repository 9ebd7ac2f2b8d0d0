-------------------------- MODULE StringSpaceProofs --------------------------
(***************************************************************************)
(* Proofs about StringSpace: variables keep their values whatever strings  *)
(* are made and however often the space is collected, and a collection     *)
(* keeps each character that is in use once.                               *)
(***************************************************************************)
EXTENDS StringSpace, ProofLemmas, FiniteSetTheorems

\* An int holds the difference of any two addresses of the region.
RegionFits == \A n \in -ssize..ssize : ToInt(n) = n

Cell == Char \cup {Junk}

\* The memory m, a qualifier q of a region that is used up to free, and the
\* text of q.
MemoryOK(m) == m \in [Address -> Cell]
TextIn(m, q) == IF Inside(q) THEN [k \in 1..q.len |-> m[q.loc + k - 1]] ELSE q.text
QualOK(q, free) ==
  \/ \E t \in Seq(Char) : q = Outside(t)
  \/ \E a, n \in Nat : q = At(a, n) /\ strbase <= a /\ a + n <= free
QualsOK(qs, free) ==
  /\ qs = [d \in Var |-> qs[d]]
  /\ \A d \in Var : QualOK(qs[d], free)

\* The invariant.
SpaceOK ==
  /\ MemoryOK(mem)
  /\ strfree \in Nat /\ strbase <= strfree /\ strfree <= strend
  /\ QualsOK(qual, strfree)
  /\ copying \in {<<>>} \cup Var \X Var \X Var

-----------------------------------------------------------------------------
(* Qualifiers.                                                             *)

\* The two kinds of qualifiers.
LEMMA QualFields ==
  ASSUME NEW q, NEW free \in Nat, QualOK(q, free)
  PROVE  /\ q.len \in Nat
         /\ Inside(q) => /\ q.loc \in Nat /\ strbase <= q.loc /\ q.loc + q.len <= free
                         /\ q = At(q.loc, q.len)
         /\ ~Inside(q) => /\ q.loc = 0 /\ q.text \in Seq(Char) /\ q.len = Len(q.text)
                          /\ q = Outside(q.text)
<1>1. CASE \E t \in Seq(Char) : q = Outside(t)
  <2>1. PICK t \in Seq(Char) : q = Outside(t)
    BY <1>1
  <2>2. q.loc = 0 /\ q.len = Len(t) /\ q.text = t /\ Len(t) \in Nat
    BY <2>1 DEF Outside
  <2>3. QED
    BY <2>1, <2>2 DEF Inside
<1>2. CASE \E a, n \in Nat : q = At(a, n) /\ strbase <= a /\ a + n <= free
  <2>1. PICK a \in Nat, n \in Nat : q = At(a, n) /\ strbase <= a /\ a + n <= free
    BY <1>2
  <2>2. q.loc = a /\ q.len = n
    BY <2>1 DEF At
  <2>3. a # 0
    BY <2>1 DEF strbase
  <2>4. QED
    BY <2>1, <2>2, <2>3 DEF Inside
<1>3. QED
  BY <1>1, <1>2 DEF QualOK

\* The text of a qualifier is a string, of its length.
LEMMA TextType ==
  ASSUME NEW q, NEW free \in Nat, free <= strend, QualOK(q, free), NEW m, MemoryOK(m)
  PROVE  TextIn(m, q) \in Seq(Cell) /\ Len(TextIn(m, q)) = q.len
<1>1. CASE Inside(q)
  <2>1. PICK a, n : a = q.loc /\ n = q.len
    OBVIOUS
  <2>2. a \in Nat /\ n \in Nat /\ strbase <= a /\ a + n <= free
    BY <1>1, <2>1, QualFields
  <2>3. \A k \in 1..n : a + k - 1 \in Address
    BY <2>2, SizeAssumption DEF Address, strbase, strend
  <2>4. \A k \in 1..n : m[a + k - 1] \in Cell
    BY <2>3 DEF MemoryOK
  <2>5. TextIn(m, q) = [k \in 1..n |-> m[a + k - 1]]
    BY <1>1, <2>1 DEF TextIn
  <2>6. QED
    BY <2>1, <2>2, <2>4, <2>5
<1>2. CASE ~Inside(q)
  <2>1. TextIn(m, q) = q.text /\ q.text \in Seq(Char) /\ q.len = Len(q.text)
    BY <1>2, QualFields DEF TextIn
  <2>2. Seq(Char) \subseteq Seq(Cell)
    <3>1. Char \subseteq Cell
      BY DEF Cell
    <3>2. QED
      BY <3>1
  <2>3. QED
    BY <2>1, <2>2
<1>3. QED
  BY <1>1, <1>2

\* A qualifier of a region is one of a region that is used further.
LEMMA QualGrows ==
  ASSUME NEW q, NEW free \in Nat, QualOK(q, free), NEW more \in Nat, free <= more
  PROVE  QualOK(q, more)
<1>1. CASE \E t \in Seq(Char) : q = Outside(t)
  BY <1>1 DEF QualOK
<1>2. CASE \E a, n \in Nat : q = At(a, n) /\ strbase <= a /\ a + n <= free
  <2>1. PICK a \in Nat, n \in Nat : q = At(a, n) /\ strbase <= a /\ a + n <= free
    BY <1>2
  <2>2. a + n <= more
    BY <2>1
  <2>3. QED
    BY <2>1, <2>2 DEF QualOK
<1>3. QED
  BY <1>1, <1>2 DEF QualOK

\* What is above the end of the used part does not matter to a text.
LEMMA TextKept ==
  ASSUME NEW q, NEW free \in Nat, QualOK(q, free), NEW m, NEW mm,
         \A a \in Nat : strbase <= a /\ a < free => mm[a] = m[a]
  PROVE  TextIn(mm, q) = TextIn(m, q)
<1>1. CASE Inside(q)
  <2>1. PICK a, n : a = q.loc /\ n = q.len
    OBVIOUS
  <2>2. a \in Nat /\ n \in Nat /\ strbase <= a /\ a + n <= free
    BY <1>1, <2>1, QualFields
  <2>3. \A k \in 1..n : a + k - 1 \in Nat /\ strbase <= a + k - 1 /\ a + k - 1 < free
    BY <2>2 DEF strbase
  <2>4. \A k \in 1..n : mm[a + k - 1] = m[a + k - 1]
    BY <2>3
  <2>5. [k \in 1..n |-> mm[a + k - 1]] = [k \in 1..n |-> m[a + k - 1]]
    BY <2>4
  <2>6. QED
    BY <1>1, <2>1, <2>5 DEF TextIn
<1>2. CASE ~Inside(q)
  BY <1>2 DEF TextIn
<1>3. QED
  BY <1>1, <1>2

-----------------------------------------------------------------------------
(* scollect.  After n qualifiers of the list, those whose clump has been   *)
(* moved are settled, and the others wait for the clump to follow; from    *)
(* source on the memory is as it was.                                      *)

State(c) == c = [mem |-> c.mem, qual |-> c.qual, dest |-> c.dest,
                 source |-> c.source, cend |-> c.cend]

Begins(d) == qual[d].loc
Ends(d) == qual[d].loc + qual[d].len

Settled(c, d) ==
  \E a \in Nat :
    /\ c.qual[d] = At(a, qual[d].len)
    /\ strbase <= a /\ a + qual[d].len <= c.dest
    /\ \A k \in 0..qual[d].len - 1 : c.mem[a + k] = mem[Begins(d) + k]

Waiting(c, d) ==
  /\ c.qual[d] = At(Begins(d) + (c.dest - c.source), qual[d].len)
  /\ c.source <= Begins(d) /\ Ends(d) <= c.cend

\* The addresses of the first n strings of the list.
Cover(list, n) ==
  {a \in Address : \E j \in 1..n : a >= Begins(list[j]) /\ a < Ends(list[j])}

PointersOK(c) ==
  /\ c.dest \in Nat /\ c.source \in Nat /\ c.cend \in Nat
  /\ strbase <= c.dest /\ c.dest <= c.source /\ c.source <= c.cend /\ c.cend <= strfree

CoverOK(c, list, n) ==
  /\ {a \in Cover(list, n) : a >= c.source} = c.source..c.cend - 1
  /\ Cardinality({a \in Cover(list, n) : a < c.source}) = c.dest - strbase

PassOK(c, list, n) ==
  /\ State(c)
  /\ PointersOK(c)
  /\ MemoryOK(c.mem)
  /\ \A a \in Address : a >= c.source => c.mem[a] = mem[a]
  /\ c.qual = [d \in Var |-> c.qual[d]]
  /\ \A d \in Var : (\A j \in 1..n : list[j] # d) => c.qual[d] = qual[d]
  /\ \A j \in 1..n : Settled(c, list[j]) \/ Waiting(c, list[j])
  /\ \A j \in 1..Len(list) : j > n => c.source <= Begins(list[j])
  /\ CoverOK(c, list, n)

\* A list of the strings that are posted, by location.
ListOK(list) ==
  /\ list \in Seq(Var)
  /\ \A j \in 1..Len(list) :
       /\ Begins(list[j]) \in Nat /\ qual[list[j]].len \in Nat
       /\ strbase <= Begins(list[j]) /\ Ends(list[j]) <= strfree
  /\ \A j, k \in 1..Len(list) : j < k => list[j] # list[k] /\ Begins(list[j]) <= Begins(list[k])

\* NextClump, field by field.
LEMMA NextClumpIs ==
  ASSUME NEW c, State(c), NEW a
  PROVE  LET b == NextClump(c, a) IN
         /\ State(b)
         /\ b.mem = Move(c.mem, c.source, c.cend, c.dest)
         /\ b.qual = c.qual
         /\ b.dest = c.dest + (c.cend - c.source)
         /\ b.source = a /\ b.cend = a
<1>1. PICK m, q, d, s, e : c = [mem |-> m, qual |-> q, dest |-> d, source |-> s, cend |-> e]
  BY DEF State
<1>2. /\ c.mem = m /\ c.qual = q /\ c.dest = d /\ c.source = s /\ c.cend = e
  BY <1>1
<1>3. PICK x, y : x = Move(m, s, e, d) /\ y = d + (e - s)
  OBVIOUS
<1>4. NextClump(c, a) = [c EXCEPT !.mem = x, !.dest = y, !.source = a, !.cend = a]
  BY <1>2, <1>3 DEF NextClump
<1>5. NextClump(c, a) = [mem |-> x, qual |-> q, dest |-> y, source |-> a, cend |-> a]
  BY <1>1, <1>4
<1>6. QED
  BY <1>2, <1>3, <1>5 DEF State

\* What Move does: t is m with the characters from s to e at d.
Moved(t, m, s, e, d) ==
  /\ MemoryOK(t)
  /\ \A a \in Address : a < d \/ a >= d + (e - s) => t[a] = m[a]
  /\ \A a \in s..e - 1 : a + (d - s) \in Address /\ t[a + (d - s)] = m[a]

LEMMA MoveIs ==
  ASSUME NEW m, MemoryOK(m), NEW s \in Nat, NEW e \in Nat, NEW d \in Nat,
         strbase <= d, d <= s, s <= e, e <= strend
  PROVE  Moved(Move(m, s, e, d), m, s, e, d)
<1>1. PICK t : t = Move(m, s, e, d)
  OBVIOUS
<1>2. t = [a \in Address |-> IF a \in d..d + (e - s) - 1 THEN m[s + a - d] ELSE m[a]]
  BY <1>1 DEF Move
<1>3. Address \subseteq Int /\ \A a \in Int : a \in Address <=> strbase <= a /\ a <= strend - 1
  BY SizeAssumption DEF Address, strbase, strend
<1>4. strbase \in Int /\ strend \in Int
  BY SizeAssumption DEF strbase, strend
<1>5. MemoryOK(t)
  <2>1. \A a \in Address : a \in d..d + (e - s) - 1 => s + a - d \in Address
    BY <1>3, <1>4
  <2>2. \A a \in Address : a \in d..d + (e - s) - 1 => m[s + a - d] \in Cell
    BY <2>1 DEF MemoryOK
  <2>3. \A a \in Address : m[a] \in Cell
    BY DEF MemoryOK
  <2>4. QED
    BY <1>2, <2>2, <2>3 DEF MemoryOK
<1>6. \A a \in Address : a < d \/ a >= d + (e - s) => t[a] = m[a]
  <2>1. \A a \in Address : a < d \/ a >= d + (e - s) => a \notin d..d + (e - s) - 1
    BY <1>3
  <2>2. QED
    BY <1>2, <2>1
<1>7. \A a \in s..e - 1 : a + (d - s) \in Address /\ t[a + (d - s)] = m[a]
  <2> TAKE a \in s..e - 1
  <2>1. PICK x : x = a + (d - s)
    OBVIOUS
  <2>2. a \in Int /\ x \in Int /\ x \in Address /\ x \in d..d + (e - s) - 1 /\ s + x - d = a
    BY <1>3, <1>4, <2>1
  <2>3. t[x] = m[s + x - d]
    BY <1>2, <2>2
  <2>4. QED
    BY <2>1, <2>2, <2>3
<1>8. QED
  BY <1>1, <1>5, <1>6, <1>7 DEF Moved

\* The addresses of a list are addresses of the region, and there are finitely many.
LEMMA CoverFinite ==
  ASSUME NEW list, NEW n
  PROVE  /\ Cover(list, n) \subseteq Address /\ Cover(list, n) \subseteq Nat
         /\ IsFiniteSet(Cover(list, n))
<1>1. Cover(list, n) \subseteq Address
  BY DEF Cover
<1>2. Address \subseteq Nat /\ IsFiniteSet(Address)
  <2>1. strbase \in Int /\ strend - 1 \in Int /\ strbase >= 0
    BY SizeAssumption DEF strbase, strend
  <2>2. IsFiniteSet(strbase..strend - 1)
    BY <2>1, FS_Interval
  <2>3. QED
    BY <2>1, <2>2 DEF Address
<1>3. QED
  BY <1>1, <1>2, FS_Subset

\* The sizes of a set of addresses below s, and of a clump s..e - 1.
LEMMA CoverBelow ==
  ASSUME NEW U, U \subseteq Nat, IsFiniteSet(U), NEW s \in Nat, NEW e \in Nat, s <= e,
         {x \in U : x >= s} = s..e - 1, NEW a \in Nat, e <= a
  PROVE  /\ {x \in U : x >= a} = {}
         /\ Cardinality({x \in U : x < a}) = Cardinality({x \in U : x < s}) + (e - s)
         /\ Cardinality({x \in U : x < s}) \in Nat
<1>1. PICK low : low = {x \in U : x < s}
  OBVIOUS
<1>2. IsFiniteSet(low) /\ low \in SUBSET U
  BY <1>1, FS_Subset
<1>3. \A x \in U : x \in low \/ x \in s..e - 1
  BY <1>1
<1>4. \A x \in s..e - 1 : x \in U
  OBVIOUS
<1>5. {x \in U : x < a} = low \cup (s..e - 1)
  <2>1. \A x \in low : x \in U /\ x < a
    BY <1>1
  <2>2. \A x \in s..e - 1 : x \in U /\ x < a
    BY <1>4
  <2>3. QED
    BY <1>3, <2>1, <2>2
<1>6. {x \in U : x >= a} = {}
  <2>1. \A x \in low : x < a
    BY <1>1
  <2>2. \A x \in s..e - 1 : x < a
    OBVIOUS
  <2>3. \A x \in U : x \in Nat /\ ~(x >= a)
    BY <1>3, <2>1, <2>2
  <2>4. QED
    BY <2>3
<1>7. low \cap (s..e - 1) = {}
  BY <1>1
<1>8. IsFiniteSet(s..e - 1) /\ Cardinality(s..e - 1) = e - s
  <2>1. s \in Int /\ e - 1 \in Int
    OBVIOUS
  <2>2. /\ IsFiniteSet(s..e - 1)
        /\ Cardinality(s..e - 1) = IF s > e - 1 THEN 0 ELSE (e - 1) - s + 1
    BY <2>1, FS_Interval
  <2>3. QED
    BY <2>2
<1>9. Cardinality(low \cup (s..e - 1))
        = Cardinality(low) + Cardinality(s..e - 1) - Cardinality(low \cap (s..e - 1))
  BY <1>2, <1>8, FS_Union
<1>10. Cardinality(low \cap (s..e - 1)) = 0
  BY <1>7, FS_EmptySet
<1>11. Cardinality(low) \in Nat
  BY <1>2, FS_CardinalityType
<1>12. PICK x, y, z : /\ x = Cardinality(low) /\ y = Cardinality(s..e - 1)
                      /\ z = Cardinality(low \cap (s..e - 1))
  OBVIOUS
<1>13. Cardinality({v \in U : v < a}) = x + (e - s)
  <2>1. Cardinality({v \in U : v < a}) = x + y - z
    BY <1>5, <1>9, <1>12
  <2>2. y = e - s /\ z = 0 /\ x \in Nat
    BY <1>8, <1>10, <1>11, <1>12
  <2>3. QED
    BY <2>1, <2>2
<1>14. Cardinality({v \in U : v < s}) = x /\ x \in Nat
  BY <1>1, <1>11, <1>12
<1>15. QED
  BY <1>6, <1>13, <1>14

\* The clump that is moved is settled, and everything else is as it was.
LEMMA ClumpMoves ==
  ASSUME SpaceOK, NEW list, ListOK(list), NEW n \in 0..Len(list), NEW c, PassOK(c, list, n),
         NEW a \in Nat, c.cend <= a, a <= strfree,
         \A j \in 1..Len(list) : j > n => a <= Begins(list[j])
  PROVE  /\ PassOK(NextClump(c, a), list, n)
         /\ \A j \in 1..n : Settled(NextClump(c, a), list[j])
<1>1. PICK b, m, d, s, e : b = NextClump(c, a) /\ m = c.mem /\ d = c.dest /\ s = c.source /\ e = c.cend
  OBVIOUS
<1>2. /\ d \in Nat /\ s \in Nat /\ e \in Nat /\ strbase <= d /\ d <= s /\ s <= e /\ e <= strfree
      /\ e <= a /\ MemoryOK(m) /\ strfree \in Nat /\ strfree <= strend
      /\ strbase \in Int /\ strend \in Int
  BY <1>1, SizeAssumption DEF PassOK, PointersOK, SpaceOK, strbase, strend
<1>3. /\ State(b) /\ b.mem = Move(m, s, e, d) /\ b.qual = c.qual /\ b.dest = d + (e - s)
      /\ b.source = a /\ b.cend = a
  BY <1>1, NextClumpIs DEF PassOK
<1>4. /\ MemoryOK(b.mem)
      /\ \A x \in Address : x < d \/ x >= d + (e - s) => b.mem[x] = m[x]
      /\ \A x \in s..e - 1 : /\ x + (d - s) \in Address
                             /\ b.mem[x + (d - s)] = m[x]
  <2>1. e <= strend
    BY <1>2
  <2>2. Moved(Move(m, s, e, d), m, s, e, d)
    BY <1>2, <2>1, MoveIs
  <2>3. b.mem = Move(m, s, e, d)
    BY <1>3
  <2>4. QED
    BY <2>2, <2>3 DEF Moved
<1>5. PointersOK(b)
  BY <1>2, <1>3 DEF PointersOK
<1>6. \A x \in Address : x >= b.source => b.mem[x] = mem[x]
  <2> TAKE x \in Address
  <2>1. SUFFICES ASSUME x >= a PROVE b.mem[x] = mem[x]
    BY <1>3
  <2>2. x \in Int /\ x >= d + (e - s) /\ x >= s
    BY <1>2, <2>1 DEF Address
  <2>3. m[x] = mem[x]
    BY <1>1, <2>2 DEF PassOK
  <2>4. QED
    BY <1>4, <2>2, <2>3
<1>7. \A j \in 1..n : Settled(b, list[j])
  <2> TAKE j \in 1..n
  <2>1. PICK v, w, l : v = list[j] /\ w = Begins(v) /\ l = qual[v].len
    OBVIOUS
  <2>2. /\ v \in Var /\ w \in Nat /\ l \in Nat /\ strbase <= w /\ w + l <= strfree /\ Ends(v) = w + l
    <3>1. j \in 1..Len(list)
      OBVIOUS
    <3>2. QED
      BY <2>1, <3>1 DEF ListOK, Begins, Ends
  <2>3. CASE Settled(c, v)
    <3>1. PICK x \in Nat : /\ c.qual[v] = At(x, l) /\ strbase <= x /\ x + l <= d
                           /\ \A k \in 0..l - 1 : m[x + k] = mem[w + k]
      BY <1>1, <2>1, <2>3 DEF Settled
    <3>2. \A k \in 0..l - 1 : x + k \in Address /\ x + k < d
      BY <1>2, <2>2, <3>1 DEF Address
    <3>3. \A k \in 0..l - 1 : b.mem[x + k] = mem[w + k]
      BY <1>4, <3>1, <3>2
    <3>4. x + l <= b.dest /\ b.qual[v] = At(x, l)
      BY <1>2, <1>3, <2>2, <3>1
    <3>5. QED
      BY <2>1, <3>1, <3>3, <3>4 DEF Settled
  <2>4. CASE Waiting(c, v)
    <3>1. c.qual[v] = At(w + (d - s), l) /\ s <= w /\ w + l <= e
      BY <1>1, <2>1, <2>2, <2>4 DEF Waiting
    <3>2. PICK x : x = w + (d - s)
      OBVIOUS
    <3>3. x \in Nat /\ strbase <= x /\ x + l <= b.dest
      BY <1>2, <1>3, <2>2, <3>1, <3>2 DEF strbase
    <3>4. \A k \in 0..l - 1 : b.mem[x + k] = mem[w + k]
      <4> TAKE k \in 0..l - 1
      <4>1. PICK y : y = w + k
        OBVIOUS
      <4>2. y \in s..e - 1 /\ y + (d - s) = x + k /\ y >= s /\ y \in Address
        BY <1>2, <2>2, <3>1, <3>2, <4>1 DEF Address
      <4>3. b.mem[x + k] = m[y]
        BY <1>4, <4>2
      <4>4. m[y] = mem[y]
        BY <1>1, <4>2 DEF PassOK
      <4>5. QED
        BY <4>1, <4>3, <4>4
    <3>5. QED
      BY <1>3, <2>1, <3>1, <3>2, <3>3, <3>4 DEF Settled
  <2>5. QED
    BY <2>1, <2>3, <2>4 DEF PassOK
<1>8. CoverOK(b, list, n)
  <2>1. PICK U : U = Cover(list, n)
    OBVIOUS
  <2>2. U \subseteq Nat /\ IsFiniteSet(U)
    BY <2>1, CoverFinite
  <2>3. {x \in U : x >= s} = s..e - 1 /\ Cardinality({x \in U : x < s}) = d - strbase
    BY <1>1, <2>1 DEF PassOK, CoverOK
  <2>4. /\ {x \in U : x >= a} = {}
        /\ Cardinality({x \in U : x < a}) = Cardinality({x \in U : x < s}) + (e - s)
    BY <1>2, <2>2, <2>3, CoverBelow, ZenonT(30)
  <2>5. a..a - 1 = {}
    OBVIOUS
  <2>6. Cardinality({x \in U : x < a}) = b.dest - strbase
    BY <1>2, <1>3, <2>3, <2>4
  <2>7. QED
    BY <1>3, <2>1, <2>4, <2>5, <2>6 DEF CoverOK
<1>9. PassOK(b, list, n)
  <2>1. /\ b.qual = [v \in Var |-> b.qual[v]]
        /\ \A v \in Var : (\A j \in 1..n : list[j] # v) => b.qual[v] = qual[v]
    BY <1>3 DEF PassOK
  <2>2. \A j \in 1..Len(list) : j > n => b.source <= Begins(list[j])
    BY <1>3
  <2>3. QED
    BY <1>3, <1>4, <1>5, <1>6, <1>7, <1>8, <2>1, <2>2 DEF PassOK
<1>10. QED
  BY <1>1, <1>7, <1>9

\* The clump c with the string of d, relocated.
Joined(c, d) ==
  [c EXCEPT !.cend = Max({@, qual[d].loc + qual[d].len}),
            !.qual[d] = At(qual[d].loc + (c.dest - c.source), qual[d].len)]

LEMMA JoinedIs ==
  ASSUME NEW c, State(c), NEW d \in Var, c.qual = [v \in Var |-> c.qual[v]]
  PROVE  /\ State(Joined(c, d))
         /\ Joined(c, d).mem = c.mem /\ Joined(c, d).dest = c.dest
         /\ Joined(c, d).source = c.source /\ Joined(c, d).cend = Max({c.cend, Ends(d)})
         /\ Joined(c, d).qual = [v \in Var |-> Joined(c, d).qual[v]]
         /\ Joined(c, d).qual[d] = At(Begins(d) + (c.dest - c.source), qual[d].len)
         /\ \A v \in Var \ {d} : Joined(c, d).qual[v] = c.qual[v]
<1>1. PICK m, q, t, s, e : c = [mem |-> m, qual |-> q, dest |-> t, source |-> s, cend |-> e]
  BY DEF State
<1>2. /\ c.mem = m /\ c.qual = q /\ c.dest = t /\ c.source = s /\ c.cend = e
  BY <1>1
<1>3. PICK x, y : x = Max({e, Ends(d)}) /\ y = At(Begins(d) + (t - s), qual[d].len)
  OBVIOUS
<1>4. Joined(c, d) = [c EXCEPT !.cend = x, !.qual[d] = y]
  BY <1>2, <1>3 DEF Joined, Begins, Ends
<1>5. PICK r : r = [q EXCEPT ![d] = y]
  OBVIOUS
<1>6. Joined(c, d) = [mem |-> m, qual |-> r, dest |-> t, source |-> s, cend |-> x]
  BY <1>1, <1>2, <1>4, <1>5
<1>7. q = [v \in Var |-> q[v]]
  BY <1>2
<1>8. r = [v \in Var |-> r[v]] /\ r[d] = y /\ \A v \in Var \ {d} : r[v] = q[v]
  BY <1>5, <1>7
<1>9. QED
  BY <1>2, <1>3, <1>6, <1>8 DEF State

\* A string that begins inside the clump joins it, and waits.
LEMMA ClumpGrows ==
  ASSUME SpaceOK, NEW list, ListOK(list), NEW n \in Nat, n + 1 <= Len(list),
         NEW c, PassOK(c, list, n), Begins(list[n + 1]) <= c.cend
  PROVE  PassOK(Joined(c, list[n + 1]), list, n + 1)
<1>1. PICK v, r, w, l : /\ v = list[n + 1] /\ r = Joined(c, v) /\ w = Begins(v)
                        /\ l = qual[v].len
  OBVIOUS
<1>2. PICK d, s, e, z : d = c.dest /\ s = c.source /\ e = c.cend /\ z = Max({e, w + l})
  OBVIOUS
<1>3. n + 1 \in 1..Len(list) /\ Len(list) \in Nat
  BY DEF ListOK
<1>4. /\ v \in Var /\ w \in Nat /\ l \in Nat /\ strbase <= w /\ w + l <= strfree
      /\ Ends(v) = w + l
  BY <1>1, <1>3 DEF ListOK, Begins, Ends
<1>5. /\ d \in Nat /\ s \in Nat /\ e \in Nat /\ strbase <= d /\ d <= s /\ s <= e /\ e <= strfree
      /\ s <= w /\ w <= e /\ strfree \in Nat /\ strfree <= strend
      /\ strbase \in Int /\ strend \in Int
  <2>1. s <= w
    BY <1>1, <1>2, <1>3 DEF PassOK
  <2>2. QED
    BY <1>1, <1>2, <2>1, SizeAssumption DEF PassOK, PointersOK, SpaceOK, strbase, strend
<1>6. z \in Nat /\ e <= z /\ w + l <= z /\ z <= strfree /\ z \in {e, w + l}
  <2>1. w + l \in Nat
    BY <1>4
  <2>2. z \in Nat /\ e <= z /\ w + l <= z /\ z \in {e, w + l}
    BY <1>2, <1>5, <2>1, MaxTwo
  <2>3. QED
    BY <1>4, <1>5, <2>2
<1>7. /\ State(r) /\ r.mem = c.mem /\ r.dest = d /\ r.source = s /\ r.cend = z
      /\ r.qual = [x \in Var |-> r.qual[x]] /\ r.qual[v] = At(w + (d - s), l)
      /\ \A x \in Var \ {v} : r.qual[x] = c.qual[x]
  <2>1. State(c) /\ c.qual = [x \in Var |-> c.qual[x]]
    BY DEF PassOK
  <2>2. QED
    BY <1>1, <1>2, <1>4, <2>1, JoinedIs
<1>8. PointersOK(r)
  BY <1>5, <1>6, <1>7 DEF PointersOK
<1>9. \A x \in Var : (\A j \in 1..n + 1 : list[j] # x) => r.qual[x] = qual[x]
  <2> TAKE x \in Var
  <2>1. SUFFICES ASSUME \A j \in 1..n + 1 : list[j] # x PROVE r.qual[x] = qual[x]
    OBVIOUS
  <2>2. x # v /\ \A j \in 1..n : list[j] # x
    BY <1>1, <2>1
  <2>3. QED
    BY <1>7, <2>2 DEF PassOK
<1>10. \A j \in 1..n + 1 : Settled(r, list[j]) \/ Waiting(r, list[j])
  <2> TAKE j \in 1..n + 1
  <2>1. CASE j = n + 1
    <3>1. Waiting(r, v)
      BY <1>1, <1>4, <1>5, <1>6, <1>7 DEF Waiting
    <3>2. QED
      BY <1>1, <2>1, <3>1
  <2>2. CASE j # n + 1
    <3>1. j \in 1..n /\ j \in 1..Len(list) /\ j < n + 1
      BY <1>3, <2>2
    <3>2. PICK x : x = list[j]
      OBVIOUS
    <3>3. x \in Var /\ x # v /\ Begins(x) \in Nat /\ qual[x].len \in Nat /\ Ends(x) \in Nat
      BY <1>1, <1>3, <3>1, <3>2 DEF ListOK, Begins, Ends
    <3>4. r.qual[x] = c.qual[x]
      BY <1>7, <3>3
    <3>5. CASE Settled(c, x)
      BY <1>2, <1>7, <3>2, <3>4, <3>5 DEF Settled
    <3>6. CASE Waiting(c, x)
      <4>1. Ends(x) <= e
        BY <1>2, <3>6 DEF Waiting
      <4>2. Ends(x) <= z
        BY <1>5, <1>6, <3>3, <4>1
      <4>3. QED
        BY <1>2, <1>7, <3>2, <3>4, <3>6, <4>2 DEF Waiting
    <3>7. QED
      BY <3>1, <3>2, <3>5, <3>6 DEF PassOK
  <2>3. QED
    BY <2>1, <2>2
<1>11. CoverOK(r, list, n + 1)
  <2>1. PICK U, W : U = Cover(list, n) /\ W = Cover(list, n + 1)
    OBVIOUS
  <2>2. U \subseteq Nat /\ W \subseteq Nat /\ U \subseteq Address /\ W \subseteq Address
    BY <2>1, CoverFinite
  <2>3. \A x \in Address : x \in W <=> x \in U \/ (x >= w /\ x < w + l)
    <3> TAKE x \in Address
    <3>1. x \in U <=> \E j \in 1..n : x >= Begins(list[j]) /\ x < Ends(list[j])
      BY <2>1 DEF Cover
    <3>2. x \in W <=> \E j \in 1..n + 1 : x >= Begins(list[j]) /\ x < Ends(list[j])
      BY <2>1 DEF Cover
    <3>3. \A j : j \in 1..n + 1 <=> j \in 1..n \/ j = n + 1
      OBVIOUS
    <3>4. Begins(list[n + 1]) = w /\ Ends(list[n + 1]) = w + l
      BY <1>1, <1>4
    <3>5. QED
      BY <3>1, <3>2, <3>3, <3>4
  <2>4. {x \in U : x >= s} = s..e - 1 /\ Cardinality({x \in U : x < s}) = d - strbase
    BY <1>2, <2>1 DEF PassOK, CoverOK
  <2>5. {x \in W : x >= s} = s..z - 1
    <3>1. ASSUME NEW x, x \in W, x >= s PROVE x \in s..z - 1
      <4>1. x \in Nat /\ x \in Address
        BY <2>2, <3>1
      <4>2. CASE x \in U
        <5>1. x \in s..e - 1
          BY <2>4, <3>1, <4>2
        <5>2. QED
          BY <1>5, <1>6, <5>1
      <4>3. CASE x >= w /\ x < w + l
        BY <1>4, <1>5, <1>6, <3>1, <4>1, <4>3
      <4>4. QED
        BY <2>3, <3>1, <4>1, <4>2, <4>3
    <3>2. ASSUME NEW x \in s..z - 1 PROVE x \in W /\ x >= s
      <4>1. x \in Int /\ x >= s /\ x < z /\ x \in Address
        BY <1>5, <1>6 DEF Address
      <4>2. CASE x < e
        <5>1. x \in s..e - 1
          BY <1>5, <4>1, <4>2
        <5>2. x \in U
          BY <2>4, <5>1
        <5>3. QED
          BY <2>3, <4>1, <5>2
      <4>3. CASE x >= e
        <5>1. x >= w /\ x < w + l
          BY <1>4, <1>5, <1>6, <4>1, <4>3
        <5>2. QED
          BY <2>3, <4>1, <5>1
      <4>4. QED
        BY <1>5, <4>1, <4>2, <4>3
    <3>3. QED
      BY <3>1, <3>2
  <2>6. {x \in W : x < s} = {x \in U : x < s}
    <3>1. \A x \in Nat : x < s => ~(x >= w)
      BY <1>4, <1>5
    <3>2. QED
      BY <2>2, <2>3, <3>1
  <2>7. QED
    BY <1>7, <2>1, <2>4, <2>5, <2>6 DEF CoverOK
<1>12. QED
  <2>1. /\ MemoryOK(r.mem) /\ \A x \in Address : x >= r.source => r.mem[x] = mem[x]
    BY <1>2, <1>7 DEF PassOK
  <2>2. \A j \in 1..Len(list) : j > n + 1 => r.source <= Begins(list[j])
    <3>1. \A j \in 1..Len(list) : j > n + 1 => j > n
      OBVIOUS
    <3>2. QED
      BY <1>2, <1>7, <3>1 DEF PassOK
  <2>3. PassOK(r, list, n + 1)
    BY <1>7, <1>8, <1>9, <1>10, <1>11, <2>1, <2>2 DEF PassOK
  <2>4. QED
    BY <1>1, <2>3

\* One turn of the loop.
LEMMA RelocateKeeps ==
  ASSUME SpaceOK, NEW list, ListOK(list), NEW n \in Nat, n + 1 <= Len(list),
         NEW c, PassOK(c, list, n)
  PROVE  PassOK(Relocate(c, list[n + 1]), list, n + 1)
<1>1. PICK v, w : v = list[n + 1] /\ w = Begins(v)
  OBVIOUS
<1>2. PICK b : b = IF w > c.cend THEN NextClump(c, w) ELSE c
  OBVIOUS
<1>3. Relocate(c, v) = Joined(b, v)
  BY <1>1, <1>2 DEF Relocate, Joined, Begins
<1>4. n + 1 \in 1..Len(list) /\ Len(list) \in Nat /\ n \in 0..Len(list)
  BY DEF ListOK
<1>5. /\ w \in Nat /\ w <= strfree /\ c.cend \in Nat
      /\ \A j \in 1..Len(list) : j > n => w <= Begins(list[j])
  <2>1. w \in Nat /\ qual[v].len \in Nat /\ Ends(v) <= strfree /\ Ends(v) = w + qual[v].len
    BY <1>1, <1>4 DEF ListOK, Begins, Ends
  <2>2. c.cend \in Nat /\ strfree \in Nat
    BY DEF PassOK, PointersOK, SpaceOK
  <2>3. ASSUME NEW j \in 1..Len(list), j > n PROVE w <= Begins(list[j])
    <3>1. CASE j = n + 1
      BY <1>1, <2>1, <3>1
    <3>2. CASE n + 1 < j
      BY <1>1, <1>4, <3>2 DEF ListOK
    <3>3. QED
      BY <2>3, <3>1, <3>2
  <2>4. QED
    BY <2>1, <2>2, <2>3
<1>6. PassOK(b, list, n) /\ w <= b.cend
  <2>1. CASE w > c.cend
    <3>1. c.cend <= w
      BY <1>5, <2>1
    <3>2. PassOK(NextClump(c, w), list, n)
      BY <1>4, <1>5, <3>1, ClumpMoves
    <3>3. NextClump(c, w).cend = w
      BY NextClumpIs DEF PassOK
    <3>4. QED
      BY <1>2, <1>5, <2>1, <3>2, <3>3
  <2>2. CASE ~(w > c.cend)
    BY <1>2, <1>5, <2>2
  <2>3. QED
    BY <2>1, <2>2
<1>7. PassOK(Joined(b, list[n + 1]), list, n + 1)
  BY <1>1, <1>6, ClumpGrows
<1>8. QED
  BY <1>1, <1>3, <1>7

\* What scollect knows at first.
Start(list) == LET first == qual[Head(list)].loc
               IN [mem |-> mem, qual |-> qual, dest |-> strbase,
                   source |-> first, cend |-> first]

\* The equations of Passes: the first n of its values exist, for every n.
LEMMA PassesIs ==
  ASSUME NEW list, Len(list) \in Nat
  PROVE  /\ Passes(list)[0] = Start(list)
         /\ \A n \in 1..Len(list) : Passes(list)[n] = Relocate(Passes(list)[n - 1], list[n])
<1>1. PICK L, x : L = Len(list) /\ x = Start(list)
  OBVIOUS
<1> DEFINE Body(f) == [n \in 0..L |-> IF n = 0 THEN x ELSE Relocate(f[n - 1], list[n])]
           Part(f, k) == f[0] = x /\ \A n \in 1..k : f[n] = Relocate(f[n - 1], list[n])
           T == {k \in Nat : \E f : Part(f, k)}
<1>2. 0 \in T
  <2>1. Part([n \in {0} |-> x], 0)
    OBVIOUS
  <2>2. QED
    BY <2>1
<1>3. ASSUME NEW k \in T PROVE k + 1 \in T
  <2>1. PICK f : Part(f, k)
    BY <1>3
  <2>2. PICK g : g = [n \in 0..k + 1 |-> IF n = k + 1 THEN Relocate(f[k], list[k + 1]) ELSE f[n]]
    OBVIOUS
  <2>3. k \in Nat /\ 0 \in 0..k + 1 /\ 0 # k + 1
    OBVIOUS
  <2>4. g[0] = x
    BY <2>1, <2>2, <2>3
  <2>5. ASSUME NEW n \in 1..k + 1 PROVE g[n] = Relocate(g[n - 1], list[n])
    <3>1. n \in 0..k + 1 /\ n - 1 \in 0..k + 1 /\ n - 1 # k + 1
      BY <2>3
    <3>2. g[n - 1] = f[n - 1]
      BY <2>2, <3>1
    <3>3. CASE n = k + 1
      <4>1. g[n] = Relocate(f[k], list[k + 1]) /\ n - 1 = k
        BY <2>2, <2>3, <3>1, <3>3
      <4>2. QED
        BY <3>2, <3>3, <4>1
    <3>4. CASE n # k + 1
      <4>1. n \in 1..k
        BY <2>3, <3>4
      <4>2. g[n] = f[n]
        BY <2>2, <3>1, <3>4
      <4>3. f[n] = Relocate(f[n - 1], list[n])
        BY <2>1, <4>1
      <4>4. QED
        BY <3>2, <4>2, <4>3
    <3>5. QED
      BY <3>3, <3>4
  <2>6. Part(g, k + 1)
    BY <2>4, <2>5
  <2> HIDE DEF Part
  <2>7. QED
    BY <2>3, <2>6
<1>4. L \in T
  <2>1. T \subseteq Nat
    OBVIOUS
  <2> HIDE DEF T
  <2>2. T = Nat
    BY <1>2, <1>3, <2>1, Inductive
  <2>3. QED
    BY <1>1, <2>2
<1>5. PICK f : Part(f, L)
  BY <1>4
<1>6. PICK g : g = [n \in 0..L |-> f[n]]
  OBVIOUS
<1>7. g = Body(g)
  <2>1. \A n \in 0..L : g[n] = f[n]
    BY <1>6
  <2>2. \A n \in 0..L : n # 0 => n \in 1..L /\ n - 1 \in 0..L
    BY <1>1
  <2>3. \A n \in 0..L : g[n] = IF n = 0 THEN x ELSE Relocate(g[n - 1], list[n])
    BY <1>5, <2>1, <2>2
  <2>4. QED
    BY <1>6, <2>1, <2>3
<1>8. PICK u : u = CHOOSE h : h = Body(h)
  OBVIOUS
<1>9. u = Body(u)
  <2> HIDE DEF Body
  <2>1. \E h : h = Body(h)
    BY <1>7
  <2>2. QED
    BY <1>8, <2>1
<1>10. Passes(list) = u
  BY <1>1, <1>8 DEF Passes, Start
<1>11. u[0] = x /\ \A n \in 1..L : u[n] = Relocate(u[n - 1], list[n])
  <2>1. 0 \in 0..L /\ \A n \in 1..L : n \in 0..L /\ n # 0
    BY <1>1
  <2>2. QED
    BY <1>9, <2>1
<1>12. QED
  BY <1>1, <1>10, <1>11

\* The loop.
LEMMA LoopKeeps ==
  ASSUME SpaceOK, NEW list, ListOK(list), Len(list) # 0
  PROVE  PassOK(Passes(list)[Len(list)], list, Len(list))
<1>1. PICK L, f : L = Len(list) /\ f = Passes(list)
  OBVIOUS
<1>2. L \in Nat /\ L # 0 /\ 1 \in 1..Len(list)
  BY <1>1 DEF ListOK
<1>3. f[0] = Start(list) /\ \A n \in 1..L : f[n] = Relocate(f[n - 1], list[n])
  BY <1>1, <1>2, PassesIs
<1>4. PassOK(f[0], list, 0)
  <2>1. PICK c, w : c = f[0] /\ w = Begins(list[1])
    OBVIOUS
  <2>2. Head(list) = list[1]
    BY <1>1, <1>2 DEF ListOK
  <2>3. c = [mem |-> mem, qual |-> qual, dest |-> strbase, source |-> w, cend |-> w]
    BY <1>3, <2>1, <2>2 DEF Start, Begins
  <2>4. /\ c.mem = mem /\ c.qual = qual /\ c.dest = strbase /\ c.source = w /\ c.cend = w
        /\ State(c)
    BY <2>3 DEF State
  <2>5. w \in Nat /\ strbase <= w /\ w <= strfree /\ strbase \in Nat
    <3>1. /\ w \in Nat /\ qual[list[1]].len \in Nat /\ strbase <= w /\ Ends(list[1]) <= strfree
          /\ Ends(list[1]) = w + qual[list[1]].len
      BY <1>2, <2>1 DEF ListOK, Begins, Ends
    <3>2. strfree \in Nat /\ strbase \in Nat
      BY DEF SpaceOK, strbase
    <3>3. QED
      BY <3>1, <3>2
  <2>6. PointersOK(c)
    BY <2>4, <2>5 DEF PointersOK
  <2>7. \A j \in 1..Len(list) : j > 0 => c.source <= Begins(list[j])
    <3> TAKE j \in 1..Len(list)
    <3>1. CASE j = 1
      BY <2>1, <2>4, <2>5, <3>1
    <3>2. CASE 1 < j
      BY <1>2, <2>1, <2>4, <3>2 DEF ListOK
    <3>3. QED
      BY <3>1, <3>2
  <2>8. CoverOK(c, list, 0)
    <3>1. Cover(list, 0) = {}
      BY DEF Cover
    <3>2. PICK U : U = Cover(list, 0)
      OBVIOUS
    <3>3. {a \in U : a >= c.source} = {} /\ {a \in U : a < c.source} = {}
      BY <3>1, <3>2
    <3>4. w..w - 1 = {} /\ strbase - strbase = 0
      BY <2>5
    <3>5. Cardinality({}) = 0
      BY FS_EmptySet
    <3>6. QED
      BY <2>4, <3>2, <3>3, <3>4, <3>5 DEF CoverOK
  <2>9. MemoryOK(c.mem) /\ c.qual = [d \in Var |-> c.qual[d]]
    BY <2>4 DEF SpaceOK, QualsOK
  <2>10. QED
    BY <2>1, <2>4, <2>6, <2>7, <2>8, <2>9 DEF PassOK
<1> DEFINE T == {n \in Nat : n <= L => PassOK(f[n], list, n)}
<1>5. 0 \in T
  BY <1>4
<1>6. ASSUME NEW n \in T PROVE n + 1 \in T
  <2>1. n \in Nat /\ n + 1 \in Nat
    OBVIOUS
  <2>2. SUFFICES ASSUME n + 1 <= L PROVE PassOK(f[n + 1], list, n + 1)
    BY <2>1
  <2>3. PassOK(f[n], list, n)
    BY <1>2, <2>1, <2>2
  <2>4. n + 1 \in 1..L /\ n + 1 - 1 = n
    BY <1>2, <2>1, <2>2
  <2>5. f[n + 1] = Relocate(f[n], list[n + 1])
    BY <1>3, <2>4
  <2>6. PassOK(Relocate(f[n], list[n + 1]), list, n + 1)
    BY <1>1, <2>1, <2>2, <2>3, RelocateKeeps
  <2>7. QED
    BY <2>5, <2>6
<1>7. T = Nat
  <2>1. T \subseteq Nat
    OBVIOUS
  <2> HIDE DEF T
  <2>2. QED
    BY <1>5, <1>6, <2>1, Inductive
<1>8. L \in T
  BY <1>2, <1>7
<1>9. QED
  BY <1>1, <1>2, <1>8

\* Numbers each of which is not below the one before it are in order.
LEMMA InOrder ==
  ASSUME NEW L \in Nat, NEW f, \A j \in 1..L : f[j] \in Nat,
         \A j \in 1..L - 1 : f[j] <= f[j + 1]
  PROVE  \A j, k \in 1..L : j < k => f[j] <= f[k]
<1>1. SUFFICES ASSUME NEW j \in 1..L PROVE \A k \in 1..L : j < k => f[j] <= f[k]
  OBVIOUS
<1> DEFINE T == {n \in Nat : j + n <= L => f[j] <= f[j + n]}
<1>2. 0 \in T
  <2>1. f[j] \in Nat /\ j + 0 = j
    OBVIOUS
  <2>2. QED
    BY <2>1
<1>3. ASSUME NEW n \in T PROVE n + 1 \in T
  <2>1. n \in Nat /\ n + 1 \in Nat
    OBVIOUS
  <2>2. SUFFICES ASSUME j + (n + 1) <= L PROVE f[j] <= f[j + (n + 1)]
    BY <2>1
  <2>3. PICK x : x = j + n
    OBVIOUS
  <2>4. x \in 1..L - 1 /\ x + 1 \in 1..L /\ x \in 1..L /\ x + 1 = j + (n + 1)
    BY <2>1, <2>2, <2>3
  <2>5. f[j] <= f[x]
    BY <2>1, <2>3, <2>4
  <2>6. f[x] <= f[x + 1] /\ f[x] \in Nat /\ f[x + 1] \in Nat /\ f[j] \in Nat
    BY <2>4
  <2>7. QED
    BY <2>4, <2>5, <2>6
<1>4. T = Nat
  <2>1. T \subseteq Nat
    OBVIOUS
  <2> HIDE DEF T
  <2>2. QED
    BY <1>2, <1>3, <2>1, Inductive
<1>5. QED
  <2> TAKE k \in 1..L
  <2>1. SUFFICES ASSUME j < k PROVE f[j] <= f[k]
    OBVIOUS
  <2>2. PICK n : n = k - j
    OBVIOUS
  <2>3. n \in Nat /\ j + n = k /\ k <= L
    BY <2>1, <2>2
  <2>4. n \in T
    BY <1>4, <2>3
  <2>5. QED
    BY <2>3, <2>4

\* Every variable whose string is in the region is posted.
LEMMA PostedIs ==
  ASSUME SpaceOK
  PROVE  /\ Posted = {d \in Var : Inside(qual[d])}
         /\ IsFiniteSet(Posted)
         /\ \A d \in Posted : /\ Begins(d) \in Nat /\ qual[d].len \in Nat
                              /\ strbase <= Begins(d) /\ Ends(d) <= strfree
<1>1. strfree \in Nat
  BY DEF SpaceOK
<1>2. ASSUME NEW d \in Var, Inside(qual[d])
      PROVE  /\ Begins(d) \in Nat /\ qual[d].len \in Nat
             /\ strbase <= Begins(d) /\ Ends(d) <= strfree /\ qual[d].loc <= strfree
  <2>1. QualOK(qual[d], strfree)
    BY DEF SpaceOK, QualsOK
  <2>2. PICK a, n : a = qual[d].loc /\ n = qual[d].len
    OBVIOUS
  <2>3. a \in Nat /\ n \in Nat /\ strbase <= a /\ a + n <= strfree
    BY <1>1, <1>2, <2>1, <2>2, QualFields
  <2>4. a <= strfree
    BY <1>1, <2>3
  <2>5. QED
    BY <2>2, <2>3, <2>4 DEF Begins, Ends
<1>3. Posted = {d \in Var : Inside(qual[d])}
  BY <1>2 DEF Posted
<1>4. IsFiniteSet(Posted)
  <2>1. Posted \in SUBSET Var
    BY <1>3
  <2>2. QED
    BY <2>1, VarAssumption, FS_Subset
<1>5. QED
  BY <1>2, <1>3, <1>4

\* qsort leaves the list in the order of the addresses, if an int can hold the
\* difference of two of them.
LEMMA ListsAreOrdered ==
  ASSUME RegionFits, SpaceOK, NEW list \in Lists
  PROVE  /\ ListOK(list)
         /\ \A d \in Var : Inside(qual[d]) <=> \E j \in 1..Len(list) : list[j] = d
<1>1. PICK n : n = Cardinality(Posted)
  OBVIOUS
<1>2. n \in Nat
  BY <1>1, PostedIs, FS_CardinalityType
<1>3. /\ list \in [1..n -> Posted] /\ Sorted(list)
      /\ \A j, k \in 1..n : j # k => list[j] # list[k]
  BY <1>1 DEF Lists, SetToSeqs
<1>4. list \in Seq(Var) /\ Len(list) = n
  <2>1. list \in Seq(Posted) /\ Len(list) = n
    BY <1>2, <1>3
  <2>2. Posted \subseteq Var
    BY DEF Posted
  <2>3. QED
    BY <2>1, <2>2
<1>5. \A j \in 1..n : /\ list[j] \in Posted
                      /\ Begins(list[j]) \in Nat /\ qual[list[j]].len \in Nat
                      /\ strbase <= Begins(list[j]) /\ Ends(list[j]) <= strfree
  BY <1>3, PostedIs
<1>6. \A d \in Posted : \E j \in 1..n : list[j] = d
  <2>1. list \in Injection(1..n, Posted)
    BY <1>3 DEF Injection, IsInjective
  <2>2. IsFiniteSet(1..n) /\ Cardinality(1..n) = n
    <3>1. 1 \in Int /\ n \in Int
      BY <1>2
    <3>2. IsFiniteSet(1..n) /\ Cardinality(1..n) = IF 1 > n THEN 0 ELSE n - 1 + 1
      BY <3>1, FS_Interval
    <3>3. QED
      BY <1>2, <3>2
  <2>3. list \in Surjection(1..n, Posted)
    BY <1>1, <2>1, <2>2, PostedIs, FS_Injection
  <2>4. QED
    BY <2>3 DEF Surjection
<1>7. \A j \in 1..n - 1 : Begins(list[j]) <= Begins(list[j + 1])
  <2> TAKE j \in 1..n - 1
  <2>1. PICK a, b : a = Begins(list[j]) /\ b = Begins(list[j + 1])
    OBVIOUS
  <2>2. j \in 1..n /\ j + 1 \in 1..n /\ j \in 1..Len(list) - 1
    BY <1>2, <1>4
  <2>3. a \in Nat /\ b \in Nat /\ strbase <= a /\ strbase <= b
    BY <1>5, <2>1, <2>2
  <2>4. a <= strend /\ b <= strend
    <3>1. /\ Ends(list[j]) <= strfree /\ Ends(list[j]) = a + qual[list[j]].len
          /\ qual[list[j]].len \in Nat
      BY <1>5, <2>1, <2>2 DEF Ends, Begins
    <3>2. /\ Ends(list[j + 1]) <= strfree /\ Ends(list[j + 1]) = b + qual[list[j + 1]].len
          /\ qual[list[j + 1]].len \in Nat
      BY <1>5, <2>1, <2>2 DEF Ends, Begins
    <3>3. strfree \in Nat /\ strfree <= strend /\ strend \in Nat
      BY SizeAssumption DEF SpaceOK, strend, strbase
    <3>4. PICK x, y : x = qual[list[j]].len /\ y = qual[list[j + 1]].len
      OBVIOUS
    <3>5. x \in Nat /\ y \in Nat /\ a + x <= strfree /\ b + y <= strfree
      BY <3>1, <3>2, <3>4
    <3>6. QED
      BY <2>3, <3>3, <3>5
  <2>5. qlcmp(qual[list[j]], qual[list[j + 1]]) <= 0
    BY <1>3, <2>2 DEF Sorted
  <2>6. ToInt(a - b) <= 0
    BY <2>1, <2>5 DEF qlcmp, Begins
  <2>7. a - b \in -ssize..ssize
    BY <2>3, <2>4, SizeAssumption DEF strend, strbase
  <2>8. ToInt(a - b) = a - b
    BY <2>7 DEF RegionFits
  <2>9. QED
    BY <2>1, <2>3, <2>6, <2>8
<1>8. \A j, k \in 1..n : j < k => Begins(list[j]) <= Begins(list[k])
  <2>1. PICK f : f = [j \in 1..n |-> Begins(list[j])]
    OBVIOUS
  <2>2. \A j \in 1..n : f[j] \in Nat /\ f[j] = Begins(list[j])
    BY <1>5, <2>1
  <2>3. \A j \in 1..n - 1 : f[j] <= f[j + 1]
    <3>1. \A j \in 1..n - 1 : j \in 1..n /\ j + 1 \in 1..n
      BY <1>2
    <3>2. QED
      BY <1>7, <2>2, <3>1
  <2>4. \A j, k \in 1..n : j < k => f[j] <= f[k]
    BY <1>2, <2>2, <2>3, InOrder
  <2>5. QED
    BY <2>2, <2>4
<1>9. ListOK(list)
  <2>1. \A j, k \in 1..n : j < k => list[j] # list[k]
    <3>1. \A j, k \in 1..n : j < k => j # k
      BY <1>2
    <3>2. QED
      BY <1>3, <3>1
  <2>2. QED
    BY <1>4, <1>5, <1>8, <2>1 DEF ListOK
<1>10. QED
  <2>1. \A d \in Var : Inside(qual[d]) <=> d \in Posted
    BY PostedIs
  <2>2. QED
    BY <1>4, <1>5, <1>6, <1>9, <2>1

\* The text of a settled string is the one it had.
LEMMA SettledText ==
  ASSUME SpaceOK, NEW d \in Var, Inside(qual[d]), NEW c, NEW list, NEW n, PassOK(c, list, n),
         Settled(c, d), c.dest <= strend
  PROVE  /\ QualOK(c.qual[d], c.dest)
         /\ TextIn(Forget(c.mem, c.dest), c.qual[d]) = TextIn(mem, qual[d])
<1>1. PICK m, w, l, free : m = c.mem /\ w = Begins(d) /\ l = qual[d].len /\ free = c.dest
  OBVIOUS
<1>2. PICK a \in Nat : /\ c.qual[d] = At(a, l) /\ strbase <= a /\ a + l <= free
                       /\ \A k \in 0..l - 1 : m[a + k] = mem[w + k]
  BY <1>1 DEF Settled
<1>3. l \in Nat /\ free \in Nat /\ free <= strend /\ w \in Nat /\ qual[d].loc = w
  <2>1. QualOK(qual[d], strfree) /\ strfree \in Nat
    BY DEF SpaceOK, QualsOK
  <2>2. qual[d].len \in Nat /\ qual[d].loc \in Nat
    BY <2>1, QualFields
  <2>3. QED
    BY <1>1, <2>2 DEF PassOK, PointersOK, Begins
<1>4. QualOK(c.qual[d], free)
  BY <1>2, <1>3 DEF QualOK
<1>5. c.qual[d].loc = a /\ c.qual[d].len = l /\ Inside(c.qual[d])
  BY <1>2 DEF At, Inside, strbase
<1>6. TextIn(Forget(m, free), c.qual[d]) = [k \in 1..l |-> Forget(m, free)[a + k - 1]]
  BY <1>5 DEF TextIn
<1>7. TextIn(mem, qual[d]) = [k \in 1..l |-> mem[w + k - 1]]
  BY <1>1, <1>3 DEF TextIn
<1>8. \A k \in 1..l : Forget(m, free)[a + k - 1] = mem[w + k - 1]
  <2> TAKE k \in 1..l
  <2>1. PICK x : x = k - 1
    OBVIOUS
  <2>2. x \in 0..l - 1 /\ a + k - 1 = a + x /\ w + k - 1 = w + x
    BY <1>2, <1>3, <2>1
  <2>3. a + x \in Address /\ a + x < free
    BY <1>2, <1>3, <2>2, SizeAssumption DEF Address, strbase, strend
  <2>4. Forget(m, free)[a + x] = m[a + x]
    BY <2>3 DEF Forget
  <2>5. m[a + x] = mem[w + x]
    BY <1>2, <2>2
  <2>6. QED
    BY <2>2, <2>4, <2>5
<1>9. QED
  BY <1>1, <1>4, <1>6, <1>7, <1>8

\* What Covered counts are the addresses of the list.
LEMMA CoveredIs ==
  ASSUME NEW list, NEW n, \A j \in 1..n : list[j] \in Var,
         \A d \in Var : Inside(qual[d]) <=> \E j \in 1..n : list[j] = d
  PROVE  Covered(qual) = Cover(list, n)
<1>1. Covered(qual) = {a \in Address : \E d \in Var : Inside(qual[d]) /\ a >= Begins(d) /\ a < Ends(d)}
  BY DEF Covered, Begins, Ends
<1>2. \A a : (\E d \in Var : Inside(qual[d]) /\ a >= Begins(d) /\ a < Ends(d))
               <=> \E j \in 1..n : a >= Begins(list[j]) /\ a < Ends(list[j])
  OBVIOUS
<1>3. QED
  BY <1>1, <1>2 DEF Cover

\* What is forgotten leaves a memory.
LEMMA ForgetType ==
  ASSUME NEW m, MemoryOK(m), NEW free
  PROVE  MemoryOK(Forget(m, free))
  BY DEF MemoryOK, Forget, Cell

\* The whole of scollect.
LEMMA ScollectKeeps ==
  ASSUME RegionFits, SpaceOK, NEW list \in Lists, scollect(list)
  PROVE  /\ MemoryOK(mem')
         /\ strfree' \in Nat /\ strbase <= strfree' /\ strfree' <= strend
         /\ QualsOK(qual', strfree')
         /\ \A d \in Var : TextIn(mem', qual'[d]) = TextIn(mem, qual[d])
         /\ strfree' - strbase = Cardinality(Covered(qual))
<1>1. PICK L, mm, ff, qq : L = Len(list) /\ mm = mem' /\ ff = strfree' /\ qq = qual'
  OBVIOUS
<1>2. /\ ListOK(list) /\ L \in Nat
      /\ \A d \in Var : Inside(qual[d]) <=> \E j \in 1..L : list[j] = d
      /\ \A j \in 1..L : list[j] \in Var
  <2>1. ListOK(list) /\ \A d \in Var : Inside(qual[d]) <=> \E j \in 1..Len(list) : list[j] = d
    BY ListsAreOrdered
  <2>2. QED
    BY <1>1, <2>1 DEF ListOK
<1>3. /\ strfree \in Nat /\ strbase \in Nat /\ strbase <= strfree /\ strfree <= strend
      /\ strend \in Nat /\ MemoryOK(mem) /\ qual = [d \in Var |-> qual[d]]
      /\ \A d \in Var : QualOK(qual[d], strfree)
  BY SizeAssumption DEF SpaceOK, QualsOK, strbase, strend
<1>4. Covered(qual) = Cover(list, L)
  BY <1>2, CoveredIs
<1>5. CASE list = <<>>
  <2>1. ff = strbase /\ mm = Forget(mem, strbase) /\ qq = qual
    BY <1>1, <1>5 DEF scollect
  <2>2. L = 0
    BY <1>1, <1>5
  <2>3. \A d \in Var : ~Inside(qual[d])
    BY <1>2, <2>2
  <2>4. MemoryOK(mm)
    BY <1>3, <2>1, ForgetType
  <2>5. \A d \in Var : QualOK(qual[d], strbase)
    <3> TAKE d \in Var
    <3>1. qual[d] = Outside(qual[d].text) /\ qual[d].text \in Seq(Char)
      BY <1>3, <2>3, QualFields
    <3>2. QED
      BY <3>1 DEF QualOK
  <2>6. QualsOK(qq, ff)
    BY <1>3, <2>1, <2>5 DEF QualsOK
  <2>7. \A d \in Var : TextIn(mm, qq[d]) = TextIn(mem, qual[d])
    BY <2>1, <2>3 DEF TextIn
  <2>8. ff - strbase = Cardinality(Covered(qual))
    <3>1. Cover(list, L) = {}
      BY <2>2 DEF Cover
    <3>2. Cardinality({}) = 0
      BY FS_EmptySet
    <3>3. ff - strbase = 0
      BY <1>3, <2>1
    <3>4. QED
      BY <1>4, <3>1, <3>2, <3>3
  <2>9. ff \in Nat /\ strbase <= ff /\ ff <= strend
    BY <1>3, <2>1
  <2>10. QED
    BY <1>1, <2>4, <2>6, <2>7, <2>8, <2>9
<1>6. CASE list # <<>>
  <2>1. PICK c, b : c = Passes(list)[L] /\ b = NextClump(c, strfree)
    OBVIOUS
  <2>2. ff = b.dest /\ mm = Forget(b.mem, b.dest) /\ qq = b.qual
    BY <1>1, <1>6, <2>1 DEF scollect
  <2>3. L # 0
    BY <1>1, <1>2, <1>6 DEF ListOK
  <2>4. PassOK(c, list, L)
    BY <1>1, <1>2, <2>1, <2>3, LoopKeeps
  <2>5. PassOK(b, list, L) /\ \A j \in 1..L : Settled(b, list[j])
    <3>1. c.cend <= strfree
      BY <2>4 DEF PassOK, PointersOK
    <3>2. \A j \in 1..L : ~(j > L)
      BY <1>2
    <3>3. L \in 0..Len(list)
      BY <1>1, <1>2
    <3>4. \A j \in 1..Len(list) : j > L => strfree <= Begins(list[j])
      BY <1>1, <3>2
    <3>5. QED
      BY <1>2, <1>3, <2>1, <2>4, <3>1, <3>3, <3>4, ClumpMoves
  <2>6. b.source = strfree /\ b.cend = strfree
    <3>1. State(c)
      BY <2>4 DEF PassOK
    <3>2. QED
      BY <2>1, <3>1, NextClumpIs
  <2>7. ff \in Nat /\ strbase <= ff /\ ff <= strfree /\ ff <= strend
    <3>1. b.dest \in Nat /\ strbase <= b.dest /\ b.dest <= strfree
      BY <2>5, <2>6 DEF PassOK, PointersOK
    <3>2. QED
      BY <1>3, <2>2, <3>1
  <2>8. MemoryOK(mm)
    BY <2>2, <2>5, ForgetType DEF PassOK
  <2>9. ASSUME NEW d \in Var
        PROVE  QualOK(qq[d], ff) /\ TextIn(mm, qq[d]) = TextIn(mem, qual[d])
    <3>1. CASE Inside(qual[d])
      <4>1. Settled(b, d)
        BY <1>2, <2>5, <3>1
      <4>2. b.dest <= strend
        BY <2>2, <2>7
      <4>3. QED
        BY <2>2, <2>5, <3>1, <4>1, <4>2, SettledText
    <3>2. CASE ~Inside(qual[d])
      <4>1. qq[d] = qual[d]
        BY <1>2, <2>2, <2>5, <3>2 DEF PassOK
      <4>2. qual[d] = Outside(qual[d].text) /\ qual[d].text \in Seq(Char)
        BY <1>3, <3>2, QualFields
      <4>3. QED
        BY <3>2, <4>1, <4>2 DEF QualOK, TextIn
    <3>3. QED
      BY <3>1, <3>2
  <2>10. QualsOK(qq, ff)
    BY <2>2, <2>5, <2>9 DEF QualsOK, PassOK
  <2>11. ff - strbase = Cardinality(Covered(qual))
    <3>1. PICK U : U = Cover(list, L)
      OBVIOUS
    <3>2. /\ {a \in U : a >= strfree} = strfree..strfree - 1
          /\ Cardinality({a \in U : a < strfree}) = ff - strbase
      BY <2>2, <2>5, <2>6, <3>1 DEF PassOK, CoverOK
    <3>3. U \subseteq Nat
      BY <3>1, CoverFinite
    <3>4. {a \in U : a < strfree} = U
      <4>1. strfree..strfree - 1 = {}
        BY <1>3
      <4>2. \A a \in U : a \in Nat /\ ~(a >= strfree)
        BY <3>2, <3>3, <4>1
      <4>3. \A a \in U : a < strfree
        BY <1>3, <4>2
      <4>4. QED
        BY <4>3
    <3>5. QED
      BY <1>4, <3>1, <3>2, <3>4
  <2>12. QED
    BY <1>1, <2>7, <2>8, <2>9, <2>10, <2>11
<1>7. QED
  BY <1>5, <1>6

-----------------------------------------------------------------------------
(* Operations.                                                             *)

\* One qualifier is set.
LEMMA SetKeeps ==
  ASSUME NEW free, QualsOK(qual, free), NEW d \in Var, NEW q, QualOK(q, free), Set(d, q)
  PROVE  QualsOK(qual', free) /\ qual'[d] = q /\ \A e \in Var \ {d} : qual'[e] = qual[e]
<1>1. PICK qq : qq = qual'
  OBVIOUS
<1>2. qq = [qual EXCEPT ![d] = q] /\ qual = [e \in Var |-> qual[e]]
  BY <1>1 DEF Set, QualsOK
<1>3. /\ qq[d] = q /\ \A e \in Var \ {d} : qq[e] = qual[e]
      /\ qq = [e \in Var |-> qq[e]]
  BY <1>2
<1>4. \A e \in Var : QualOK(qq[e], free)
  <2> TAKE e \in Var
  <2>1. CASE e = d
    BY <1>3, <2>1
  <2>2. CASE e # d
    BY <1>3, <2>2 DEF QualsOK
  <2>3. QED
    BY <2>1, <2>2
<1>5. QED
  BY <1>1, <1>3, <1>4 DEF QualsOK

\* The strings of a region of which more is used.
LEMMA QualsGrow ==
  ASSUME NEW qs, NEW free \in Nat, QualsOK(qs, free), NEW more \in Nat, free <= more
  PROVE  QualsOK(qs, more)
<1>1. \A d \in Var : QualOK(qs[d], more)
  BY QualGrows DEF QualsOK
<1>2. QED
  BY <1>1 DEF QualsOK

\* A string s at the address a.
Holds(m, a, s) == \A k \in 1..Len(s) : m[a + k - 1] = s[k]

\* The text at an address is what has been put there.
LEMMA NewText ==
  ASSUME NEW m, NEW a \in Nat, a # 0, NEW s \in Seq(Cell), Holds(m, a, s)
  PROVE  TextIn(m, At(a, Len(s))) = s
<1>1. PICK n : n = Len(s)
  OBVIOUS
<1>2. n \in Nat /\ \A k \in 1..n : m[a + k - 1] = s[k] /\ s[k] \in Cell
  BY <1>1 DEF Holds
<1>3. At(a, n).loc = a /\ At(a, n).len = n /\ Inside(At(a, n))
  BY DEF At, Inside
<1>4. TextIn(m, At(a, n)) = [k \in 1..n |-> m[a + k - 1]]
  BY <1>3 DEF TextIn
<1>5. PICK t : t = [k \in 1..n |-> m[a + k - 1]]
  OBVIOUS
<1>6. t \in Seq(Cell) /\ Len(t) = n /\ \A k \in 1..n : t[k] = s[k]
  <2>1. \A k \in 1..n : m[a + k - 1] \in Cell
    BY <1>2
  <2>2. t \in Seq(Cell) /\ Len(t) = n
    BY <1>2, <1>5, <2>1
  <2>3. \A k \in 1..n : t[k] = s[k]
    BY <1>2, <1>5
  <2>4. QED
    BY <2>2, <2>3
<1>7. t = s
  BY <1>1, <1>6, SeqEqual
<1>8. QED
  BY <1>1, <1>4, <1>5, <1>7

\* u is s followed by t.
Joins(u, s, t) ==
  /\ u \in Seq(Cell) /\ Len(u) = Len(s) + Len(t)
  /\ \A k \in 1..Len(u) : u[k] = IF k <= Len(s) THEN s[k] ELSE t[k - Len(s)]

LEMMA JoinsIs ==
  ASSUME NEW s \in Seq(Cell), NEW t \in Seq(Cell)
  PROVE  Joins(s \o t, s, t)
<1>1. s \o t \in Seq(Cell)
  OBVIOUS
<1>2. Len(s \o t) = Len(s) + Len(t)
  OBVIOUS
<1>3. \A k \in 1..Len(s) + Len(t) : (s \o t)[k] = IF k <= Len(s) THEN s[k] ELSE t[k - Len(s)]
  OBVIOUS
<1>4. QED
  BY <1>1, <1>2, <1>3 DEF Joins

\* A string that is followed by another is the beginning of both.
LEMMA JoinedText ==
  ASSUME NEW m, NEW a \in Nat, a # 0,
         NEW s, Len(s) \in Nat, TextIn(m, At(a, Len(s))) = s,
         NEW t, Len(t) \in Nat, Holds(m, a + Len(s), t),
         NEW u, Joins(u, s, t)
  PROVE  TextIn(m, At(a, Len(u))) = u
<1>1. PICK n, j : n = Len(s) /\ j = Len(t)
  OBVIOUS
<1>2. n \in Nat /\ j \in Nat /\ u \in Seq(Cell) /\ Len(u) = n + j
      /\ \A k \in 1..n + j : u[k] = IF k <= n THEN s[k] ELSE t[k - n]
  BY <1>1 DEF Joins
<1>3. \A k \in 1..n : m[a + k - 1] = s[k]
  <2>1. At(a, n).loc = a /\ At(a, n).len = n /\ Inside(At(a, n))
    BY DEF At, Inside
  <2>2. s = [k \in 1..n |-> m[a + k - 1]]
    BY <1>1, <2>1 DEF TextIn
  <2>3. QED
    BY <2>2
<1>4. \A k \in 1..j : m[a + n + k - 1] = t[k]
  BY <1>1 DEF Holds
<1>5. \A k \in 1..n + j : m[a + k - 1] = u[k]
  <2> TAKE k \in 1..n + j
  <2>1. CASE k <= n
    <3>1. k \in 1..n
      BY <1>2, <2>1
    <3>2. QED
      BY <1>2, <1>3, <2>1, <3>1
  <2>2. CASE ~(k <= n)
    <3>1. PICK i : i = k - n
      OBVIOUS
    <3>2. i \in 1..j /\ a + k - 1 = a + n + i - 1
      BY <1>2, <2>2, <3>1
    <3>3. m[a + k - 1] = t[i]
      BY <1>4, <3>2
    <3>4. QED
      BY <1>2, <2>2, <3>1, <3>3
  <2>3. QED
    BY <2>1, <2>2
<1>6. Holds(m, a, u)
  BY <1>2, <1>5 DEF Holds
<1>7. QED
  BY <1>2, <1>6, NewText

\* Outside the region a string is its text.
LEMMA OutsideText ==
  ASSUME NEW m, NEW s
  PROVE  TextIn(m, Outside(s)) = s
  BY DEF TextIn, Inside, Outside

\* An inside qualifier holds its text.
LEMMA InsideHolds ==
  ASSUME NEW q, Inside(q), NEW m, q.len \in Nat, Len(TextIn(m, q)) = q.len
  PROVE  Holds(m, q.loc, TextIn(m, q))
  BY DEF Holds, TextIn

\* alcstr puts the string behind the others and changes none of them.
LEMMA AlcstrKeeps ==
  ASSUME SpaceOK, NEW s \in Seq(Cell), alcstr(s)
  PROVE  /\ MemoryOK(mem')
         /\ strfree' = strfree + Len(s) /\ strfree' \in Nat
         /\ strbase <= strfree' /\ strfree' <= strend
         /\ QualsOK(qual, strfree')
         /\ \A q : QualOK(q, strfree) => TextIn(mem', q) = TextIn(mem, q)
         /\ Holds(mem', strfree, s)
<1>1. PICK mm, ff, n, free : mm = mem' /\ ff = strfree' /\ n = Len(s) /\ free = strfree
  OBVIOUS
<1>2. /\ ff = free + n /\ free + n <= strend /\ n \in Nat /\ free \in Nat /\ strbase <= free
      /\ mm = [a \in Address |-> IF a \in free..free + n - 1 THEN s[a - free + 1] ELSE mem[a]]
  BY <1>1 DEF alcstr, SpaceOK
<1>3. ff \in Nat /\ free <= ff /\ strbase <= ff /\ ff <= strend
  BY <1>2 DEF strbase
<1>4. /\ Address \subseteq Int /\ \A a \in Int : a \in Address <=> strbase <= a /\ a < strend
      /\ strbase \in Int /\ strend \in Int
  BY SizeAssumption DEF Address, strbase, strend
<1>5. MemoryOK(mm)
  <2>1. \A a \in Address : a \in free..free + n - 1 => s[a - free + 1] \in Cell
    <3> TAKE a \in Address
    <3>1. SUFFICES ASSUME a \in free..free + n - 1 PROVE s[a - free + 1] \in Cell
      OBVIOUS
    <3>2. a - free + 1 \in 1..n
      BY <1>2, <3>1
    <3>3. QED
      BY <1>1, <3>2
  <2>2. \A a \in Address : mem[a] \in Cell
    BY DEF SpaceOK, MemoryOK
  <2>3. QED
    BY <1>2, <2>1, <2>2 DEF MemoryOK
<1>6. QualsOK(qual, ff)
  BY <1>1, <1>2, <1>3, QualsGrow DEF SpaceOK
<1>7. \A q : QualOK(q, free) => TextIn(mm, q) = TextIn(mem, q)
  <2>1. \A a \in Nat : strbase <= a /\ a < free => mm[a] = mem[a]
    <3> TAKE a \in Nat
    <3>1. SUFFICES ASSUME strbase <= a /\ a < free PROVE mm[a] = mem[a]
      OBVIOUS
    <3>2. a \in Address /\ a \notin free..free + n - 1
      BY <1>2, <1>3, <1>4, <3>1
    <3>3. QED
      BY <1>2, <3>2
  <2>2. free \in Nat
    BY <1>2
  <2>3. QED
    BY <2>1, <2>2, TextKept, ZenonT(30)
<1>8. Holds(mm, free, s)
  <2>1. \A k \in 1..n : mm[free + k - 1] = s[k]
    <3> TAKE k \in 1..n
    <3>1. PICK a : a = free + k - 1
      OBVIOUS
    <3>2. a \in Address /\ a \in free..free + n - 1 /\ a - free + 1 = k
      BY <1>2, <1>3, <1>4, <3>1
    <3>3. QED
      BY <1>2, <3>1, <3>2
  <2>2. QED
    BY <1>1, <2>1 DEF Holds
<1>9. QED
  BY <1>1, <1>2, <1>3, <1>5, <1>6, <1>7, <1>8

\* What StringVars sees.
Result(t) ==
  \/ t \in Literal
  \/ \E x \in Var : t \in S!Parts(TextIn(mem, qual[x]))
  \/ \E x, y \in Var : t = TextIn(mem, qual[x]) \o TextIn(mem, qual[y])

LEMMA ResultIs ==
  ASSUME NEW t, Result(t)
  PROVE  S!Result(t)
<1>1. PICK v : v = [d \in Var |-> Text(qual[d])]
  OBVIOUS
<1>2. \A x \in Var : v[x] = TextIn(mem, qual[x])
  BY <1>1 DEF Text, TextIn
<1>3. S!Result(t) <=> \/ t \in Literal
                      \/ \E x \in Var : t \in S!Parts(v[x])
                      \/ \E x, y \in Var : t = v[x] \o v[y]
  BY <1>1, Zenon DEF S!Result
<1>4. QED
  BY <1>2, <1>3 DEF Result

LEMMA AssignIs ==
  ASSUME NEW d \in Var,
         \A e \in Var \ {d} : TextIn(mem', qual'[e]) = TextIn(mem, qual[e]),
         Result(TextIn(mem', qual'[d]))
  PROVE  S!Next
<1>1. /\ \A e \in Var : [x \in Var |-> Text(qual[x])][e] = TextIn(mem, qual[e])
      /\ \A e \in Var : [x \in Var |-> Text(qual[x])]'[e] = TextIn(mem', qual'[e])
  BY DEF Text, TextIn
<1>2. S!Result(TextIn(mem', qual'[d]))
  BY ResultIs
<1>3. S!Assign(d)
  BY <1>1, <1>2, Zenon DEF S!Assign
<1>4. QED
  BY <1>3 DEF S!Next

LEMMA SameIs ==
  ASSUME \A d \in Var : TextIn(mem', qual'[d]) = TextIn(mem, qual[d])
  PROVE  [d \in Var |-> Text(qual[d])]' = [d \in Var |-> Text(qual[d])]
<1>1. /\ \A d \in Var : Text(qual[d]) = TextIn(mem, qual[d])
      /\ \A d \in Var : Text(qual[d])' = TextIn(mem', qual'[d])
  BY DEF Text, TextIn
<1>2. QED
  BY <1>1

\* An operation that sets one variable and leaves the space as it is.
LEMMA SetStep ==
  ASSUME SpaceOK, NEW d \in Var, NEW q, QualOK(q, strfree), Set(d, q),
         UNCHANGED <<mem, strfree>>, copying' \in {<<>>} \cup Var \X Var \X Var,
         Result(TextIn(mem, q))
  PROVE  SpaceOK' /\ S!Next
<1>1. /\ QualsOK(qual', strfree) /\ qual'[d] = q
      /\ \A e \in Var \ {d} : qual'[e] = qual[e]
  BY SetKeeps DEF SpaceOK
<1>2. SpaceOK'
  BY <1>1 DEF SpaceOK, QualsOK, QualOK, MemoryOK
<1>3. S!Next
  BY <1>1, AssignIs
<1>4. QED
  BY <1>2, <1>3

\* An operation that adds the string s to the space and sets a variable to what
\* begins with it, or is followed by it.
LEMMA AllocStep ==
  ASSUME SpaceOK, NEW s \in Seq(Cell), alcstr(s), NEW d \in Var, NEW q,
         QualOK(q, strfree + Len(s)), Set(d, q),
         copying' \in {<<>>} \cup Var \X Var \X Var,
         Result(TextIn(mem', q))
  PROVE  SpaceOK' /\ S!Next
<1>1. PICK mm, ff, qq : mm = mem' /\ ff = strfree' /\ qq = qual'
  OBVIOUS
<1>2. /\ MemoryOK(mm) /\ ff = strfree + Len(s) /\ ff \in Nat /\ strbase <= ff /\ ff <= strend
      /\ QualsOK(qual, ff) /\ \A u : QualOK(u, strfree) => TextIn(mm, u) = TextIn(mem, u)
  BY <1>1, AlcstrKeeps
<1>3. QualOK(q, ff)
  BY <1>2
<1>4. QualsOK(qq, ff) /\ qq[d] = q /\ \A e \in Var \ {d} : qq[e] = qual[e]
  BY <1>1, <1>2, <1>3, SetKeeps
<1>5. SpaceOK'
  BY <1>1, <1>2, <1>4 DEF SpaceOK, QualsOK, QualOK, MemoryOK
<1>6. \A e \in Var \ {d} : TextIn(mm, qq[e]) = TextIn(mem, qual[e])
  BY <1>2, <1>4 DEF SpaceOK, QualsOK
<1>7. S!Next
  BY <1>1, <1>4, <1>6, AssignIs
<1>8. QED
  BY <1>5, <1>7

\* x := s
LEMMA CopyStep ==
  ASSUME SpaceOK, NEW d \in Var, NEW s \in Literal, Copy(d, s)
  PROVE  SpaceOK' /\ S!Next
<1>1. QualOK(Outside(s), strfree)
  BY CharAssumption DEF QualOK
<1>2. Result(TextIn(mem, Outside(s)))
  BY OutsideText DEF Result
<1>3. /\ Set(d, Outside(s)) /\ UNCHANGED <<mem, strfree>>
      /\ copying' \in {<<>>} \cup Var \X Var \X Var
  BY DEF Copy, SpaceOK
<1>4. QED
  BY <1>1, <1>2, <1>3, SetStep

\* A string that a function makes.
LEMMA MakeStep ==
  ASSUME SpaceOK, NEW d \in Var, NEW s \in Literal, Make(d, s)
  PROVE  SpaceOK' /\ S!Next
<1>1. s \in Seq(Cell) /\ Len(s) \in Nat
  <2>1. s \in Seq(Char)
    BY CharAssumption
  <2>2. Char \subseteq Cell
    BY DEF Cell
  <2>3. QED
    BY <2>1, <2>2
<1>2. alcstr(s) /\ Set(d, At(strfree, Len(s))) /\ copying' \in {<<>>} \cup Var \X Var \X Var
  BY DEF Make, SpaceOK
<1>3. strfree \in Nat /\ strbase <= strfree /\ strfree # 0
  BY DEF SpaceOK, strbase
<1>4. QualOK(At(strfree, Len(s)), strfree + Len(s))
  <2>1. strfree + Len(s) <= strfree + Len(s)
    BY <1>1, <1>3
  <2>2. QED
    BY <1>1, <1>3, <2>1 DEF QualOK
<1>5. TextIn(mem', At(strfree, Len(s))) = s
  BY <1>1, <1>2, <1>3, AlcstrKeeps, NewText
<1>6. Result(TextIn(mem', At(strfree, Len(s))))
  BY <1>5 DEF Result
<1>7. QED
  BY <1>1, <1>2, <1>4, <1>6, AllocStep

\* What is known of the string of a variable.
LEMMA StringIs ==
  ASSUME SpaceOK, NEW x \in Var
  PROVE  /\ QualOK(qual[x], strfree)
         /\ qual[x].len \in Nat
         /\ TextIn(mem, qual[x]) \in Seq(Cell) /\ Len(TextIn(mem, qual[x])) = qual[x].len
         /\ Inside(qual[x]) => /\ qual[x].loc \in Nat /\ qual[x].loc # 0 /\ strbase <= qual[x].loc
                               /\ qual[x].loc + qual[x].len <= strfree
                               /\ qual[x] = At(qual[x].loc, qual[x].len)
         /\ ~Inside(qual[x]) => /\ qual[x].text \in Seq(Char) /\ qual[x].len = Len(qual[x].text)
                                /\ TextIn(mem, qual[x]) = qual[x].text
<1>1. QualOK(qual[x], strfree) /\ strfree \in Nat /\ strfree <= strend /\ MemoryOK(mem)
  BY DEF SpaceOK, QualsOK
<1>2. TextIn(mem, qual[x]) \in Seq(Cell) /\ Len(TextIn(mem, qual[x])) = qual[x].len
  BY <1>1, TextType
<1>3. QED
  BY <1>1, <1>2, QualFields DEF TextIn, Inside

\* A part of a text that is one of Parts.
LEMMA PartIs ==
  ASSUME NEW x \in Var, NEW i \in Nat, NEW j \in Nat, 1 <= i, i <= j,
         j <= Len(TextIn(mem, qual[x])), Len(TextIn(mem, qual[x])) \in Nat
  PROVE  Result(SubSeq(TextIn(mem, qual[x]), i, j))
<1>1. PICK t : t = TextIn(mem, qual[x])
  OBVIOUS
<1>2. i \in 1..Len(t) /\ j \in 1..Len(t)
  BY <1>1
<1>3. SubSeq(t, i, j) \in S!Parts(t)
  BY <1>2 DEF S!Parts
<1>4. QED
  BY <1>1, <1>3 DEF Result

LEMMA EmptyIs ==
  ASSUME NEW x \in Var
  PROVE  Result(<<>>)
<1>1. <<>> \in S!Parts(TextIn(mem, qual[x]))
  BY DEF S!Parts
<1>2. QED
  BY <1>1 DEF Result

\* x[i:j]
LEMMA SubscriptStep ==
  ASSUME SpaceOK, NEW d \in Var, NEW x \in Var, NEW i \in 1..MaxLen + 1, NEW j \in 0..MaxLen,
         Subscript(d, x, i, j)
  PROVE  SpaceOK' /\ S!Next
<1>1. PICK q, t, l, a : q = qual[x] /\ t = TextIn(mem, q) /\ l = q.len /\ a = q.loc
  OBVIOUS
<1>2. /\ i \in Nat /\ j \in Nat /\ 1 <= i /\ i <= j + 1 /\ j <= l /\ l \in Nat
      /\ t \in Seq(Cell) /\ Len(t) = l /\ strfree \in Nat
  BY <1>1, StringIs, SizeAssumption DEF Subscript, SpaceOK
<1>3. /\ UNCHANGED <<mem, strfree>> /\ copying' \in {<<>>} \cup Var \X Var \X Var
      /\ Set(d, IF Inside(q) THEN At(a + i - 1, j - i + 1) ELSE Outside(SubSeq(q.text, i, j)))
  BY <1>1 DEF Subscript, SpaceOK
<1>4. CASE Inside(q)
  <2>1. PICK b, n : b = a + i - 1 /\ n = j - i + 1
    OBVIOUS
  <2>2. a \in Nat /\ a # 0 /\ strbase <= a /\ a + l <= strfree
    BY <1>1, <1>4, StringIs
  <2>3. b \in Nat /\ b # 0 /\ n \in Nat /\ strbase <= b /\ b + n <= strfree
    BY <1>2, <2>1, <2>2 DEF strbase
  <2>4. QualOK(At(b, n), strfree)
    BY <2>3 DEF QualOK
  <2>5. Result(TextIn(mem, At(b, n)))
    <3>1. CASE i = j + 1
      <4>1. n = 0
        BY <1>2, <2>1, <3>1
      <4>2. <<>> \in Seq(Cell) /\ Len(<<>>) = n /\ Holds(mem, b, <<>>)
        BY <4>1 DEF Holds
      <4>3. TextIn(mem, At(b, n)) = <<>>
        BY <2>3, <4>2, NewText
      <4>4. QED
        BY <4>3, EmptyIs
    <3>2. CASE i <= j
      <4>1. PICK s : s = SubSeq(t, i, j)
        OBVIOUS
      <4>2. s \in Seq(Cell) /\ Len(s) = n /\ \A k \in 1..n : s[k] = t[i + k - 1]
        BY <1>2, <2>1, <3>2, <4>1
      <4>3. Holds(mem, a, t)
        BY <1>1, <1>2, <1>4, InsideHolds
      <4>4. \A k \in 1..n : mem[b + k - 1] = s[k]
        <5> TAKE k \in 1..n
        <5>1. PICK y : y = i + k - 1
          OBVIOUS
        <5>2. y \in 1..Len(t) /\ b + k - 1 = a + y - 1
          BY <1>2, <2>1, <2>2, <2>3, <3>2, <5>1
        <5>3. mem[a + y - 1] = t[y]
          BY <4>3, <5>2 DEF Holds
        <5>4. QED
          BY <4>2, <5>1, <5>2, <5>3
      <4>5. Holds(mem, b, s)
        BY <4>2, <4>4 DEF Holds
      <4>6. TextIn(mem, At(b, n)) = s
        BY <2>3, <4>2, <4>5, NewText
      <4>7. QED
        BY <1>1, <1>2, <3>2, <4>1, <4>6, PartIs
    <3>3. QED
      BY <1>2, <3>1, <3>2
  <2>6. Set(d, At(b, n))
    BY <1>3, <1>4, <2>1
  <2>7. QED
    BY <1>3, <2>4, <2>5, <2>6, SetStep
<1>5. CASE ~Inside(q)
  <2>1. q.text = t /\ t \in Seq(Char)
    BY <1>1, <1>5, StringIs
  <2>2. PICK s : s = SubSeq(t, i, j)
    OBVIOUS
  <2>3. s \in Seq(Char)
    BY <1>2, <2>1, <2>2
  <2>4. QualOK(Outside(s), strfree)
    BY <2>3 DEF QualOK
  <2>5. Result(s)
    <3>1. CASE i = j + 1
      <4>1. Len(s) = 0
        BY <1>2, <2>2, <3>1
      <4>2. s = <<>>
        BY <2>3, <4>1, LenZero
      <4>3. QED
        BY <4>2, EmptyIs
    <3>2. CASE i <= j
      BY <1>1, <1>2, <2>2, <3>2, PartIs
    <3>3. QED
      BY <1>2, <3>1, <3>2
  <2>6. Result(TextIn(mem, Outside(s)))
    BY <2>5, OutsideText
  <2>7. Set(d, Outside(s))
    BY <1>3, <1>5, <2>1, <2>2
  <2>8. QED
    BY <1>3, <2>4, <2>6, <2>7, SetStep
<1>6. QED
  BY <1>4, <1>5

\* x || y, and the copies that it makes.
LEMMA BothIs ==
  ASSUME NEW x \in Var, NEW y \in Var
  PROVE  Result(TextIn(mem, qual[x]) \o TextIn(mem, qual[y]))
  BY DEF Result

LEMMA ConcatStep ==
  ASSUME SpaceOK, NEW d \in Var, NEW x \in Var, NEW y \in Var, Concat(d, x, y)
  PROVE  SpaceOK' /\ (S!Next \/ UNCHANGED [e \in Var |-> Text(qual[e])])
<1>1. PICK q, r, u, v, a, n, l : /\ q = qual[x] /\ r = qual[y] /\ a = q.loc /\ n = q.len /\ l = r.len
                                 /\ u = TextIn(mem, q) /\ v = TextIn(mem, r)
  OBVIOUS
<1>2. /\ n \in Nat /\ l \in Nat /\ u \in Seq(Cell) /\ Len(u) = n /\ v \in Seq(Cell) /\ Len(v) = l
      /\ strfree \in Nat /\ QualOK(q, strfree)
      /\ Inside(q) => a \in Nat /\ a # 0 /\ strbase <= a /\ a + n <= strfree /\ q = At(a, n)
  BY <1>1, StringIs DEF SpaceOK
<1>3. Result(u \o v)
  BY <1>1, BothIs
<1>4. CASE /\ Adjacent(q, r) /\ Set(d, At(a, n + l)) /\ UNCHANGED <<mem, strfree, copying>>
  <2>1. Inside(q) /\ Inside(r) /\ a + n = r.loc
    BY <1>1, <1>4 DEF Adjacent
  <2>2. r.loc + l <= strfree
    BY <1>1, <2>1, StringIs
  <2>3. Holds(mem, a + n, v)
    BY <1>1, <1>2, <2>1, InsideHolds
  <2>4. TextIn(mem, At(a, n)) = u
    BY <1>1, <1>2, <2>1
  <2>5. TextIn(mem, At(a, n + l)) = u \o v
    <3>1. /\ a \in Nat /\ a # 0 /\ n \in Nat /\ u \in Seq(Cell) /\ Len(u) = n
          /\ v \in Seq(Cell)
      BY <1>2, <2>1
    <3>2. PICK w : w = u \o v
      OBVIOUS
    <3>3. TextIn(mem, At(a, n + l)) = w
      <4>1. Joins(w, u, v)
        BY <3>1, <3>2, JoinsIs
      <4>2. Len(u) = n /\ Len(v) = l /\ Len(w) = n + l /\ l \in Nat
        BY <1>2, <3>1, <4>1 DEF Joins
      <4>3. TextIn(mem, At(a, Len(w))) = w
        BY <2>3, <2>4, <3>1, <4>1, <4>2, JoinedText
      <4>4. QED
        BY <4>2, <4>3
    <3>4. QED
      BY <3>2, <3>3
  <2>6. QualOK(At(a, n + l), strfree)
    <3>1. n + l \in Nat /\ a + (n + l) <= strfree
      BY <1>2, <2>1, <2>2
    <3>2. QED
      BY <1>2, <2>1, <3>1 DEF QualOK
  <2>7. copying' \in {<<>>} \cup Var \X Var \X Var
    BY <1>4 DEF SpaceOK
  <2>8. QED
    BY <1>3, <1>4, <2>5, <2>6, <2>7, SetStep
<1>5. CASE LastString(q, l) /\ alcstr(Text(r)) /\ Set(d, At(a, n + l)) /\ UNCHANGED copying
  <2>1. Inside(q) /\ a + n = strfree /\ Text(r) = v
    BY <1>1, <1>5 DEF LastString, Text, TextIn
  <2>2. alcstr(v)
    BY <1>5, <2>1
  <2>3. Holds(mem', a + n, v) /\ TextIn(mem', q) = u
    BY <1>1, <1>2, <2>1, <2>2, AlcstrKeeps
  <2>4. PICK mm : mm = mem'
    OBVIOUS
  <2>5. TextIn(mm, At(a, n + l)) = u \o v
    <3>1. /\ a \in Nat /\ a # 0 /\ n \in Nat /\ u \in Seq(Cell) /\ Len(u) = n
          /\ v \in Seq(Cell) /\ q = At(a, n)
      BY <1>2, <2>1
    <3>2. TextIn(mm, At(a, n)) = u /\ Holds(mm, a + n, v)
      BY <2>3, <2>4, <3>1
    <3>3. PICK w : w = u \o v
      OBVIOUS
    <3>4. TextIn(mm, At(a, n + l)) = w
      <4>1. Joins(w, u, v)
        BY <3>1, <3>3, JoinsIs
      <4>2. Len(u) = n /\ Len(v) = l /\ Len(w) = n + l /\ l \in Nat
        BY <1>2, <3>1, <4>1 DEF Joins
      <4>3. TextIn(mm, At(a, Len(w))) = w
        BY <3>1, <3>2, <4>1, <4>2, JoinedText
      <4>4. QED
        BY <4>2, <4>3
    <3>5. QED
      BY <3>3, <3>4
  <2>6. QualOK(At(a, n + l), strfree + Len(v))
    <3>1. n + l \in Nat /\ a + (n + l) <= strfree + Len(v)
      BY <1>2, <2>1
    <3>2. QED
      BY <1>2, <2>1, <3>1 DEF QualOK
  <2>7. copying' \in {<<>>} \cup Var \X Var \X Var
    BY <1>5 DEF SpaceOK
  <2>8. QED
    BY <1>2, <1>3, <1>5, <2>2, <2>4, <2>5, <2>6, <2>7, AllocStep
<1>6. CASE copying' = <<d, x, y>> /\ UNCHANGED <<mem, strfree, qual>>
  <2>1. SpaceOK'
    BY <1>6 DEF SpaceOK, QualsOK, QualOK, MemoryOK
  <2>2. UNCHANGED [e \in Var |-> Text(qual[e])]
    BY <1>6, SameIs
  <2>3. QED
    BY <2>1, <2>2
<1>7. QED
  BY <1>1, <1>4, <1>5, <1>6 DEF Concat

LEMMA CopyBothStep ==
  ASSUME SpaceOK, CopyBoth
  PROVE  SpaceOK' /\ S!Next
<1>1. PICK d \in Var, x \in Var, y \in Var : copying = <<d, x, y>>
  BY DEF SpaceOK, CopyBoth, Idle
<1>2. PICK u, v, n, l : /\ u = TextIn(mem, qual[x]) /\ v = TextIn(mem, qual[y])
                        /\ n = qual[x].len /\ l = qual[y].len
  OBVIOUS
<1>3. /\ n \in Nat /\ l \in Nat /\ u \in Seq(Cell) /\ Len(u) = n /\ v \in Seq(Cell) /\ Len(v) = l
      /\ strfree \in Nat /\ strfree # 0 /\ strbase <= strfree
  <2>1. strfree \in Nat /\ strbase <= strfree /\ strfree # 0
    BY DEF SpaceOK, strbase
  <2>2. QED
    BY <1>2, <2>1, StringIs
<1>4. PICK w : w = u \o v
  OBVIOUS
<1>5. w \in Seq(Cell) /\ Len(w) = n + l
  <2>1. w \in Seq(Cell)
    BY <1>3, <1>4
  <2>2. Len(u \o v) = Len(u) + Len(v)
    BY <1>3
  <2>3. QED
    BY <1>3, <1>4, <2>1, <2>2
<1>6. alcstr(w) /\ Set(d, At(strfree, n + l)) /\ copying' = <<>>
  <2>1. Text(qual[x]) = u /\ Text(qual[y]) = v
    BY <1>2 DEF Text, TextIn
  <2>2. copying[1] = d /\ copying[2] = x /\ copying[3] = y
    BY <1>1
  <2>3. Needed = n + l
    BY <1>2, <2>2 DEF Needed
  <2>4. QED
    BY <1>4, <2>1, <2>2, <2>3 DEF CopyBoth
<1>7. Holds(mem', strfree, w)
  BY <1>5, <1>6, AlcstrKeeps
<1>8. PICK mm, free : mm = mem' /\ free = strfree
  OBVIOUS
<1>9. TextIn(mm, At(free, n + l)) = w
  BY <1>3, <1>5, <1>7, <1>8, NewText
<1>10. Result(TextIn(mem', At(strfree, n + l)))
  BY <1>2, <1>4, <1>8, <1>9, BothIs
<1>11. QualOK(At(strfree, n + l), strfree + Len(w))
  <2>1. n + l \in Nat /\ strfree + (n + l) <= strfree + Len(w)
    BY <1>3, <1>5
  <2>2. QED
    BY <1>3, <2>1 DEF QualOK
<1>12. QED
  BY <1>5, <1>6, <1>10, <1>11, AllocStep

\* A collection changes no text.
LEMMA CollectStep ==
  ASSUME RegionFits, SpaceOK, Collect
  PROVE  SpaceOK' /\ UNCHANGED [e \in Var |-> Text(qual[e])]
<1>1. copying' = copying
  BY DEF Collect
<1>2. CASE UNCHANGED <<mem, strfree, qual>>
  <2>1. SpaceOK'
    BY <1>1, <1>2 DEF SpaceOK, QualsOK, QualOK, MemoryOK
  <2>2. QED
    BY <1>2, <2>1, SameIs
<1>3. CASE \E s \in Lists : scollect(s)
  <2>1. PICK s \in Lists : scollect(s)
    BY <1>3
  <2>2. /\ MemoryOK(mem')
        /\ strfree' \in Nat /\ strbase <= strfree' /\ strfree' <= strend
        /\ QualsOK(qual', strfree')
        /\ \A d \in Var : TextIn(mem', qual'[d]) = TextIn(mem, qual[d])
    BY <2>1, ScollectKeeps
  <2>3. SpaceOK'
    BY <1>1, <2>2 DEF SpaceOK, QualsOK, QualOK, MemoryOK
  <2>4. QED
    BY <2>2, <2>3, SameIs
<1>4. QED
  BY <1>2, <1>3 DEF Collect

\* A program begins with the strings of its text.
LEMMA InitOK ==
  ASSUME Init
  PROVE  SpaceOK /\ S!Init
<1>1. MemoryOK(mem)
  BY DEF Init, MemoryOK, Cell
<1>2. strfree \in Nat /\ strbase <= strfree /\ strfree <= strend
  BY SizeAssumption DEF Init, strbase, strend
<1>3. qual = [d \in Var |-> qual[d]] /\ \A d \in Var : \E s \in Literal : qual[d] = Outside(s)
  BY DEF Init
<1>4. \A d \in Var : QualOK(qual[d], strfree) /\ Text(qual[d]) \in Literal
  <2> TAKE d \in Var
  <2>1. PICK s \in Literal : qual[d] = Outside(s)
    BY <1>3
  <2>2. s \in Seq(Char)
    BY CharAssumption
  <2>3. Text(qual[d]) = s
    BY <2>1 DEF Text, Inside, Outside
  <2>4. QED
    BY <2>1, <2>2, <2>3 DEF QualOK
<1>5. SpaceOK
  <2>1. copying = <<>>
    BY DEF Init
  <2>2. QED
    BY <1>1, <1>2, <1>3, <1>4, <2>1 DEF SpaceOK, QualsOK
<1>6. S!Init
  <2>1. [d \in Var |-> Text(qual[d])] \in [Var -> Literal]
    BY <1>4
  <2>2. QED
    BY <2>1 DEF S!Init
<1>7. QED
  BY <1>5, <1>6

\* Only a collection lowers strfree.
LEMMA AllocGrows ==
  ASSUME SpaceOK, NEW s, Len(s) \in Nat, alcstr(s)
  PROVE  strfree <= strfree'
  BY DEF alcstr, SpaceOK

LEMMA OthersGrow ==
  ASSUME SpaceOK, ~CollectWhenDue, [Next]_vars
  PROVE  strfree <= strfree'
<1>1. \A a \in Nat : a <= a
  OBVIOUS
<1>2. strfree \in Nat
  BY DEF SpaceOK
<1>3. CASE strfree' = strfree
  BY <1>1, <1>2, <1>3
<1>4. ASSUME NEW s, s \in Seq(Cell) \/ s \in Seq(Char), alcstr(s) PROVE strfree <= strfree'
  <2>1. Len(s) \in Nat
    BY <1>4
  <2>2. QED
    BY <1>4, <2>1, AllocGrows
<1>5. CASE CopyBoth
  <2>1. PICK d \in Var, x \in Var, y \in Var : copying = <<d, x, y>>
    BY <1>5 DEF SpaceOK, CopyBoth, Idle
  <2>2. copying[2] = x /\ copying[3] = y
    BY <2>1
  <2>3. Text(qual[x]) \in Seq(Cell) /\ Text(qual[y]) \in Seq(Cell)
    BY StringIs DEF Text, TextIn
  <2>4. Text(qual[x]) \o Text(qual[y]) \in Seq(Cell)
    BY <2>3
  <2>5. alcstr(Text(qual[x]) \o Text(qual[y]))
    BY <1>5, <2>2 DEF CopyBoth
  <2>6. QED
    BY <1>4, <2>4, <2>5
<1>6. CASE NoRoom
  BY <1>3, <1>6 DEF NoRoom
<1>7. ASSUME NEW d \in Var, NEW s \in Literal, Copy(d, s) \/ Make(d, s) PROVE strfree <= strfree'
  <2>1. CASE Copy(d, s)
    BY <1>3, <2>1 DEF Copy
  <2>2. CASE Make(d, s)
    <3>1. s \in Seq(Char) /\ alcstr(s)
      BY <2>2, CharAssumption DEF Make
    <3>2. QED
      BY <1>4, <3>1
  <2>3. QED
    BY <1>7, <2>1, <2>2
<1>8. ASSUME NEW d \in Var, NEW x \in Var, NEW i, NEW j, Subscript(d, x, i, j)
      PROVE  strfree <= strfree'
  BY <1>3, <1>8 DEF Subscript
<1>9. ASSUME NEW d \in Var, NEW x \in Var, NEW y \in Var, Concat(d, x, y)
      PROVE  strfree <= strfree'
  <2>1. strfree' = strfree \/ alcstr(Text(qual[y]))
    BY <1>9 DEF Concat
  <2>2. Text(qual[y]) \in Seq(Cell)
    BY StringIs DEF Text, TextIn
  <2>3. QED
    BY <1>3, <1>4, <2>1, <2>2
<1>10. CASE UNCHANGED vars
  BY <1>3, <1>10 DEF vars
<1>11. QED
  BY <1>5, <1>6, <1>7, <1>8, <1>9, <1>10 DEF Next

\* One case per disjunct of Next.
LEMMA StepOK ==
  ASSUME RegionFits, SpaceOK, [Next]_vars
  PROVE  SpaceOK' /\ (S!Next \/ UNCHANGED [d \in Var |-> Text(qual[d])])
<1>1. CASE CollectWhenDue
  BY <1>1, CollectStep DEF CollectWhenDue
<1>2. CASE CopyBoth
  BY <1>2, CopyBothStep
<1>3. CASE NoRoom
  <2>1. SpaceOK'
    BY <1>3 DEF NoRoom, SpaceOK, QualsOK, QualOK, MemoryOK
  <2>2. \A d \in Var : TextIn(mem', qual'[d]) = TextIn(mem, qual[d])
    BY <1>3 DEF NoRoom
  <2>3. QED
    BY <2>1, <2>2, SameIs
<1>4. CASE \E d \in Var, s \in Literal : Copy(d, s) \/ Make(d, s)
  BY <1>4, CopyStep, MakeStep
<1>5. CASE \E d, x \in Var, i \in 1..MaxLen + 1, j \in 0..MaxLen : Subscript(d, x, i, j)
  BY <1>5, SubscriptStep
<1>6. CASE \E d, x, y \in Var : Concat(d, x, y)
  BY <1>6, ConcatStep
<1>7. CASE UNCHANGED vars
  <2>1. SpaceOK'
    BY <1>7 DEF vars, SpaceOK, QualsOK, QualOK, MemoryOK
  <2>2. \A d \in Var : TextIn(mem', qual'[d]) = TextIn(mem, qual[d])
    BY <1>7 DEF vars
  <2>3. QED
    BY <2>1, <2>2, SameIs
<1>8. QED
  BY <1>1, <1>2, <1>3, <1>4, <1>5, <1>6, <1>7 DEF Next

\* When strfree falls, a collection has packed the strings.
LEMMA CompactStep ==
  ASSUME RegionFits, SpaceOK, [Next]_vars, strfree' < strfree
  PROVE  strfree' - strbase = Cardinality(Covered(qual))
<1>1. CollectWhenDue
  <2>1. SUFFICES ASSUME ~CollectWhenDue PROVE FALSE
    OBVIOUS
  <2>2. PICK a, b : a = strfree /\ b = strfree'
    OBVIOUS
  <2>3. a \in Nat /\ b \in Nat /\ a <= b /\ b < a
    BY <2>1, <2>2, OthersGrow, StepOK DEF SpaceOK
  <2>4. QED
    BY <2>3
<1>2. ~(strfree' = strfree)
  <2>1. PICK a, b : a = strfree /\ b = strfree'
    OBVIOUS
  <2>2. a \in Nat /\ b < a
    BY <2>1 DEF SpaceOK
  <2>3. a # b
    BY <2>2
  <2>4. QED
    BY <2>1, <2>3
<1>3. PICK list \in Lists : scollect(list)
  BY <1>1, <1>2 DEF CollectWhenDue, Collect
<1>4. QED
  BY <1>3, ScollectKeeps

-----------------------------------------------------------------------------
(* What holds for any variables, characters and strings, if the            *)
(* differences of addresses fit an int, which qlcmp supposes.              *)

\* SpaceOK holds in every state: each qualifier lies outside the region or in
\* the part of it that is in use, and the memory in use holds characters.
THEOREM SpaceInvariant == ASSUME RegionFits PROVE Spec => []SpaceOK
<1>1. Init => SpaceOK
  BY InitOK
<1>2. SpaceOK /\ [Next]_vars => SpaceOK'
  BY StepOK
<1>3. QED
  BY <1>1, <1>2, PTL DEF Spec

\* A program sees values: an operation changes no string but the one it assigns
\* to, whatever characters strings share (ocat.r, oref.r), and a collection
\* that moves them all changes none (rmemmgt.r).
THEOREM StringsKeepValues == ASSUME RegionFits PROVE Spec => ImplementsStrings
<1>1. Init => SpaceOK /\ S!Init
  BY InitOK
<1>2. SpaceOK /\ [Next]_vars => SpaceOK' /\ [S!Next]_([d \in Var |-> Text(qual[d])])
  BY StepOK
<1>3. QED
  BY <1>1, <1>2, PTL DEF Spec, ImplementsStrings, S!Spec

\* A collection leaves the characters that are in use, each of them once
\* however many strings share it, and nothing else (scollect).
THEOREM CollectionsCompact == ASSUME RegionFits PROVE Spec => Compacted
<1>1. Init => SpaceOK
  BY InitOK
<1>2. SpaceOK /\ [Next]_vars => SpaceOK'
  BY StepOK
<1>3. SpaceOK /\ [Next]_vars =>
        [strfree' < strfree => strfree' - strbase = Cardinality(Covered(qual))]_vars
  BY CompactStep
<1>4. QED
  BY <1>1, <1>2, <1>3, PTL DEF Spec, Compacted

\* "The string qualifiers are now ordered by starting location": what scollect
\* says of the list when qsort has come back holds of every list that it may
\* leave.
THEOREM AddressesInOrder == ASSUME RegionFits PROVE Spec => []OrderedByLocation
<1>1. SpaceOK => OrderedByLocation
  <2> SUFFICES ASSUME SpaceOK, NEW s \in Lists, NEW i \in 1..Len(s) - 1
               PROVE  qual[s[i]].loc <= qual[s[i + 1]].loc
    BY DEF OrderedByLocation
  <2>1. ListOK(s)
    BY ListsAreOrdered
  <2>2. PICK j, n : j = i + 1 /\ n = Len(s)
    OBVIOUS
  <2>3. i \in 1..n /\ j \in 1..n /\ i < j
    BY <2>1, <2>2 DEF ListOK
  <2>4. QED
    BY <2>1, <2>2, <2>3 DEF ListOK, Begins
<1>2. QED
  BY <1>1, SpaceInvariant, PTL
=============================================================================
