---------------------------- MODULE ListsProofs ----------------------------
(***************************************************************************)
(* Proofs about Lists, for any values and any bounds, of a list that does  *)
(* not come from L1 ||| L2: its chain of circular buffers implements a     *)
(* sequence, and !L produces the elements of that sequence.                *)
(***************************************************************************)
EXTENDS Lists, ProofLemmas, FiniteSetTheorems

Pointer == Block \cup {NULL}

BlockType ==
  [listprev : Pointer, listnext : Pointer, nslots : Nat, first : Nat, nused : Nat,
   lslots : Seq(Value \cup {None})]

\* A block whose slots in use hold values.
BlockOK(x) ==
  /\ x \in BlockType
  /\ x.first <= x.nslots /\ x.nused <= x.nslots /\ Len(x.lslots) = x.nslots
  /\ x.nslots # 0 => x.first < x.nslots
  /\ \A n \in 0..x.nused - 1 : Elem(x, n) \in Value

BlocksOK(bs) == bs \in [Block -> BlockType] /\ \A b \in Block : BlockOK(bs[b])

\* The blocks bs are linked along p, in both directions, and no further.
Chain(bs, p) ==
  /\ p \in Seq(Block) /\ Len(p) # 0
  /\ \A m, n \in 1..Len(p) : p[m] = p[n] => m = n
  /\ \A m \in 1..Len(p) - 1 : bs[p[m]].listnext = p[m + 1]
  /\ \A m \in 2..Len(p) : bs[p[m]].listprev = p[m - 1]
  /\ bs[p[1]].listprev = NULL
  /\ bs[p[Len(p)]].listnext = NULL

-----------------------------------------------------------------------------
(* The walks of From and Contents.                                         *)

\* A function that walks along next from any place, for n steps at most, and
\* collects what h says of every place.
WalkOf(N, D, h, next, w) ==
  w = [n \in 0..N |-> [x \in D |-> IF n = 0 \/ x = NULL THEN <<>>
                                    ELSE h[x] \o w[n - 1][next[x]]]]

LEMMA WalkExists ==
  ASSUME NEW N \in Nat, NEW D, NEW h, NEW next
  PROVE  \E w : WalkOf(N, D, h, next, w)
<1> DEFINE Row(w, n) == [x \in D |-> IF n = 0 \/ x = NULL THEN <<>>
                                      ELSE h[x] \o w[n - 1][next[x]]]
           T == {m \in Nat : \E w : w = [n \in 0..m |-> Row(w, n)]}
<1>1. 0 \in T
  <2>1. PICK w : w = [n \in 0..0 |-> [x \in D |-> <<>>]]
    OBVIOUS
  <2>2. \A n \in 0..0 : Row(w, n) = [x \in D |-> <<>>]
    OBVIOUS
  <2> HIDE DEF Row
  <2>3. w = [n \in 0..0 |-> Row(w, n)]
    BY <2>1, <2>2
  <2>4. QED
    BY <2>3
<1>2. ASSUME NEW m \in T PROVE m + 1 \in T
  <2>1. PICK w : w = [n \in 0..m |-> Row(w, n)]
    OBVIOUS
  <2>2. m \in Nat
    OBVIOUS
  <2>3. PICK v : v = [n \in 0..m + 1 |-> IF n = m + 1 THEN Row(w, n) ELSE w[n]]
    OBVIOUS
  <2>4. ASSUME NEW n \in 0..m + 1 PROVE v[n] = Row(v, n)
    <3>1. v[n] = Row(w, n)
      <4>1. CASE n = m + 1
        BY <2>3, <4>1
      <4>2. CASE n # m + 1
        <5>1. n \in 0..m
          BY <2>2, <4>2
        <5>2. v[n] = w[n]
          BY <2>3, <4>2
        <5> HIDE DEF Row
        <5>3. w[n] = Row(w, n)
          BY <2>1, <5>1
        <5>4. QED
          BY <5>2, <5>3
      <4>3. QED
        BY <4>1, <4>2
    <3>2. n # 0 => v[n - 1] = w[n - 1]
      <4>1. SUFFICES ASSUME n # 0 PROVE v[n - 1] = w[n - 1]
        OBVIOUS
      <4>2. n - 1 \in 0..m + 1 /\ n - 1 # m + 1
        BY <2>2, <4>1
      <4>3. QED
        BY <2>3, <4>2
    <3>3. Row(v, n) = Row(w, n)
      BY <3>2
    <3>4. QED
      BY <3>1, <3>3
  <2>5. v = [n \in 0..m + 1 |-> Row(v, n)]
    <3> HIDE DEF Row
    <3>1. DOMAIN v = 0..m + 1 /\ v = [n \in 0..m + 1 |-> v[n]]
      BY <2>3
    <3>2. QED
      BY <2>4, <3>1
  <2>6. m + 1 \in Nat
    BY <2>2
  <2> HIDE DEF Row
  <2>7. QED
    BY <2>5, <2>6
<1> HIDE DEF T
<1>3. T = Nat
  <2>1. T \subseteq Nat
    BY DEF T
  <2>2. QED
    BY <1>1, <1>2, <2>1, Inductive
<1>4. N \in T
  BY <1>3
<1>5. QED
  BY <1>4 DEF T, WalkOf

Nexts(bs) == [x \in Block |-> bs[x].listnext]

\* One step of a walk.
LEMMA WalkStep ==
  ASSUME NEW N \in Nat, NEW h, NEW next, NEW w, WalkOf(N, Pointer, h, next, w),
         NEW n \in 0..N, NEW x \in Pointer
  PROVE  w[n][x] = IF n = 0 \/ x = NULL THEN <<>> ELSE h[x] \o w[n - 1][next[x]]
<1>1. PICK r : r = [y \in Pointer |-> IF n = 0 \/ y = NULL THEN <<>>
                                       ELSE h[y] \o w[n - 1][next[y]]]
  OBVIOUS
<1>2. w[n] = r
  <2>1. w = [m \in 0..N |-> [y \in Pointer |-> IF m = 0 \/ y = NULL THEN <<>>
                                                ELSE h[y] \o w[m - 1][next[y]]]]
    BY DEF WalkOf
  <2>2. [m \in 0..N |-> [y \in Pointer |-> IF m = 0 \/ y = NULL THEN <<>>
                                            ELSE h[y] \o w[m - 1][next[y]]]][n] = r
    BY <1>1
  <2>3. QED
    BY <2>1, <2>2, Zenon
<1>3. r[x] = IF n = 0 \/ x = NULL THEN <<>> ELSE h[x] \o w[n - 1][next[x]]
  BY <1>1
<1>4. QED
  BY <1>2, <1>3, Zenon

\* What a walk collects is a sequence.
LEMMA WalkType ==
  ASSUME NEW S, NEW N \in Nat, NEW h \in [Block -> Seq(S)], NEW next \in [Block -> Pointer],
         NEW w, WalkOf(N, Pointer, h, next, w)
  PROVE  \A n \in 0..N : \A x \in Pointer : w[n][x] \in Seq(S)
<1> DEFINE T == {n \in Nat : n \in 0..N => \A x \in Pointer : w[n][x] \in Seq(S)}
<1>1. 0 \in T
  <2>1. SUFFICES ASSUME NEW x \in Pointer PROVE w[0][x] \in Seq(S)
    OBVIOUS
  <2>2. 0 \in 0..N
    OBVIOUS
  <2>3. w[0][x] = <<>>
    BY <2>2, WalkStep
  <2>4. QED
    BY <2>3
<1>2. ASSUME NEW n \in T PROVE n + 1 \in T
  <2>1. n \in Nat /\ n + 1 \in Nat /\ n + 1 # 0 /\ n + 1 - 1 = n
    OBVIOUS
  <2>2. SUFFICES ASSUME n + 1 \in 0..N, NEW x \in Pointer PROVE w[n + 1][x] \in Seq(S)
    BY <2>1
  <2>3. \A y \in Pointer : w[n][y] \in Seq(S)
    BY <2>1, <2>2
  <2>4. w[n + 1][x] = IF n + 1 = 0 \/ x = NULL THEN <<>> ELSE h[x] \o w[n + 1 - 1][next[x]]
    BY <2>2, WalkStep
  <2>5. CASE x = NULL
    BY <2>4, <2>5
  <2>6. CASE x # NULL
    <3>1. PICK a, b : a = h[x] /\ b = w[n][next[x]]
      OBVIOUS
    <3>2. x \in Block
      BY <2>6 DEF Pointer
    <3>3. a \in Seq(S) /\ b \in Seq(S)
      BY <2>3, <3>1, <3>2
    <3>4. a \o b \in Seq(S)
      BY <3>3
    <3>5. w[n + 1][x] = a \o b
      BY <2>1, <2>4, <2>6, <3>1
    <3>6. QED
      BY <3>4, <3>5
  <2>7. QED
    BY <2>5, <2>6
<1> HIDE DEF T
<1>3. T = Nat
  <2>1. T \subseteq Nat
    BY DEF T
  <2>2. QED
    BY <1>1, <1>2, <2>1, Inductive
<1>4. QED
  BY <1>3 DEF T

\* Distinct blocks are no more than there are.
LEMMA ChainFits ==
  ASSUME NEW bs, NEW p, Chain(bs, p)
  PROVE  /\ Len(p) \in Nat \ {0} /\ Len(p) <= MaxBlocks
         /\ \A m \in 1..Len(p) : p[m] \in Block
         /\ \A b \in Block : (\A m \in 1..Len(p) : p[m] # b) => Len(p) < MaxBlocks
<1>1. PICK n, f, D : n = Len(p) /\ D = 1..n /\ f = [m \in D |-> p[m]]
  OBVIOUS
<1>2. n \in Nat \ {0} /\ \A m \in 1..n : p[m] \in Block
  BY <1>1 DEF Chain
<1>3. f \in Injection(D, Block)
  <2>1. \A a, b \in D : p[a] = p[b] => a = b
    BY <1>1 DEF Chain
  <2>2. f \in [D -> Block]
    BY <1>1, <1>2
  <2>3. \A a, b \in D : f[a] = f[b] => a = b
    BY <1>1, <2>1
  <2>4. QED
    BY <2>2, <2>3 DEF Injection, IsInjective
<1>4. IsFiniteSet(Block) /\ Cardinality(Block) = MaxBlocks /\ Cardinality(D) = n
  <2>1. MaxBlocks \in Int /\ n \in Int /\ 1 \in Int /\ ~(1 > MaxBlocks) /\ ~(1 > n)
        /\ MaxBlocks - 1 + 1 = MaxBlocks /\ n - 1 + 1 = n
    BY <1>2, BoundsAssumption
  <2>2. IsFiniteSet(1..MaxBlocks) /\ Cardinality(1..MaxBlocks) = MaxBlocks
        /\ Cardinality(1..n) = n
    BY <2>1, FS_Interval
  <2>3. QED
    BY <1>1, <2>2 DEF Block
<1>5. n <= MaxBlocks /\ (n = MaxBlocks => f \in Surjection(D, Block))
  <2>1. Cardinality(D) <= Cardinality(Block)
        /\ (Cardinality(D) = Cardinality(Block) <=> f \in Surjection(D, Block))
    BY <1>3, <1>4, FS_Injection
  <2>2. QED
    BY <1>4, <2>1
<1>6. ASSUME NEW b \in Block, \A m \in 1..n : p[m] # b, n = MaxBlocks PROVE FALSE
  <2>1. \E m \in D : f[m] = b
    BY <1>5, <1>6 DEF Surjection
  <2>2. QED
    BY <1>1, <1>6, <2>1
<1>7. QED
  BY <1>1, <1>2, <1>5, <1>6, BoundsAssumption

\* s has what h says of the blocks of p from the kth on, and c is s flattened.
Gathers(s, h, p, k, c) ==
  /\ Len(s) = Len(p) - k + 1
  /\ \A m \in 1..Len(s) : s[m] = h[p[k + m - 1]]
  /\ c = FlattenSeq(s)

\* What a walk collects from a block of the chain on.
LEMMA Follow ==
  ASSUME NEW bs, bs \in [Block -> BlockType], NEW p, Chain(bs, p),
         NEW S, NEW h \in [Block -> Seq(S)],
         NEW w, WalkOf(MaxBlocks, Pointer, h, Nexts(bs), w), NEW k \in 1..Len(p)
  PROVE  \E s \in Seq(Seq(S)) : Gathers(s, h, p, k, w[MaxBlocks][p[k]])
<1>1. PICK L, N : L = Len(p) /\ N = MaxBlocks
  OBVIOUS
<1>2. /\ L \in Nat \ {0} /\ N \in Nat /\ L <= N /\ k \in 1..L
      /\ \A m \in 1..L : p[m] \in Block
  BY <1>1, ChainFits, BoundsAssumption
<1>3. Nexts(bs) \in [Block -> Pointer]
  BY DEF Nexts, BlockType
<1>4. /\ \A m \in 1..L - 1 : Nexts(bs)[p[m]] = p[m + 1]
      /\ Nexts(bs)[p[L]] = NULL
  <2>1. \A b \in Block : Nexts(bs)[b] = bs[b].listnext
    BY DEF Nexts
  <2>2. \A m \in 1..L - 1 : bs[p[m]].listnext = p[m + 1] /\ m \in 1..L
    BY <1>1, <1>2 DEF Chain
  <2>3. bs[p[L]].listnext = NULL /\ L \in 1..L
    BY <1>1, <1>2 DEF Chain
  <2>4. QED
    BY <1>2, <2>1, <2>2, <2>3
<1>5. \A n \in 0..N : \A x \in Pointer : w[n][x] \in Seq(S)
  BY <1>1, <1>2, <1>3, WalkType
<1>6. \A n \in 0..N : \A x \in Pointer :
        w[n][x] = IF n = 0 \/ x = NULL THEN <<>> ELSE h[x] \o w[n - 1][Nexts(bs)[x]]
  BY <1>1, <1>2, WalkStep
<1> DEFINE Part(m, s) == /\ Len(s) = m
                         /\ \A d \in 1..m : s[d] = h[p[k + d - 1]]
                         /\ w[N][p[k]] = FlattenSeq(s) \o w[N - m][p[k + m]]
           T == {m \in Nat : k + m <= L => \E s \in Seq(Seq(S)) : Part(m, s)}
<1>7. 0 \in T
  <2>1. PICK c : c = w[N][p[k]]
    OBVIOUS
  <2>2. c \in Seq(S)
    BY <1>2, <1>5, <2>1 DEF Pointer
  <2>3. FlattenSeq(<<>>) = <<>>
    BY DEF FlattenSeq
  <2>4. <<>> \o c = c
    BY <2>2
  <2>5. N - 0 = N /\ k + 0 = k
    BY <1>2
  <2>6. Part(0, <<>>)
    <3>1. Len(<<>>) = 0 /\ 1..0 = {}
      OBVIOUS
    <3>2. w[N][p[k]] = FlattenSeq(<<>>) \o w[N - 0][p[k + 0]]
      BY <2>1, <2>3, <2>4, <2>5
    <3>3. QED
      BY <3>1, <3>2, Zenon
  <2>7. <<>> \in Seq(Seq(S))
    OBVIOUS
  <2> HIDE DEF Part
  <2>8. QED
    BY <2>6, <2>7
<1>8. ASSUME NEW m \in T PROVE m + 1 \in T
  <2>1. m \in Nat /\ m + 1 \in Nat
    OBVIOUS
  <2>2. SUFFICES ASSUME k + (m + 1) <= L PROVE \E s \in Seq(Seq(S)) : Part(m + 1, s)
    BY <2>1
  <2>3. /\ k + m <= L /\ k + m \in 1..L - 1 /\ k + m \in 1..L /\ k + (m + 1) = k + m + 1
        /\ k + m + 1 \in 1..L /\ N - m \in 0..N /\ N - m # 0 /\ N - (m + 1) = N - m - 1
        /\ N - m - 1 \in 0..N /\ k + (m + 1) - 1 = k + m
    BY <1>2, <2>1, <2>2
  <2>4. PICK s \in Seq(Seq(S)) : Part(m, s)
    BY <2>1, <2>3
  <2>5. PICK a, b, x : a = h[p[k + m]] /\ b = w[N - m - 1][p[k + m + 1]] /\ x = p[k + m]
    OBVIOUS
  <2>6. x \in Block /\ x \in Pointer /\ x # NULL /\ p[k + m + 1] \in Pointer
    <3>1. x \in Block /\ p[k + m + 1] \in Block
      BY <1>2, <2>3, <2>5
    <3>2. QED
      BY <3>1 DEF Pointer, Block, NULL
  <2>7. a \in Seq(S) /\ b \in Seq(S)
    BY <1>5, <2>3, <2>5, <2>6
  <2>8. w[N - m][x] = a \o b
    <3>1. w[N - m][x] = h[x] \o w[N - m - 1][Nexts(bs)[x]]
      BY <1>6, <2>3, <2>6
    <3>2. Nexts(bs)[x] = p[k + m + 1]
      BY <1>4, <2>3, <2>5
    <3>3. QED
      BY <2>5, <3>1, <3>2
  <2>9. PICK t : t = Append(s, a)
    OBVIOUS
  <2>10. t \in Seq(Seq(S)) /\ Len(t) = m + 1 /\ \A d \in 1..m + 1 : t[d] = h[p[k + d - 1]]
    <3>1. /\ t \in Seq(Seq(S)) /\ Len(t) = m + 1 /\ t[m + 1] = a
          /\ \A d \in 1..m : t[d] = s[d]
      BY <2>1, <2>4, <2>7, <2>9
    <3>2. \A d \in 1..m : s[d] = h[p[k + d - 1]]
      BY <2>4
    <3>3. a = h[p[k + (m + 1) - 1]]
      BY <2>3, <2>5
    <3>4. \A d \in 1..m + 1 : d \in 1..m \/ d = m + 1
      BY <2>1
    <3>5. QED
      BY <3>1, <3>2, <3>3, <3>4
  <2>11. w[N][p[k]] = FlattenSeq(t) \o b
    <3>1. PICK c : c = FlattenSeq(s)
      OBVIOUS
    <3>2. c \in Seq(S)
      BY <3>1, FlattenType
    <3>3. FlattenSeq(t) = c \o a
      BY <2>7, <2>9, <3>1, FlattenAppend
    <3>4. w[N][p[k]] = c \o (a \o b)
      BY <2>4, <2>5, <2>8, <3>1
    <3>5. c \o (a \o b) = (c \o a) \o b
      BY <2>7, <3>2, SMTT(30)
    <3>6. QED
      BY <3>3, <3>4, <3>5
  <2>12. Part(m + 1, t)
    BY <2>3, <2>5, <2>10, <2>11
  <2>13. t \in Seq(Seq(S))
    BY <2>10
  <2> HIDE DEF Part
  <2>14. QED
    BY <2>12, <2>13, Zenon
<1> HIDE DEF T
<1>9. T = Nat
  <2>1. T \subseteq Nat
    BY DEF T
  <2>2. QED
    BY <1>7, <1>8, <2>1, Inductive
<1>10. PICK m : m = L - k
  OBVIOUS
<1>11. m \in Nat /\ k + m = L /\ N - m \in 0..N /\ N - m # 0 /\ N - m - 1 \in 0..N
       /\ L \in 1..L /\ k + (m + 1) - 1 = L /\ m + 1 = L - k + 1
  BY <1>2, <1>10
<1>12. PICK s \in Seq(Seq(S)) : Part(m, s)
  <2> HIDE DEF Part
  <2>1. m \in T /\ k + m <= L
    BY <1>2, <1>9, <1>11
  <2>2. QED
    BY <2>1 DEF T
<1>13. PICK a : a = h[p[L]]
  OBVIOUS
<1>14. p[L] \in Block /\ a \in Seq(S)
  BY <1>2, <1>11, <1>13
<1>15. w[N - m][p[L]] = a
  <2>1. p[L] \in Pointer /\ p[L] # NULL /\ NULL \in Pointer
    BY <1>14 DEF Pointer, Block, NULL
  <2>2. w[N - m - 1][NULL] = <<>>
    BY <1>6, <1>11, <2>1
  <2>3. w[N - m][p[L]] = a \o <<>>
    BY <1>4, <1>6, <1>11, <1>13, <2>1, <2>2
  <2>4. QED
    BY <1>14, <2>3
<1>16. PICK t : t = Append(s, a)
  OBVIOUS
<1>17. Len(s) = m /\ \A d \in 1..m : s[d] = h[p[k + d - 1]]
  BY <1>12
<1>18. t \in Seq(Seq(S)) /\ Len(t) = m + 1 /\ \A d \in 1..m + 1 : t[d] = h[p[k + d - 1]]
  <2>1. /\ t \in Seq(Seq(S)) /\ Len(t) = m + 1 /\ t[m + 1] = a
        /\ \A d \in 1..m : t[d] = s[d]
    BY <1>11, <1>14, <1>16, <1>17
  <2>2. \A d \in 1..m + 1 : d \in 1..m \/ d = m + 1
    BY <1>11
  <2>3. QED
    BY <1>11, <1>13, <1>17, <2>1, <2>2
<1>19. w[N][p[k]] = FlattenSeq(t)
  <2>1. w[N][p[k]] = FlattenSeq(s) \o a
    BY <1>11, <1>12, <1>15
  <2>2. QED
    BY <1>14, <1>16, <2>1, FlattenAppend
<1> HIDE DEF Part
<1>20. Gathers(t, h, p, k, w[MaxBlocks][p[k]])
  BY <1>1, <1>11, <1>18, <1>19 DEF Gathers
<1>21. QED
  BY <1>18, <1>20

\* The elements of a block.
LEMMA ElemsType ==
  ASSUME NEW x, BlockOK(x)
  PROVE  Elems(x) \in Seq(Value) /\ Len(Elems(x)) = x.nused
<1>1. x.nused \in Nat
  BY DEF BlockOK, BlockType
<1>2. \A n \in 1..x.nused : Elem(x, n - 1) \in Value
  <2> TAKE n \in 1..x.nused
  <2>1. n - 1 \in 0..x.nused - 1
    BY <1>1
  <2>2. QED
    BY <2>1 DEF BlockOK
<1>3. QED
  BY <1>1, <1>2 DEF Elems

\* The elements of the blocks of p.
Rows(bs, p) == [m \in 1..Len(p) |-> Elems(bs[p[m]])]

\* r has the elements of the blocks of p.
IsRows(bs, p, r) ==
  /\ r \in Seq(Seq(Value)) /\ Len(r) = Len(p)
  /\ \A m \in 1..Len(p) : r[m] = Elems(bs[p[m]])
  /\ FlattenSeq(r) \in Seq(Value)

LEMMA RowsType ==
  ASSUME NEW bs, BlocksOK(bs), NEW p, Chain(bs, p)
  PROVE  IsRows(bs, p, Rows(bs, p))
<1>1. \A m \in 1..Len(p) : Elems(bs[p[m]]) \in Seq(Value)
  BY ElemsType, ChainFits DEF BlocksOK
<1>2. Len(p) \in Nat
  BY ChainFits
<1>3. Rows(bs, p) \in Seq(Seq(Value))
  BY <1>1, <1>2 DEF Rows
<1>4. Len(Rows(bs, p)) = Len(p) /\ \A m \in 1..Len(p) : Rows(bs, p)[m] = Elems(bs[p[m]])
  BY <1>2 DEF Rows
<1>5. FlattenSeq(Rows(bs, p)) \in Seq(Value)
  BY <1>3, FlattenType
<1>6. QED
  BY <1>3, <1>4, <1>5 DEF IsRows

\* A walk of Contents collects the elements of the chain.
LEMMA ElementsOf ==
  ASSUME NEW bs, BlocksOK(bs), NEW p, Chain(bs, p)
  PROVE  Elements(bs, p[1]) = FlattenSeq(Rows(bs, p))
<1>1. PICK h, N : h = [x \in Block |-> Elems(bs[x])] /\ N = MaxBlocks
  OBVIOUS
<1>2. h \in [Block -> Seq(Value)] /\ bs \in [Block -> BlockType] /\ N \in Nat
  BY <1>1, ElemsType, BoundsAssumption DEF BlocksOK
<1> DEFINE Body(w) == [n \in 0..N |-> [x \in Pointer |->
                         IF n = 0 \/ x = NULL THEN <<>>
                         ELSE Elems(bs[x]) \o w[n - 1][bs[x].listnext]]]
<1>3. \A w : WalkOf(N, Pointer, h, Nexts(bs), w) <=> w = Body(w)
  <2> SUFFICES ASSUME NEW w PROVE WalkOf(N, Pointer, h, Nexts(bs), w) <=> w = Body(w)
    OBVIOUS
  <2> DEFINE Mine == [n \in 0..N |-> [x \in Pointer |->
                        IF n = 0 \/ x = NULL THEN <<>>
                        ELSE h[x] \o w[n - 1][Nexts(bs)[x]]]]
  <2>1. \A x \in Pointer : x # NULL => h[x] = Elems(bs[x]) /\ Nexts(bs)[x] = bs[x].listnext
    BY <1>1 DEF Nexts, Pointer
  <2>2. Mine = Body(w)
    BY <2>1
  <2> HIDE DEF Body
  <2>3. WalkOf(N, Pointer, h, Nexts(bs), w) <=> w = Mine
    BY DEF WalkOf
  <2>4. QED
    BY <2>2, <2>3
<1>4. \E w : w = Body(w)
  <2> HIDE DEF Body
  <2>1. \E w : WalkOf(N, Pointer, h, Nexts(bs), w)
    BY <1>2, WalkExists
  <2>2. QED
    BY <1>3, <2>1
<1>5. PICK w : w = CHOOSE v : v = Body(v)
  OBVIOUS
<1>6. w = Body(w)
  <2> HIDE DEF Body
  <2>1. QED
    BY <1>4, <1>5
<1>7. Elements(bs, p[1]) = w[N][p[1]]
  BY <1>1, <1>5 DEF Elements, Pointer
<1> HIDE DEF Body
<1>8. WalkOf(MaxBlocks, Pointer, h, Nexts(bs), w)
  BY <1>1, <1>3, <1>6
<1>9. 1 \in 1..Len(p) /\ Len(p) \in Nat
  BY ChainFits
<1>10. PICK s \in Seq(Seq(Value)) : Gathers(s, h, p, 1, w[MaxBlocks][p[1]])
  BY <1>2, <1>8, <1>9, Follow
<1>11. s = Rows(bs, p)
  <2>1. Len(s) = Len(p)
    BY <1>9, <1>10 DEF Gathers
  <2>2. \A d \in 1..Len(p) : s[d] = Elems(bs[p[d]])
    <3> TAKE d \in 1..Len(p)
    <3>1. 1 + d - 1 = d /\ p[d] \in Block
      BY <1>9, ChainFits
    <3>2. QED
      BY <1>1, <1>10, <2>1, <3>1 DEF Gathers
  <2>3. QED
    BY <2>1, <2>2, RowsType DEF IsRows
<1>12. QED
  BY <1>1, <1>7, <1>10, <1>11 DEF Gathers

\* What From finds is what such a walk collects.
LEMMA AlongWalk ==
  ASSUME NEW bs, bs \in [Block -> BlockType], NEW b
  PROVE  \E h, w : /\ h = [x \in Block |-> <<x>>]
                   /\ WalkOf(MaxBlocks, Pointer, h, Nexts(bs), w)
                   /\ Along(bs, b) = w[MaxBlocks][b]
<1>1. PICK h, N : h = [x \in Block |-> <<x>>] /\ N = MaxBlocks
  OBVIOUS
<1>2. N \in Nat
  BY <1>1, BoundsAssumption
<1> DEFINE Body(w) == [n \in 0..N |-> [x \in Pointer |->
                         IF n = 0 \/ x = NULL THEN <<>>
                         ELSE <<x>> \o w[n - 1][bs[x].listnext]]]
<1>3. \A w : WalkOf(N, Pointer, h, Nexts(bs), w) <=> w = Body(w)
  <2> SUFFICES ASSUME NEW w PROVE WalkOf(N, Pointer, h, Nexts(bs), w) <=> w = Body(w)
    OBVIOUS
  <2> DEFINE Mine == [n \in 0..N |-> [x \in Pointer |->
                        IF n = 0 \/ x = NULL THEN <<>>
                        ELSE h[x] \o w[n - 1][Nexts(bs)[x]]]]
  <2>1. \A x \in Pointer : x # NULL => h[x] = <<x>> /\ Nexts(bs)[x] = bs[x].listnext
    BY <1>1 DEF Nexts, Pointer
  <2>2. Mine = Body(w)
    BY <2>1
  <2> HIDE DEF Body
  <2>3. WalkOf(N, Pointer, h, Nexts(bs), w) <=> w = Mine
    BY DEF WalkOf
  <2>4. QED
    BY <2>2, <2>3
<1>4. \E w : w = Body(w)
  <2> HIDE DEF Body
  <2>1. \E w : WalkOf(N, Pointer, h, Nexts(bs), w)
    BY <1>2, WalkExists
  <2>2. QED
    BY <1>3, <2>1
<1>5. PICK w : w = CHOOSE v : v = Body(v)
  OBVIOUS
<1>6. w = Body(w)
  <2> HIDE DEF Body
  <2>1. QED
    BY <1>4, <1>5
<1>7. Along(bs, b) = w[N][b]
  BY <1>1, <1>5 DEF Along, Pointer
<1> HIDE DEF Body
<1>8. WalkOf(MaxBlocks, Pointer, h, Nexts(bs), w)
  BY <1>1, <1>3, <1>6
<1>9. QED
  BY <1>1, <1>7, <1>8

\* From finds blocks, wherever it starts.
LEMMA AlongType ==
  ASSUME NEW bs, bs \in [Block -> BlockType], NEW b \in Pointer
  PROVE  Along(bs, b) \in Seq(Block) /\ Along(bs, NULL) = <<>>
<1>1. ASSUME NEW c \in Pointer
      PROVE  Along(bs, c) \in Seq(Block) /\ (c = NULL => Along(bs, c) = <<>>)
  <2>1. PICK h, w : /\ h = [x \in Block |-> <<x>>]
                    /\ WalkOf(MaxBlocks, Pointer, h, Nexts(bs), w)
                    /\ Along(bs, c) = w[MaxBlocks][c]
    BY AlongWalk
  <2>2. MaxBlocks \in Nat /\ MaxBlocks \in 0..MaxBlocks
    BY BoundsAssumption
  <2>3. h \in [Block -> Seq(Block)] /\ Nexts(bs) \in [Block -> Pointer]
    BY <2>1 DEF Nexts, BlockType
  <2>4. w[MaxBlocks][c] \in Seq(Block)
    <3>1. \A n \in 0..MaxBlocks : \A x \in Pointer : w[n][x] \in Seq(Block)
      BY <2>1, <2>2, <2>3, WalkType
    <3>2. QED
      BY <2>2, <3>1
  <2>5. c = NULL => w[MaxBlocks][c] = <<>>
    BY <2>1, <2>2, WalkStep
  <2>6. QED
    BY <2>1, <2>4, <2>5
<1>2. NULL \in Pointer
  BY DEF Pointer
<1>3. QED
  BY <1>1, <1>2

\* From a block of the chain on, it finds the rest of the chain.
LEMMA AlongOf ==
  ASSUME NEW bs, bs \in [Block -> BlockType], NEW p, Chain(bs, p), NEW k \in 1..Len(p)
  PROVE  /\ Along(bs, p[k]) \in Seq(Block)
         /\ Len(Along(bs, p[k])) = Len(p) - k + 1
         /\ \A m \in 1..Len(p) - k + 1 : Along(bs, p[k])[m] = p[k + m - 1]
<1>1. PICK h, w : /\ h = [x \in Block |-> <<x>>]
                  /\ WalkOf(MaxBlocks, Pointer, h, Nexts(bs), w)
                  /\ Along(bs, p[k]) = w[MaxBlocks][p[k]]
  BY AlongWalk
<1>2. h \in [Block -> Seq(Block)]
  BY <1>1
<1>3. PICK s \in Seq(Seq(Block)) : Gathers(s, h, p, k, w[MaxBlocks][p[k]])
  BY <1>1, <1>2, Follow
<1>4. PICK L, n, t : L = Len(p) /\ n = L - k + 1 /\ t = [m \in 1..n |-> p[k + m - 1]]
  OBVIOUS
<1>5. L \in Nat /\ n \in Nat /\ k \in Nat /\ \A m \in 1..L : p[m] \in Block
  BY <1>4, ChainFits
<1>6. \A m \in 1..n : k + m - 1 \in 1..L /\ p[k + m - 1] \in Block
  BY <1>4, <1>5
<1>7. t \in Seq(Block) /\ Len(t) = n /\ \A m \in 1..n : t[m] = p[k + m - 1]
  BY <1>4, <1>5, <1>6
<1>8. s = [m \in 1..Len(t) |-> <<t[m]>>]
  <2>1. Len(s) = n /\ \A m \in 1..n : s[m] = h[p[k + m - 1]]
    BY <1>3, <1>4 DEF Gathers
  <2>2. \A m \in 1..n : s[m] = <<t[m]>>
    BY <1>1, <1>6, <1>7, <2>1
  <2>3. PICK r : r = [m \in 1..n |-> <<t[m]>>]
    OBVIOUS
  <2>4. r \in Seq(Seq(Block)) /\ Len(r) = n /\ \A m \in 1..n : r[m] = <<t[m]>>
    BY <1>5, <1>7, <2>3
  <2>5. s = r
    <3>1. s \in Seq(Seq(Block)) /\ r \in Seq(Seq(Block)) /\ Len(s) = Len(r)
      BY <2>1, <2>4
    <3>2. \A m \in 1..Len(s) : s[m] = r[m]
      BY <2>1, <2>2, <2>4
    <3>3. QED
      BY <3>1, <3>2, SeqEqual
  <2>6. QED
    BY <1>7, <2>3, <2>5
<1>9. Along(bs, p[k]) = t
  <2>1. FlattenSeq(s) = t
    BY <1>7, <1>8, FlattenSingletons
  <2>2. QED
    BY <1>1, <1>3, <2>1 DEF Gathers
<1>10. QED
  BY <1>4, <1>7, <1>9

LEMMA AlongAll ==
  ASSUME NEW bs, bs \in [Block -> BlockType], NEW p, Chain(bs, p)
  PROVE  Along(bs, p[1]) = p
<1>1. Len(p) \in Nat /\ 1 \in 1..Len(p) /\ p \in Seq(Block)
  BY ChainFits DEF Chain
<1>2. PICK a, k : a = Along(bs, p[1]) /\ k = 1
  OBVIOUS
<1>3. a \in Seq(Block) /\ Len(a) = Len(p) - k + 1 /\ \A m \in 1..Len(p) - k + 1 : a[m] = p[k + m - 1]
  BY <1>1, <1>2, AlongOf
<1>4. Len(a) = Len(p) /\ \A m \in 1..Len(p) : a[m] = p[m]
  BY <1>1, <1>2, <1>3
<1>5. QED
  BY <1>1, <1>2, <1>3, <1>4

-----------------------------------------------------------------------------
(* What the operations make of a block.                                    *)

\* The slots are different.
LEMMA SlotIn ==
  ASSUME NEW x, BlockOK(x), NEW n \in 0..x.nslots - 1
  PROVE  /\ Slot(x, n) \in 0..x.nslots - 1
         /\ \A m \in 0..x.nslots - 1 : Slot(x, m) = Slot(x, n) => m = n
<1>1. x.nslots \in Nat /\ x.first \in Nat
  BY DEF BlockOK, BlockType
<1>2. x.nslots # 0
  BY <1>1
<1>3. x.first < x.nslots
  BY <1>2 DEF BlockOK
<1>4. QED
  BY <1>1, <1>3 DEF Slot

AfterPut(x, v) ==
  [x EXCEPT !.lslots = [x.lslots EXCEPT ![Slot(x, x.nused) + 1] = v], !.nused = x.nused + 1]

AfterPush(x, v) ==
  LET j == IF x.first = 0 THEN x.nslots - 1 ELSE x.first - 1
  IN [x EXCEPT !.lslots = [x.lslots EXCEPT ![j + 1] = v], !.first = j, !.nused = x.nused + 1]

AfterGet(x) ==
  [x EXCEPT !.first = IF x.first + 1 >= x.nslots THEN 0 ELSE x.first + 1,
            !.nused = x.nused - 1]

AfterPull(x) == [x EXCEPT !.nused = x.nused - 1]

AfterAssign(x, n, v) ==
  [x EXCEPT !.lslots = [x.lslots EXCEPT ![Slot(x, n) + 1] = v]]

\* Neither the links nor the number of slots.
Alike(x, y) ==
  x.listprev = y.listprev /\ x.listnext = y.listnext /\ x.nslots = y.nslots

LEMMA BlockFields ==
  ASSUME NEW x, BlockOK(x)
  PROVE  /\ x.listprev \in Pointer /\ x.listnext \in Pointer
         /\ x.nslots \in Nat /\ x.first \in Nat /\ x.nused \in Nat
         /\ x.lslots \in Seq(Value \cup {None}) /\ Len(x.lslots) = x.nslots
         /\ x.first <= x.nslots /\ x.nused <= x.nslots
         /\ x.nslots # 0 => x.first < x.nslots
         /\ \A n \in 0..x.nused - 1 : Elem(x, n) \in Value
BY DEF BlockOK, BlockType

LEMMA PutBlock ==
  ASSUME NEW x, BlockOK(x), x.nused < x.nslots, NEW v \in Value
  PROVE  /\ BlockOK(AfterPut(x, v)) /\ Alike(x, AfterPut(x, v))
         /\ Elems(AfterPut(x, v)) = Append(Elems(x), v)
         /\ AfterPut(x, v).nused = x.nused + 1
<1>1. PICK y, k, l : /\ y = AfterPut(x, v) /\ k = x.nused /\ l = x.nslots
  OBVIOUS
<1>2. k \in Nat /\ l \in Nat /\ k < l /\ x.first \in Nat /\ x.first < l /\ l # 0
  BY <1>1, BlockFields
<1>3. x \in BlockType
  BY DEF BlockOK
<1>4. /\ y.listprev = x.listprev /\ y.listnext = x.listnext /\ y.nslots = l
      /\ y.first = x.first /\ y.nused = k + 1
      /\ y.lslots = [x.lslots EXCEPT ![Slot(x, k) + 1] = v]
  BY <1>1, <1>3 DEF AfterPut, BlockType
<1>5. k \in 0..l - 1
  BY <1>2
<1>6. Slot(x, k) \in 0..l - 1 /\ \A m \in 0..l - 1 : Slot(x, m) = Slot(x, k) => m = k
  BY <1>1, <1>5, SlotIn
<1>7. y.lslots \in Seq(Value \cup {None}) /\ Len(y.lslots) = l
  <2>1. x.lslots \in Seq(Value \cup {None}) /\ Len(x.lslots) = l
    BY <1>1, BlockFields
  <2>2. Slot(x, k) + 1 \in 1..l
    BY <1>2, <1>6
  <2>3. QED
    BY <1>4, <2>1, <2>2
<1>8. y \in BlockType
  <2>1. PICK ls, u : ls = y.lslots /\ u = k + 1
    OBVIOUS
  <2>2. ls \in Seq(Value \cup {None}) /\ u \in Nat
    BY <1>2, <1>7, <2>1
  <2>3. y = [x EXCEPT !.lslots = ls, !.nused = u]
    BY <1>1, <1>4, <2>1 DEF AfterPut
  <2>4. QED
    BY <1>3, <2>2, <2>3 DEF BlockType
<1>9. \A m \in 0..l - 1 : Slot(y, m) = Slot(x, m)
  BY <1>1, <1>4 DEF Slot
<1>10. \A m \in 0..k : Elem(y, m) = IF m = k THEN v ELSE Elem(x, m)
  <2> TAKE m \in 0..k
  <2>1. m \in 0..l - 1
    BY <1>2
  <2>2. PICK s, t : s = Slot(x, m) + 1 /\ t = Slot(x, k) + 1
    OBVIOUS
  <2>3. s \in 1..l /\ t \in 1..l /\ (s = t <=> m = k)
    <3>1. Slot(x, m) \in 0..l - 1
      BY <1>1, <2>1, SlotIn
    <3>2. QED
      BY <1>2, <1>6, <2>1, <2>2, <3>1
  <2>4. DOMAIN x.lslots = 1..l
    BY <1>1, BlockFields
  <2>5. y.lslots[s] = IF s = t THEN v ELSE x.lslots[s]
    BY <1>4, <2>2, <2>3, <2>4
  <2>6. Elem(y, m) = y.lslots[s] /\ Elem(x, m) = x.lslots[s]
    BY <1>9, <2>1, <2>2 DEF Elem
  <2>7. QED
    BY <2>3, <2>5, <2>6
<1>11. \A m \in 0..y.nused - 1 : Elem(y, m) \in Value
  <2> TAKE m \in 0..y.nused - 1
  <2>1. m \in 0..k /\ (m # k => m \in 0..k - 1)
    BY <1>2, <1>4
  <2>2. m # k => Elem(x, m) \in Value
    BY <1>1, <2>1, BlockFields
  <2>3. QED
    BY <1>10, <2>1, <2>2
<1>12. BlockOK(y)
  BY <1>2, <1>4, <1>7, <1>8, <1>11 DEF BlockOK
<1>13. Elems(y) = Append(Elems(x), v)
  <2>1. PICK e, f : e = Elems(x) /\ f = Elems(y)
    OBVIOUS
  <2>2. e \in Seq(Value) /\ Len(e) = k /\ f \in Seq(Value) /\ Len(f) = k + 1
    BY <1>1, <1>4, <1>12, <2>1, ElemsType
  <2>3. \A n \in 1..k + 1 : f[n] = IF n = k + 1 THEN v ELSE e[n]
    <3> TAKE n \in 1..k + 1
    <3>1. n - 1 \in 0..k /\ (n - 1 = k <=> n = k + 1) /\ (n # k + 1 => n \in 1..k)
      BY <1>2
    <3>2. f[n] = Elem(y, n - 1)
      BY <1>4, <2>1 DEF Elems
    <3>3. n # k + 1 => e[n] = Elem(x, n - 1)
      BY <1>1, <2>1, <3>1 DEF Elems
    <3>4. QED
      BY <1>10, <3>1, <3>2, <3>3
  <2>4. f = Append(e, v)
    BY <1>2, <2>2, <2>3
  <2>5. QED
    BY <2>1, <2>4
<1>14. QED
  BY <1>1, <1>4, <1>12, <1>13 DEF Alike

\* A block known by its slots.
LEMMA ElemsAre ==
  ASSUME NEW y, BlockOK(y), NEW e \in Seq(Value), Len(e) = y.nused,
         \A n \in 0..y.nused - 1 : Elem(y, n) = e[n + 1]
  PROVE  Elems(y) = e
<1>1. Elems(y) \in Seq(Value) /\ Len(Elems(y)) = y.nused /\ y.nused \in Nat
  BY ElemsType, BlockFields
<1>2. \A n \in 1..y.nused : Elems(y)[n] = e[n]
  <2> TAKE n \in 1..y.nused
  <2>1. n - 1 \in 0..y.nused - 1 /\ n - 1 + 1 = n
    BY <1>1
  <2>2. Elem(y, n - 1) = e[n]
    BY <2>1
  <2>3. QED
    BY <2>2 DEF Elems
<1>3. QED
  BY <1>1, <1>2, SeqEqual

LEMMA ElemsAt ==
  ASSUME NEW x, BlockOK(x), NEW n \in 0..x.nused - 1
  PROVE  /\ Elem(x, n) = Elems(x)[n + 1] /\ n + 1 \in 1..x.nused /\ Elem(x, n) \in Value
         /\ n \in 0..x.nslots - 1
<1>1. x.nused \in Nat /\ x.nslots \in Nat /\ x.nused <= x.nslots
  BY BlockFields
<1>2. n + 1 \in 1..x.nused /\ n + 1 - 1 = n /\ n \in 0..x.nslots - 1
  BY <1>1
<1>3. Elems(x)[n + 1] = Elem(x, n + 1 - 1)
  BY <1>2 DEF Elems
<1>4. Elem(x, n) \in Value
  BY BlockFields
<1>5. QED
  BY <1>2, <1>3, <1>4

LEMMA PushBlock ==
  ASSUME NEW x, BlockOK(x), x.nused < x.nslots, NEW v \in Value
  PROVE  /\ BlockOK(AfterPush(x, v)) /\ Alike(x, AfterPush(x, v))
         /\ Elems(AfterPush(x, v)) = <<v>> \o Elems(x)
         /\ AfterPush(x, v).nused = x.nused + 1
<1>1. PICK y, j, k, l : /\ y = AfterPush(x, v) /\ k = x.nused /\ l = x.nslots
                        /\ j = IF x.first = 0 THEN l - 1 ELSE x.first - 1
  OBVIOUS
<1>2. k \in Nat /\ l \in Nat /\ k < l /\ x.first \in Nat /\ x.first < l /\ l # 0
  BY <1>1, BlockFields
<1>3. x \in BlockType /\ j \in 0..l - 1
  BY <1>1, <1>2 DEF BlockOK
<1>4. y = [x EXCEPT !.lslots = [x.lslots EXCEPT ![j + 1] = v], !.first = j, !.nused = k + 1]
  BY <1>1 DEF AfterPush
<1>5. /\ y.listprev = x.listprev /\ y.listnext = x.listnext /\ y.nslots = l
      /\ y.first = j /\ y.nused = k + 1 /\ y.lslots = [x.lslots EXCEPT ![j + 1] = v]
  BY <1>1, <1>3, <1>4 DEF BlockType
<1>6. y.lslots \in Seq(Value \cup {None}) /\ Len(y.lslots) = l
  <2>1. x.lslots \in Seq(Value \cup {None}) /\ Len(x.lslots) = l
    BY <1>1, BlockFields
  <2>2. j + 1 \in 1..l
    BY <1>2, <1>3
  <2>3. QED
    BY <1>5, <2>1, <2>2
<1>7. y \in BlockType
  <2>1. PICK ls, u : ls = y.lslots /\ u = k + 1
    OBVIOUS
  <2>2. ls \in Seq(Value \cup {None}) /\ u \in Nat /\ j \in Nat
    BY <1>2, <1>3, <1>6, <2>1
  <2>3. y = [x EXCEPT !.lslots = ls, !.first = j, !.nused = u]
    BY <1>4, <1>5, <2>1
  <2>4. QED
    BY <1>3, <2>2, <2>3 DEF BlockType
<1>8. \A m \in 0..l - 2 : Slot(y, m + 1) = Slot(x, m) /\ Slot(x, m) # j
  <2> TAKE m \in 0..l - 2
  <2>1. m \in Nat /\ m + 1 < l
    BY <1>2
  <2>2. QED
    BY <1>1, <1>2, <1>5, <2>1 DEF Slot
<1>9. Slot(y, 0) = j
  BY <1>2, <1>3, <1>5 DEF Slot
<1>10. DOMAIN x.lslots = 1..l
  BY <1>1, BlockFields
<1>11. Elem(y, 0) = v
  <2>1. j + 1 \in 1..l
    BY <1>2, <1>3
  <2>2. QED
    BY <1>5, <1>9, <1>10, <2>1 DEF Elem
<1>12. \A m \in 0..k - 1 : Elem(y, m + 1) = Elem(x, m)
  <2> TAKE m \in 0..k - 1
  <2>1. m \in 0..l - 2 /\ m \in 0..l - 1
    BY <1>2
  <2>2. PICK s : s = Slot(x, m)
    OBVIOUS
  <2>3. s \in 0..l - 1 /\ s # j /\ Slot(y, m + 1) = s
    BY <1>1, <1>8, <2>1, <2>2, SlotIn
  <2>4. s + 1 # j + 1 /\ s + 1 \in 1..l
    BY <1>2, <1>3, <2>3
  <2>5. y.lslots[s + 1] = x.lslots[s + 1]
    BY <1>5, <1>10, <2>4
  <2>6. QED
    BY <2>2, <2>3, <2>5 DEF Elem
<1>13. PICK e, f : e = Elems(x) /\ f = <<v>> \o e
  OBVIOUS
<1>14. e \in Seq(Value) /\ Len(e) = k
  BY <1>1, <1>13, ElemsType
<1>15. f \in Seq(Value) /\ Len(f) = k + 1 /\ f[1] = v /\ \A n \in 1..k : f[n + 1] = e[n]
  BY <1>13, <1>14
<1>16. \A n \in 0..k : Elem(y, n) = f[n + 1] /\ f[n + 1] \in Value
  <2> TAKE n \in 0..k
  <2>1. CASE n = 0
    BY <1>11, <1>15, <2>1
  <2>2. CASE n # 0
    <3>1. PICK m : m = n - 1
      OBVIOUS
    <3>2. m \in 0..k - 1 /\ m + 1 = n /\ n \in 1..k
      BY <1>2, <2>2, <3>1
    <3>3. Elem(y, n) = Elem(x, m)
      BY <1>12, <3>2
    <3>4. Elem(x, m) = e[n] /\ Elem(x, m) \in Value
      BY <1>1, <1>13, <3>2, ElemsAt
    <3>5. QED
      BY <1>15, <3>2, <3>3, <3>4
  <2>3. QED
    BY <2>1, <2>2
<1>17. BlockOK(y)
  <2>1. \A n \in 0..y.nused - 1 : Elem(y, n) \in Value
    <3> TAKE n \in 0..y.nused - 1
    <3>1. n \in 0..k
      BY <1>2, <1>5
    <3>2. QED
      BY <1>16, <3>1
  <2>2. QED
    BY <1>2, <1>3, <1>5, <1>6, <1>7, <2>1 DEF BlockOK
<1>18. Elems(y) = f
  <2>1. \A n \in 0..y.nused - 1 : Elem(y, n) = f[n + 1]
    <3> TAKE n \in 0..y.nused - 1
    <3>1. n \in 0..k
      BY <1>2, <1>5
    <3>2. QED
      BY <1>16, <3>1
  <2>2. QED
    BY <1>5, <1>15, <1>17, <2>1, ElemsAre
<1>19. QED
  BY <1>1, <1>5, <1>13, <1>17, <1>18 DEF Alike

LEMMA GetBlock ==
  ASSUME NEW x, BlockOK(x), x.nused > 0
  PROVE  /\ BlockOK(AfterGet(x)) /\ Alike(x, AfterGet(x))
         /\ Elems(x) = <<Elem(x, 0)>> \o Elems(AfterGet(x)) /\ Elem(x, 0) \in Value
         /\ AfterGet(x).nused = x.nused - 1
<1>1. PICK y, j, k, l : /\ y = AfterGet(x) /\ k = x.nused /\ l = x.nslots
                        /\ j = IF x.first + 1 >= l THEN 0 ELSE x.first + 1
  OBVIOUS
<1>2. /\ k \in Nat /\ l \in Nat /\ k <= l /\ x.first \in Nat /\ x.first < l /\ l # 0
      /\ k - 1 \in Nat /\ k # 0
  <2>1. k \in Nat /\ l \in Nat /\ k <= l /\ k # 0 /\ x.first \in Nat
    BY <1>1, BlockFields
  <2>2. l # 0
    BY <2>1
  <2>3. QED
    BY <1>1, <2>1, <2>2, BlockFields
<1>3. x \in BlockType /\ j \in 0..l - 1
  BY <1>1, <1>2 DEF BlockOK
<1>4. y = [x EXCEPT !.first = j, !.nused = k - 1]
  BY <1>1 DEF AfterGet
<1>5. /\ y.listprev = x.listprev /\ y.listnext = x.listnext /\ y.nslots = l
      /\ y.first = j /\ y.nused = k - 1 /\ y.lslots = x.lslots
  BY <1>1, <1>3, <1>4 DEF BlockType
<1>6. y \in BlockType
  <2>1. PICK u : u = k - 1
    OBVIOUS
  <2>2. u \in Nat /\ j \in Nat
    BY <1>2, <1>3, <2>1
  <2>3. y = [x EXCEPT !.first = j, !.nused = u]
    BY <1>4, <2>1
  <2>4. QED
    BY <1>3, <2>2, <2>3 DEF BlockType
<1>7. \A m \in 0..k - 2 : Slot(y, m) = Slot(x, m + 1)
  <2> TAKE m \in 0..k - 2
  <2>1. m \in Nat /\ m + 1 < l
    BY <1>2
  <2>2. QED
    BY <1>1, <1>2, <1>5, <2>1 DEF Slot
<1>8. \A m \in 0..k - 2 : Elem(y, m) = Elem(x, m + 1)
  BY <1>5, <1>7 DEF Elem
<1>9. PICK e : e = Elems(x)
  OBVIOUS
<1>10. e \in Seq(Value) /\ Len(e) = k
  BY <1>1, <1>9, ElemsType
<1>11. PICK f : f = [n \in 1..k - 1 |-> e[n + 1]]
  OBVIOUS
<1>12. f \in Seq(Value) /\ Len(f) = k - 1 /\ \A n \in 1..k - 1 : f[n] = e[n + 1]
  <2>1. \A n \in 1..k - 1 : e[n + 1] \in Value
    BY <1>2, <1>10
  <2>2. QED
    BY <1>2, <1>11, <2>1
<1>13. Elem(x, 0) = e[1] /\ Elem(x, 0) \in Value
  <2>1. 0 \in 0..x.nused - 1 /\ 0 + 1 = 1
    BY <1>1, <1>2
  <2>2. QED
    BY <1>9, <2>1, ElemsAt
<1>14. \A n \in 0..k - 2 : Elem(y, n) = f[n + 1] /\ f[n + 1] \in Value
  <2> TAKE n \in 0..k - 2
  <2>1. n + 1 \in 0..k - 1 /\ n + 1 \in 1..k - 1
    BY <1>2
  <2>2. Elem(x, n + 1) = e[n + 1 + 1] /\ Elem(x, n + 1) \in Value
    BY <1>1, <1>9, <2>1, ElemsAt
  <2>3. QED
    BY <1>8, <1>12, <2>1, <2>2
<1>15. y.nused - 1 = k - 2
  BY <1>2, <1>5
<1>16. BlockOK(y)
  <2>1. \A n \in 0..y.nused - 1 : Elem(y, n) \in Value
    BY <1>14, <1>15
  <2>2. x.lslots \in Seq(Value \cup {None}) /\ Len(x.lslots) = l
    BY <1>1, BlockFields
  <2>3. QED
    BY <1>2, <1>3, <1>5, <1>6, <2>1, <2>2 DEF BlockOK
<1>17. Elems(y) = f
  BY <1>5, <1>12, <1>14, <1>15, <1>16, ElemsAre
<1>18. e = <<Elem(x, 0)>> \o f
  <2>1. PICK a : a = Elem(x, 0)
    OBVIOUS
  <2>2. PICK g : g = <<a>> \o f
    OBVIOUS
  <2>3. a \in Value /\ a = e[1]
    BY <1>13, <2>1
  <2>4. g \in Seq(Value) /\ Len(g) = k /\ g[1] = a /\ \A n \in 1..k - 1 : g[n + 1] = f[n]
    BY <1>2, <1>12, <2>2, <2>3
  <2>5. \A n \in 1..Len(e) : e[n] = g[n]
    <3> TAKE n \in 1..Len(e)
    <3>1. n = 1 \/ (n - 1 \in 1..k - 1 /\ n - 1 + 1 = n)
      BY <1>2, <1>10
    <3>2. QED
      BY <1>12, <2>3, <2>4, <3>1
  <2>6. e = g
    BY <1>10, <2>4, <2>5, SeqEqual
  <2>7. QED
    BY <2>1, <2>2, <2>6
<1>19. QED
  BY <1>1, <1>5, <1>9, <1>13, <1>16, <1>17, <1>18 DEF Alike

LEMMA PullBlock ==
  ASSUME NEW x, BlockOK(x), x.nused > 0
  PROVE  /\ BlockOK(AfterPull(x)) /\ Alike(x, AfterPull(x))
         /\ Elems(x) = Append(Elems(AfterPull(x)), Elem(x, x.nused - 1))
         /\ Elem(x, x.nused - 1) \in Value
         /\ AfterPull(x).nused = x.nused - 1
<1>1. PICK y, k, l : y = AfterPull(x) /\ k = x.nused /\ l = x.nslots
  OBVIOUS
<1>2. /\ k \in Nat /\ l \in Nat /\ k <= l /\ x.first \in Nat /\ k - 1 \in Nat /\ k # 0
  BY <1>1, BlockFields
<1>3. x \in BlockType
  BY DEF BlockOK
<1>4. y = [x EXCEPT !.nused = k - 1]
  BY <1>1 DEF AfterPull
<1>5. /\ y.listprev = x.listprev /\ y.listnext = x.listnext /\ y.nslots = l
      /\ y.first = x.first /\ y.nused = k - 1 /\ y.lslots = x.lslots
  BY <1>1, <1>3, <1>4 DEF BlockType
<1>6. y \in BlockType
  <2>1. PICK u : u = k - 1
    OBVIOUS
  <2>2. u \in Nat
    BY <1>2, <2>1
  <2>3. y = [x EXCEPT !.nused = u]
    BY <1>4, <2>1
  <2>4. QED
    BY <1>3, <2>2, <2>3 DEF BlockType
<1>7. \A m \in 0..k - 1 : Elem(y, m) = Elem(x, m)
  BY <1>1, <1>5 DEF Elem, Slot
<1>8. PICK e : e = Elems(x)
  OBVIOUS
<1>9. e \in Seq(Value) /\ Len(e) = k
  BY <1>1, <1>8, ElemsType
<1>10. PICK f : f = [n \in 1..k - 1 |-> e[n]]
  OBVIOUS
<1>11. f \in Seq(Value) /\ Len(f) = k - 1 /\ \A n \in 1..k - 1 : f[n] = e[n]
  <2>1. \A n \in 1..k - 1 : e[n] \in Value
    BY <1>2, <1>9
  <2>2. QED
    BY <1>2, <1>10, <2>1
<1>12. \A n \in 0..k - 1 : Elem(x, n) = e[n + 1] /\ Elem(x, n) \in Value
  BY <1>1, <1>8, ElemsAt
<1>13. y.nused - 1 = k - 2 /\ \A n \in 0..k - 2 : n \in 0..k - 1 /\ n + 1 \in 1..k - 1
  BY <1>2, <1>5
<1>14. \A n \in 0..y.nused - 1 : Elem(y, n) = f[n + 1] /\ Elem(y, n) \in Value
  BY <1>7, <1>11, <1>12, <1>13
<1>15. BlockOK(y)
  <2>1. /\ x.lslots \in Seq(Value \cup {None}) /\ Len(x.lslots) = l
        /\ x.first <= l /\ (l # 0 => x.first < l)
    BY <1>1, BlockFields
  <2>2. QED
    BY <1>2, <1>5, <1>6, <1>14, <2>1 DEF BlockOK
<1>16. Elems(y) = f
  BY <1>5, <1>11, <1>14, <1>15, ElemsAre
<1>17. Elem(x, k - 1) = e[k] /\ Elem(x, k - 1) \in Value
  <2>1. k - 1 \in 0..k - 1 /\ k - 1 + 1 = k
    BY <1>2
  <2>2. QED
    BY <1>12, <2>1
<1>18. e = Append(f, e[k])
  <2>1. PICK a, g : a = e[k] /\ g = Append(f, a)
    OBVIOUS
  <2>2. a \in Value
    BY <1>17, <2>1
  <2>3. g \in Seq(Value) /\ Len(g) = k /\ g[k] = a /\ \A n \in 1..k - 1 : g[n] = f[n]
    BY <1>2, <1>11, <2>1, <2>2
  <2>4. \A n \in 1..Len(e) : e[n] = g[n]
    <3> TAKE n \in 1..Len(e)
    <3>1. n = k \/ n \in 1..k - 1
      BY <1>2, <1>9
    <3>2. QED
      BY <1>11, <2>1, <2>3, <3>1
  <2>5. e = g
    BY <1>9, <2>3, <2>4, SeqEqual
  <2>6. QED
    BY <2>1, <2>5
<1>19. QED
  BY <1>1, <1>5, <1>8, <1>15, <1>16, <1>17, <1>18 DEF Alike

LEMMA AssignBlock ==
  ASSUME NEW x, BlockOK(x), NEW n \in 0..x.nused - 1, NEW v \in Value
  PROVE  /\ BlockOK(AfterAssign(x, n, v)) /\ Alike(x, AfterAssign(x, n, v))
         /\ Elems(AfterAssign(x, n, v)) = [Elems(x) EXCEPT ![n + 1] = v]
         /\ AfterAssign(x, n, v).nused = x.nused
<1>1. PICK y, j, k, l : y = AfterAssign(x, n, v) /\ k = x.nused /\ l = x.nslots /\ j = Slot(x, n)
  OBVIOUS
<1>2. k \in Nat /\ l \in Nat /\ k <= l /\ x.first \in Nat /\ n \in 0..k - 1 /\ n \in 0..l - 1
  BY <1>1, BlockFields
<1>3. x \in BlockType /\ j \in 0..l - 1
  BY <1>1, <1>2, SlotIn DEF BlockOK
<1>4. y = [x EXCEPT !.lslots = [x.lslots EXCEPT ![j + 1] = v]]
  BY <1>1 DEF AfterAssign
<1>5. /\ y.listprev = x.listprev /\ y.listnext = x.listnext /\ y.nslots = l
      /\ y.first = x.first /\ y.nused = k /\ y.lslots = [x.lslots EXCEPT ![j + 1] = v]
  BY <1>1, <1>3, <1>4 DEF BlockType
<1>6. y.lslots \in Seq(Value \cup {None}) /\ Len(y.lslots) = l
  <2>1. x.lslots \in Seq(Value \cup {None}) /\ Len(x.lslots) = l
    BY <1>1, BlockFields
  <2>2. j + 1 \in 1..l
    BY <1>2, <1>3
  <2>3. QED
    BY <1>5, <2>1, <2>2
<1>7. y \in BlockType
  <2>1. PICK ls : ls = y.lslots
    OBVIOUS
  <2>2. ls \in Seq(Value \cup {None})
    BY <1>6, <2>1
  <2>3. y = [x EXCEPT !.lslots = ls]
    BY <1>4, <1>5, <2>1
  <2>4. QED
    BY <1>3, <2>2, <2>3 DEF BlockType
<1>8. DOMAIN x.lslots = 1..l
  BY <1>1, BlockFields
<1>9. \A m \in 0..k - 1 : Elem(y, m) = IF m = n THEN v ELSE Elem(x, m)
  <2> TAKE m \in 0..k - 1
  <2>1. m \in 0..l - 1
    BY <1>2
  <2>2. PICK s : s = Slot(x, m)
    OBVIOUS
  <2>3. s \in 0..l - 1 /\ (s = j <=> m = n)
    BY <1>1, <1>2, <2>1, <2>2, SlotIn
  <2>4. s + 1 \in 1..l /\ (s + 1 = j + 1 <=> m = n)
    BY <1>2, <1>3, <2>3
  <2>5. y.lslots[s + 1] = IF s + 1 = j + 1 THEN v ELSE x.lslots[s + 1]
    BY <1>5, <1>8, <2>4
  <2>6. Slot(y, m) = s
    BY <1>1, <1>5, <2>2 DEF Slot
  <2>7. Elem(y, m) = y.lslots[s + 1] /\ Elem(x, m) = x.lslots[s + 1]
    BY <2>2, <2>6 DEF Elem
  <2>8. QED
    BY <2>4, <2>5, <2>7
<1>10. PICK e, f : e = Elems(x) /\ f = [e EXCEPT ![n + 1] = v]
  OBVIOUS
<1>11. e \in Seq(Value) /\ Len(e) = k
  BY <1>1, <1>10, ElemsType
<1>12. f \in Seq(Value) /\ Len(f) = k /\ \A m \in 1..k : f[m] = IF m = n + 1 THEN v ELSE e[m]
  BY <1>2, <1>10, <1>11
<1>13. \A m \in 0..k - 1 : Elem(y, m) = f[m + 1] /\ Elem(y, m) \in Value
  <2> TAKE m \in 0..k - 1
  <2>1. m + 1 \in 1..k /\ (m + 1 = n + 1 <=> m = n)
    BY <1>2
  <2>2. Elem(x, m) = e[m + 1] /\ Elem(x, m) \in Value
    BY <1>1, <1>10, ElemsAt
  <2>3. QED
    BY <1>9, <1>12, <2>1, <2>2
<1>14. BlockOK(y)
  <2>1. x.first <= l /\ (l # 0 => x.first < l)
    BY <1>1, BlockFields
  <2>2. QED
    BY <1>2, <1>5, <1>6, <1>7, <1>13, <2>1 DEF BlockOK
<1>15. Elems(y) = f
  BY <1>5, <1>12, <1>13, <1>14, ElemsAre
<1>16. QED
  BY <1>1, <1>5, <1>10, <1>14, <1>15 DEF Alike

-----------------------------------------------------------------------------
(* What the operations make of a chain.                                    *)

\* Only the blocks at the ends may be empty, and what has left the chain is.
Filled(bs, p) ==
  /\ \A m \in 1..Len(p) : bs[p[m]].nslots # 0
  /\ \A m \in 2..Len(p) - 1 : bs[p[m]].nused # 0
  /\ \A b \in Block : (\A m \in 1..Len(p) : p[m] # b) => bs[b].nused = 0

ListOK(bs, p) == BlocksOK(bs) /\ Chain(bs, p) /\ Filled(bs, p)

\* The elements of the chain p.
Flat(bs, p) == FlattenSeq(Rows(bs, p))

LEMMA ChainAt ==
  ASSUME NEW bs, NEW p, Chain(bs, p)
  PROVE  /\ Len(p) \in Nat \ {0} /\ p \in Seq(Block)
         /\ \A m \in 1..Len(p) : p[m] \in Block
         /\ \A m, n \in 1..Len(p) : p[m] = p[n] => m = n
         /\ \A m \in 1..Len(p) - 1 : bs[p[m]].listnext = p[m + 1]
         /\ \A m \in 2..Len(p) : bs[p[m]].listprev = p[m - 1]
         /\ bs[p[1]].listprev = NULL /\ bs[p[Len(p)]].listnext = NULL
BY ChainFits DEF Chain

\* A block of the chain p becomes y: other elements, which only the blocks at
\* the ends may lack.
Replaces(bs, p, m, y) ==
  /\ ListOK(bs, p) /\ m \in 1..Len(p) /\ BlockOK(y) /\ Alike(bs[p[m]], y)
  /\ m = 1 \/ m = Len(p) \/ y.nused # 0
Replaced(bs, p, m, y, bs2) ==
  /\ ListOK(bs2, p)
  /\ \A k \in 1..Len(p) : Rows(bs2, p)[k] = IF k = m THEN Elems(y) ELSE Rows(bs, p)[k]

LEMMA Replace ==
  ASSUME NEW bs, NEW p, NEW m, NEW y, Replaces(bs, p, m, y),
         NEW bs2, bs2 = [bs EXCEPT ![p[m]] = y]
  PROVE  Replaced(bs, p, m, y, bs2)
<1>0. m \in 1..Len(p) /\ BlockOK(y) /\ Alike(bs[p[m]], y)
      /\ (m = 1 \/ m = Len(p) \/ y.nused # 0)
  BY DEF Replaces
<1>1. BlocksOK(bs) /\ Chain(bs, p) /\ Filled(bs, p)
  BY DEF Replaces, ListOK
<1>2. /\ Len(p) \in Nat \ {0} /\ p \in Seq(Block)
      /\ \A k \in 1..Len(p) : p[k] \in Block
      /\ \A k, n \in 1..Len(p) : p[k] = p[n] => k = n
  BY <1>0, <1>1, ChainAt
<1>3. bs \in [Block -> BlockType] /\ \A b \in Block : BlockOK(bs[b])
  BY <1>0, <1>1 DEF BlocksOK
<1>4. \A b \in Block : bs2[b] = IF b = p[m] THEN y ELSE bs[b]
  BY <1>0, <1>2, <1>3
<1>5. \A b \in Block : Alike(bs[b], bs2[b])
  BY <1>0, <1>4 DEF Alike
<1>6. BlocksOK(bs2)
  <2>1. y \in BlockType
    BY <1>0 DEF BlockOK
  <2>2. bs2 \in [Block -> BlockType]
    BY <1>0, <1>2, <1>3, <2>1
  <2>3. \A b \in Block : BlockOK(bs2[b])
    BY <1>0, <1>3, <1>4
  <2>4. QED
    BY <1>0, <2>2, <2>3 DEF BlocksOK
<1>7. Chain(bs2, p)
  <2>1. \A b \in Block : bs2[b].listnext = bs[b].listnext /\ bs2[b].listprev = bs[b].listprev
    BY <1>0, <1>5 DEF Alike
  <2>2. /\ 1 \in 1..Len(p) /\ Len(p) \in 1..Len(p)
        /\ \A k \in 1..Len(p) - 1 : k \in 1..Len(p)
        /\ \A k \in 2..Len(p) : k \in 1..Len(p)
    BY <1>0, <1>2
  <2>3. QED
    BY <1>0, <1>1, <1>2, <2>1, <2>2 DEF Chain
<1>8. Filled(bs2, p)
  <2>1. \A b \in Block : bs2[b].nslots = bs[b].nslots
    BY <1>0, <1>5 DEF Alike
  <2>2. \A k \in 1..Len(p) : bs2[p[k]].nslots # 0
    BY <1>0, <1>1, <1>2, <2>1 DEF Filled
  <2>3. \A k \in 2..Len(p) - 1 : bs2[p[k]].nused # 0
    <3> TAKE k \in 2..Len(p) - 1
    <3>1. k \in 1..Len(p) /\ k # 1 /\ k # Len(p)
      BY <1>0, <1>2
    <3>2. CASE k = m
      BY <1>0, <1>2, <1>4, <3>1, <3>2
    <3>3. CASE k # m
      <4>1. p[k] # p[m] /\ p[k] \in Block
        BY <1>0, <1>2, <3>1, <3>3
      <4>2. bs2[p[k]] = bs[p[k]]
        BY <1>0, <1>4, <4>1
      <4>3. QED
        BY <1>0, <1>1, <4>2 DEF Filled
    <3>4. QED
      BY <1>0, <3>2, <3>3
  <2>4. \A b \in Block : (\A k \in 1..Len(p) : p[k] # b) => bs2[b].nused = 0
    <3> SUFFICES ASSUME NEW b \in Block, \A k \in 1..Len(p) : p[k] # b PROVE bs2[b].nused = 0
      OBVIOUS
    <3>1. b # p[m]
      BY <1>0
    <3>2. bs2[b] = bs[b]
      BY <1>0, <1>4, <3>1
    <3>3. QED
      BY <1>0, <1>1, <3>2 DEF Filled
  <2>5. QED
    BY <1>0, <2>2, <2>3, <2>4 DEF Filled
<1>9. \A k \in 1..Len(p) : Rows(bs2, p)[k] = IF k = m THEN Elems(y) ELSE Rows(bs, p)[k]
  <2> TAKE k \in 1..Len(p)
  <2>1. bs2[p[k]] = IF k = m THEN y ELSE bs[p[k]]
    BY <1>0, <1>2, <1>4
  <2>2. Rows(bs2, p)[k] = Elems(bs2[p[k]]) /\ Rows(bs, p)[k] = Elems(bs[p[k]])
    BY DEF Rows
  <2>3. QED
    BY <2>1, <2>2
<1>10. QED
  BY <1>0, <1>6, <1>7, <1>8, <1>9 DEF ListOK, Replaced

\* The same rows are flattened to the same elements.
LEMMA RowsSame ==
  ASSUME NEW bs, NEW bs2, NEW p, \A m \in 1..Len(p) : Elems(bs2[p[m]]) = Elems(bs[p[m]])
  PROVE  Rows(bs2, p) = Rows(bs, p)
BY DEF Rows

\* The first row and the last one.
LEMMA FirstRow ==
  ASSUME NEW S, NEW r \in Seq(Seq(S)), NEW s \in Seq(Seq(S)), Len(r) = Len(s) + 1,
         \A m \in 1..Len(s) : r[m + 1] = s[m]
  PROVE  FlattenSeq(r) = r[1] \o FlattenSeq(s)
<1>1. PICK n, a, t : n = Len(s) /\ a = r[1] /\ t = <<a>> \o s
  OBVIOUS
<1>2. n \in Nat /\ a \in Seq(S) /\ Len(r) = n + 1
  BY <1>1
<1>3. t \in Seq(Seq(S)) /\ Len(t) = n + 1 /\ t[1] = a /\ \A m \in 1..n : t[m + 1] = s[m]
  BY <1>1, <1>2
<1>4. \A m \in 1..Len(r) : r[m] = t[m]
  <2> TAKE m \in 1..Len(r)
  <2>1. m = 1 \/ (m - 1 \in 1..n /\ m - 1 + 1 = m)
    BY <1>2
  <2>2. CASE m = 1
    BY <1>1, <1>3, <2>2
  <2>3. CASE m - 1 \in 1..n /\ m - 1 + 1 = m
    <3>1. PICK k : k = m - 1
      OBVIOUS
    <3>2. k \in 1..n /\ k + 1 = m
      BY <2>3, <3>1
    <3>3. QED
      BY <1>1, <1>3, <3>2
  <2>4. QED
    BY <2>1, <2>2, <2>3
<1>5. r = t
  BY <1>2, <1>3, <1>4, SeqEqual
<1>6. FlattenSeq(t) = a \o FlattenSeq(s)
  BY <1>1, <1>2, FlattenCons
<1>7. QED
  BY <1>1, <1>5, <1>6

LEMMA LastRow ==
  ASSUME NEW S, NEW r \in Seq(Seq(S)), NEW s \in Seq(Seq(S)), Len(r) = Len(s) + 1,
         \A m \in 1..Len(s) : r[m] = s[m]
  PROVE  FlattenSeq(r) = FlattenSeq(s) \o r[Len(r)]
<1>1. PICK n, a, t : n = Len(s) /\ a = r[Len(r)] /\ t = Append(s, a)
  OBVIOUS
<1>2. n \in Nat /\ a \in Seq(S) /\ Len(r) = n + 1 /\ a = r[n + 1]
  BY <1>1
<1>3. t \in Seq(Seq(S)) /\ Len(t) = n + 1 /\ t[n + 1] = a /\ \A m \in 1..n : t[m] = s[m]
  BY <1>1, <1>2
<1>4. \A m \in 1..Len(r) : r[m] = t[m]
  <2> TAKE m \in 1..Len(r)
  <2>1. m = n + 1 \/ m \in 1..n
    BY <1>2
  <2>2. CASE m = n + 1
    BY <1>2, <1>3, <2>2
  <2>3. CASE m \in 1..n
    BY <1>1, <1>3, <2>3
  <2>4. QED
    BY <2>1, <2>2, <2>3
<1>5. r = t
  BY <1>2, <1>3, <1>4, SeqEqual
<1>6. FlattenSeq(t) = FlattenSeq(s) \o a
  BY <1>1, <1>2, FlattenAppend
<1>7. QED
  BY <1>1, <1>5, <1>6

\* The blocks bs with b at the head, or at the tail.
Unprev(bs, b) == [bs EXCEPT ![b] = [bs[b] EXCEPT !.listprev = NULL]]
Unnext(bs, b) == [bs EXCEPT ![b] = [bs[b] EXCEPT !.listnext = NULL]]

\* A chain without its first block, and without its last.
Rest(p) == [m \in 1..Len(p) - 1 |-> p[m + 1]]
Most(p) == [m \in 1..Len(p) - 1 |-> p[m]]

\* An empty block at the head is left out.
LEMMA DropHead ==
  ASSUME NEW bs, NEW p, ListOK(bs, p), Len(p) >= 2, bs[p[1]].nused = 0,
         NEW bs2, bs2 = Unprev(bs, p[2]), NEW q, q = Rest(p)
  PROVE  /\ ListOK(bs2, q) /\ Len(q) = Len(p) - 1 /\ q[1] = p[2] /\ q[Len(q)] = p[Len(p)]
         /\ Flat(bs2, q) = Flat(bs, p)
         /\ \A b \in Block : bs2[b].nused = bs[b].nused
<1>1. BlocksOK(bs) /\ Chain(bs, p) /\ Filled(bs, p)
  BY DEF ListOK
<1>2. PICK L : L = Len(p)
  OBVIOUS
<1>3. /\ L \in Nat \ {0} /\ L >= 2 /\ p \in Seq(Block)
      /\ \A k \in 1..L : p[k] \in Block
      /\ \A k, n \in 1..L : p[k] = p[n] => k = n
  BY <1>1, <1>2, ChainAt
<1>4. bs \in [Block -> BlockType] /\ \A b \in Block : BlockOK(bs[b])
  BY <1>1 DEF BlocksOK
<1>5. PICK y, x : x = bs[p[2]] /\ y = [x EXCEPT !.listprev = NULL]
  OBVIOUS
<1>6. p[2] \in Block /\ x \in BlockType /\ BlockOK(x)
  BY <1>3, <1>4, <1>5
<1>7. /\ y.listprev = NULL /\ y.listnext = x.listnext /\ y.nslots = x.nslots
      /\ y.first = x.first /\ y.nused = x.nused /\ y.lslots = x.lslots /\ y \in BlockType
  BY <1>5, <1>6 DEF BlockType, Pointer
<1>8. \A n : Elem(y, n) = Elem(x, n)
  BY <1>7 DEF Elem, Slot
<1>9. BlockOK(y) /\ Elems(y) = Elems(x)
  <2>1. BlockOK(y)
    BY <1>6, <1>7, <1>8 DEF BlockOK
  <2>2. Elems(y) = Elems(x)
    BY <1>7, <1>8 DEF Elems
  <2>3. QED
    BY <2>1, <2>2
<1>10. \A b \in Block : bs2[b] = IF b = p[2] THEN y ELSE bs[b]
  BY <1>4, <1>5, <1>6 DEF Unprev
<1>11. \A b \in Block : /\ bs2[b].nslots = bs[b].nslots /\ bs2[b].nused = bs[b].nused
                        /\ bs2[b].listnext = bs[b].listnext /\ Elems(bs2[b]) = Elems(bs[b])
                        /\ b # p[2] => bs2[b].listprev = bs[b].listprev
  BY <1>5, <1>7, <1>9, <1>10
<1>12. BlocksOK(bs2)
  <2>1. bs2 \in [Block -> BlockType]
    BY <1>4, <1>5, <1>6, <1>7 DEF Unprev
  <2>2. QED
    BY <1>4, <1>9, <1>10, <2>1 DEF BlocksOK
<1>13. /\ q \in Seq(Block) /\ Len(q) = L - 1 /\ L - 1 \in Nat /\ L - 1 # 0
       /\ \A m \in 1..L - 1 : q[m] = p[m + 1] /\ m + 1 \in 1..L /\ q[m] \in Block
  <2>1. \A m \in 1..L - 1 : m + 1 \in 1..L
    BY <1>3
  <2>2. \A m \in 1..L - 1 : p[m + 1] \in Block
    BY <1>3, <2>1
  <2>3. q \in Seq(Block) /\ Len(q) = L - 1 /\ \A m \in 1..L - 1 : q[m] = p[m + 1]
    BY <1>2, <1>3, <2>2 DEF Rest
  <2>4. L - 1 \in Nat /\ L - 1 # 0
    BY <1>3
  <2>5. QED
    BY <2>1, <2>2, <2>3, <2>4
<1>14. q[1] = p[2] /\ q[L - 1] = p[L]
  <2>1. 1 \in 1..L - 1 /\ 1 + 1 = 2 /\ L - 1 \in 1..L - 1 /\ L - 1 + 1 = L
    BY <1>3
  <2>2. QED
    BY <1>13, <2>1
<1>15. Chain(bs2, q)
  <2>a. /\ \A m \in 1..L - 1 : bs[p[m]].listnext = p[m + 1]
        /\ \A m \in 2..L : bs[p[m]].listprev = p[m - 1]
    <3>1. /\ \A m \in 1..Len(p) - 1 : bs[p[m]].listnext = p[m + 1]
          /\ \A m \in 2..Len(p) : bs[p[m]].listprev = p[m - 1]
      BY <1>1 DEF Chain
    <3>2. QED
      BY <1>2, <3>1, Zenon
  <2>1. \A m, n \in 1..L - 1 : q[m] = q[n] => m = n
    <3> SUFFICES ASSUME NEW m \in 1..L - 1, NEW n \in 1..L - 1, q[m] = q[n] PROVE m = n
      OBVIOUS
    <3>1. m + 1 = n + 1
      BY <1>3, <1>13
    <3>2. QED
      BY <1>3, <3>1
  <2>2. \A m \in 1..L - 2 : bs2[q[m]].listnext = q[m + 1]
    <3> TAKE m \in 1..L - 2
    <3>1. m \in 1..L - 1 /\ m + 1 \in 1..L - 1 /\ m + 1 \in 1..L
      BY <1>3
    <3>2. bs[p[m + 1]].listnext = p[m + 1 + 1]
      BY <2>a, <3>1
    <3>3. QED
      BY <1>11, <1>13, <3>1, <3>2
  <2>3. \A m \in 2..L - 1 : bs2[q[m]].listprev = q[m - 1]
    <3> TAKE m \in 2..L - 1
    <3>1. m \in 1..L - 1 /\ m + 1 \in 2..L /\ m - 1 \in 1..L - 1 /\ m + 1 # 2 /\ 2 \in 1..L
          /\ m + 1 \in 1..L /\ m + 1 - 1 = m - 1 + 1
      BY <1>3
    <3>2. bs[p[m + 1]].listprev = p[m + 1 - 1]
      BY <2>a, <3>1
    <3>3. p[m + 1] # p[2]
      BY <1>3, <3>1
    <3>4. QED
      BY <1>11, <1>13, <3>1, <3>2, <3>3
  <2>4. bs2[q[1]].listprev = NULL
    BY <1>6, <1>7, <1>10, <1>14
  <2>5. bs2[q[L - 1]].listnext = NULL
    <3>1. bs[p[L]].listnext = NULL /\ p[L] \in Block
      BY <1>1, <1>2, <1>3, ChainAt
    <3>2. QED
      BY <1>11, <1>14, <3>1
  <2>6. L - 1 - 1 = L - 2
    BY <1>3
  <2>7. QED
    <3>1. PICK k : k = L - 1
      OBVIOUS
    <3>2. q \in Seq(Block) /\ Len(q) = k /\ k # 0 /\ k - 1 = L - 2
      BY <1>13, <2>6, <3>1
    <3>3. \A m, n \in 1..k : q[m] = q[n] => m = n
      BY <2>1, <3>1, Zenon
    <3>4. \A m \in 1..k - 1 : bs2[q[m]].listnext = q[m + 1]
      BY <2>2, <3>2, Zenon
    <3>5. \A m \in 2..k : bs2[q[m]].listprev = q[m - 1]
      BY <2>3, <3>1, Zenon
    <3>6. bs2[q[1]].listprev = NULL /\ bs2[q[k]].listnext = NULL
      BY <2>4, <2>5, <3>1, Zenon
    <3>7. QED
      BY <3>2, <3>3, <3>4, <3>5, <3>6, Zenon DEF Chain
<1>16. Filled(bs2, q)
  <2>1. \A m \in 1..L - 1 : bs2[q[m]].nslots # 0
    BY <1>1, <1>2, <1>11, <1>13 DEF Filled
  <2>2. \A m \in 2..L - 1 - 1 : bs2[q[m]].nused # 0
    <3> TAKE m \in 2..L - 1 - 1
    <3>1. m \in 1..L - 1 /\ m + 1 \in 2..L - 1
      BY <1>3
    <3>2. bs[p[m + 1]].nused # 0
      BY <1>1, <1>2, <3>1 DEF Filled
    <3>3. QED
      BY <1>11, <1>13, <3>1, <3>2
  <2>3. \A b \in Block : (\A m \in 1..L - 1 : q[m] # b) => bs2[b].nused = 0
    <3> SUFFICES ASSUME NEW b \in Block, \A m \in 1..L - 1 : q[m] # b PROVE bs[b].nused = 0
      BY <1>11
    <3>1. CASE b = p[1]
      BY <3>1
    <3>2. CASE b # p[1]
      <4>1. \A k \in 1..L : p[k] # b
        <5> TAKE k \in 1..L
        <5>1. k = 1 \/ (k - 1 \in 1..L - 1 /\ k - 1 + 1 = k)
          BY <1>3
        <5>2. QED
          BY <1>13, <3>2, <5>1
      <4>2. QED
        BY <1>1, <1>2, <4>1 DEF Filled
    <3>3. QED
      BY <3>1, <3>2
  <2>4. QED
    BY <1>13, <2>1, <2>2, <2>3 DEF Filled
<1>17. Flat(bs2, q) = Flat(bs, p)
  <2>1. PICK r, s : r = Rows(bs, p) /\ s = Rows(bs2, q)
    OBVIOUS
  <2>2. r \in Seq(Seq(Value)) /\ Len(r) = L /\ \A m \in 1..L : r[m] = Elems(bs[p[m]])
    BY <1>1, <1>2, <2>1, RowsType DEF IsRows
  <2>3. /\ s \in Seq(Seq(Value)) /\ Len(s) = L - 1 /\ \A m \in 1..L - 1 : s[m] = Elems(bs2[q[m]])
        /\ FlattenSeq(s) \in Seq(Value)
    <3>1. /\ s \in Seq(Seq(Value)) /\ Len(s) = Len(q)
          /\ \A m \in 1..Len(q) : s[m] = Elems(bs2[q[m]])
          /\ FlattenSeq(s) \in Seq(Value)
      <4>1. IsRows(bs2, q, s)
        BY <1>12, <1>15, <2>1, RowsType, Zenon
      <4>2. QED
        BY <4>1, Zenon DEF IsRows
    <3>2. Len(q) = L - 1
      BY <1>13
    <3>3. QED
      BY <3>1, <3>2, Zenon
  <2>4. r[1] = <<>>
    <3>1. 1 \in 1..L /\ p[1] \in Block
      BY <1>3
    <3>2. Elems(bs[p[1]]) \in Seq(Value) /\ Len(Elems(bs[p[1]])) = 0
      BY <1>4, <3>1, ElemsType
    <3>3. QED
      BY <2>2, <3>1, <3>2, LenZero
  <2>5. \A m \in 1..L - 1 : r[m + 1] = s[m]
    <3> TAKE m \in 1..L - 1
    <3>1. s[m] = Elems(bs2[q[m]]) /\ q[m] = p[m + 1] /\ m + 1 \in 1..L /\ q[m] \in Block
      BY <1>13, <2>3
    <3>2. r[m + 1] = Elems(bs[p[m + 1]])
      BY <2>2, <3>1
    <3>3. QED
      BY <1>11, <3>1, <3>2
  <2>6. Len(r) = Len(s) + 1 /\ \A m \in 1..Len(s) : r[m + 1] = s[m]
    BY <1>3, <2>2, <2>3, <2>5
  <2>7. FlattenSeq(r) = r[1] \o FlattenSeq(s)
    BY <2>2, <2>3, <2>6, FirstRow
  <2>8. <<>> \o FlattenSeq(s) = FlattenSeq(s)
    BY <2>3
  <2>9. QED
    BY <2>1, <2>4, <2>7, <2>8 DEF Flat
<1>18. QED
  BY <1>2, <1>11, <1>12, <1>13, <1>14, <1>15, <1>16, <1>17 DEF ListOK

\* An empty block at the tail is left out.
LEMMA DropTail ==
  ASSUME NEW bs, NEW p, ListOK(bs, p), Len(p) >= 2, bs[p[Len(p)]].nused = 0,
         NEW c, c = p[Len(p) - 1],
         NEW bs2, bs2 = Unnext(bs, c), NEW q, q = Most(p)
  PROVE  /\ ListOK(bs2, q) /\ Len(q) = Len(p) - 1 /\ q[1] = p[1] /\ q[Len(q)] = c
         /\ Flat(bs2, q) = Flat(bs, p)
         /\ \A b \in Block : bs2[b].nused = bs[b].nused
<1>1. BlocksOK(bs) /\ Chain(bs, p) /\ Filled(bs, p)
  BY DEF ListOK
<1>2. PICK L : L = Len(p)
  OBVIOUS
<1>3. /\ L \in Nat \ {0} /\ L >= 2 /\ p \in Seq(Block)
      /\ \A k \in 1..L : p[k] \in Block
      /\ \A k, n \in 1..L : p[k] = p[n] => k = n
  BY <1>1, <1>2, ChainAt
<1>4. bs \in [Block -> BlockType] /\ \A b \in Block : BlockOK(bs[b])
  BY <1>1 DEF BlocksOK
<1>5. PICK y, x : x = bs[c] /\ y = [x EXCEPT !.listnext = NULL]
  OBVIOUS
<1>6. c \in Block /\ x \in BlockType /\ BlockOK(x)
  <2>1. c \in Block
    BY <1>2, <1>3
  <2>2. QED
    BY <1>4, <1>5, <2>1
<1>7. /\ y.listnext = NULL /\ y.listprev = x.listprev /\ y.nslots = x.nslots
      /\ y.first = x.first /\ y.nused = x.nused /\ y.lslots = x.lslots /\ y \in BlockType
  BY <1>5, <1>6 DEF BlockType, Pointer
<1>8. \A n : Elem(y, n) = Elem(x, n)
  BY <1>7 DEF Elem, Slot
<1>9. BlockOK(y) /\ Elems(y) = Elems(x)
  <2>1. BlockOK(y)
    BY <1>6, <1>7, <1>8 DEF BlockOK
  <2>2. Elems(y) = Elems(x)
    BY <1>7, <1>8 DEF Elems
  <2>3. QED
    BY <2>1, <2>2
<1>10. \A b \in Block : bs2[b] = IF b = c THEN y ELSE bs[b]
  BY <1>4, <1>5, <1>6 DEF Unnext
<1>11. \A b \in Block : /\ bs2[b].nslots = bs[b].nslots /\ bs2[b].nused = bs[b].nused
                        /\ bs2[b].listprev = bs[b].listprev /\ Elems(bs2[b]) = Elems(bs[b])
                        /\ b # c => bs2[b].listnext = bs[b].listnext
  BY <1>5, <1>7, <1>9, <1>10
<1>12. BlocksOK(bs2)
  <2>1. bs2 \in [Block -> BlockType]
    BY <1>4, <1>5, <1>6, <1>7 DEF Unnext
  <2>2. QED
    BY <1>4, <1>9, <1>10, <2>1 DEF BlocksOK
<1>13. /\ q \in Seq(Block) /\ Len(q) = L - 1 /\ L - 1 \in Nat /\ L - 1 # 0
       /\ \A m \in 1..L - 1 : q[m] = p[m] /\ m \in 1..L /\ q[m] \in Block
  <2>1. \A m \in 1..L - 1 : m \in 1..L
    BY <1>3
  <2>2. \A m \in 1..L - 1 : p[m] \in Block
    BY <1>3, <2>1
  <2>3. q \in Seq(Block) /\ Len(q) = L - 1 /\ \A m \in 1..L - 1 : q[m] = p[m]
    BY <1>2, <1>3, <2>2 DEF Most
  <2>4. L - 1 \in Nat /\ L - 1 # 0
    BY <1>3
  <2>5. QED
    BY <2>1, <2>2, <2>3, <2>4
<1>14. q[1] = p[1] /\ q[L - 1] = c
  <2>1. 1 \in 1..L - 1 /\ L - 1 \in 1..L - 1
    BY <1>3
  <2>2. QED
    BY <1>2, <1>13, <2>1
<1>15. Chain(bs2, q)
  <2>a. /\ \A m \in 1..L - 1 : bs[p[m]].listnext = p[m + 1]
        /\ \A m \in 2..L : bs[p[m]].listprev = p[m - 1]
    <3>1. /\ \A m \in 1..Len(p) - 1 : bs[p[m]].listnext = p[m + 1]
          /\ \A m \in 2..Len(p) : bs[p[m]].listprev = p[m - 1]
      BY <1>1 DEF Chain
    <3>2. QED
      BY <1>2, <3>1, Zenon
  <2>1. \A m, n \in 1..L - 1 : q[m] = q[n] => m = n
    BY <1>3, <1>13
  <2>2. \A m \in 1..L - 2 : bs2[q[m]].listnext = q[m + 1]
    <3> TAKE m \in 1..L - 2
    <3>1. m \in 1..L - 1 /\ m + 1 \in 1..L - 1 /\ m # L - 1 /\ L - 1 \in 1..L
      BY <1>3
    <3>2. bs[p[m]].listnext = p[m + 1]
      BY <2>a, <3>1
    <3>3. p[m] # c
      BY <1>2, <1>3, <1>13, <3>1
    <3>4. QED
      BY <1>11, <1>13, <3>1, <3>2, <3>3
  <2>3. \A m \in 2..L - 1 : bs2[q[m]].listprev = q[m - 1]
    <3> TAKE m \in 2..L - 1
    <3>1. m \in 1..L - 1 /\ m \in 2..L /\ m - 1 \in 1..L - 1
      BY <1>3
    <3>2. bs[p[m]].listprev = p[m - 1]
      BY <2>a, <3>1
    <3>3. QED
      BY <1>11, <1>13, <3>1, <3>2
  <2>4. bs2[q[1]].listprev = NULL
    <3>1. bs[p[1]].listprev = NULL /\ p[1] \in Block
      <4>1. bs[p[1]].listprev = NULL
        BY <1>1 DEF Chain
      <4>2. 1 \in 1..L
        BY <1>3
      <4>3. QED
        BY <1>3, <4>1, <4>2
    <3>2. QED
      BY <1>11, <1>14, <3>1
  <2>5. bs2[q[L - 1]].listnext = NULL
    BY <1>6, <1>7, <1>10, <1>14
  <2>6. L - 1 - 1 = L - 2
    BY <1>3
  <2>7. QED
    <3>1. PICK k : k = L - 1
      OBVIOUS
    <3>2. q \in Seq(Block) /\ Len(q) = k /\ k # 0 /\ k - 1 = L - 2
      BY <1>13, <2>6, <3>1
    <3>3. \A m, n \in 1..k : q[m] = q[n] => m = n
      BY <2>1, <3>1, Zenon
    <3>4. \A m \in 1..k - 1 : bs2[q[m]].listnext = q[m + 1]
      BY <2>2, <3>2, Zenon
    <3>5. \A m \in 2..k : bs2[q[m]].listprev = q[m - 1]
      BY <2>3, <3>1, Zenon
    <3>6. bs2[q[1]].listprev = NULL /\ bs2[q[k]].listnext = NULL
      BY <2>4, <2>5, <3>1, Zenon
    <3>7. QED
      BY <3>2, <3>3, <3>4, <3>5, <3>6, Zenon DEF Chain
<1>16. Filled(bs2, q)
  <2>1. \A m \in 1..L - 1 : bs2[q[m]].nslots # 0
    BY <1>1, <1>2, <1>11, <1>13 DEF Filled
  <2>2. \A m \in 2..L - 1 - 1 : bs2[q[m]].nused # 0
    <3> TAKE m \in 2..L - 1 - 1
    <3>1. m \in 1..L - 1 /\ m \in 2..L - 1
      BY <1>3
    <3>2. bs[p[m]].nused # 0
      BY <1>1, <1>2, <3>1 DEF Filled
    <3>3. QED
      BY <1>11, <1>13, <3>1, <3>2
  <2>3. \A b \in Block : (\A m \in 1..L - 1 : q[m] # b) => bs2[b].nused = 0
    <3> SUFFICES ASSUME NEW b \in Block, \A m \in 1..L - 1 : q[m] # b PROVE bs[b].nused = 0
      BY <1>11
    <3>1. CASE b = p[L]
      BY <1>2, <3>1
    <3>2. CASE b # p[L]
      <4>1. \A k \in 1..L : p[k] # b
        <5> TAKE k \in 1..L
        <5>1. k = L \/ k \in 1..L - 1
          BY <1>3
        <5>2. QED
          BY <1>13, <3>2, <5>1
      <4>2. QED
        BY <1>1, <1>2, <4>1 DEF Filled
    <3>3. QED
      BY <3>1, <3>2
  <2>4. QED
    BY <1>13, <2>1, <2>2, <2>3 DEF Filled
<1>17. Flat(bs2, q) = Flat(bs, p)
  <2>1. PICK r, s : r = Rows(bs, p) /\ s = Rows(bs2, q)
    OBVIOUS
  <2>2. r \in Seq(Seq(Value)) /\ Len(r) = L /\ \A m \in 1..L : r[m] = Elems(bs[p[m]])
    BY <1>1, <1>2, <2>1, RowsType DEF IsRows
  <2>3. /\ s \in Seq(Seq(Value)) /\ Len(s) = L - 1 /\ \A m \in 1..L - 1 : s[m] = Elems(bs2[q[m]])
        /\ FlattenSeq(s) \in Seq(Value)
    <3>1. /\ s \in Seq(Seq(Value)) /\ Len(s) = Len(q)
          /\ \A m \in 1..Len(q) : s[m] = Elems(bs2[q[m]])
          /\ FlattenSeq(s) \in Seq(Value)
      <4>1. IsRows(bs2, q, s)
        BY <1>12, <1>15, <2>1, RowsType, Zenon
      <4>2. QED
        BY <4>1, Zenon DEF IsRows
    <3>2. Len(q) = L - 1
      BY <1>13
    <3>3. QED
      BY <3>1, <3>2, Zenon
  <2>4. r[L] = <<>>
    <3>1. L \in 1..L /\ p[L] \in Block
      BY <1>3
    <3>2. Elems(bs[p[L]]) \in Seq(Value) /\ Len(Elems(bs[p[L]])) = 0
      BY <1>2, <1>4, <3>1, ElemsType
    <3>3. QED
      BY <2>2, <3>1, <3>2, LenZero
  <2>5. \A m \in 1..L - 1 : r[m] = s[m]
    <3> TAKE m \in 1..L - 1
    <3>1. s[m] = Elems(bs2[q[m]]) /\ q[m] = p[m] /\ m \in 1..L /\ q[m] \in Block
      BY <1>13, <2>3
    <3>2. r[m] = Elems(bs[p[m]])
      BY <2>2, <3>1
    <3>3. QED
      BY <1>11, <3>1, <3>2
  <2>6. Len(r) = Len(s) + 1 /\ \A m \in 1..Len(s) : r[m] = s[m]
    BY <1>3, <2>2, <2>3, <2>5
  <2>7. FlattenSeq(r) = FlattenSeq(s) \o r[L]
    BY <2>2, <2>3, <2>6, LastRow
  <2>8. FlattenSeq(s) \o <<>> = FlattenSeq(s)
    BY <2>3
  <2>9. QED
    BY <2>1, <2>4, <2>7, <2>8 DEF Flat
<1>18. QED
  BY <1>2, <1>11, <1>12, <1>13, <1>14, <1>15, <1>16, <1>17 DEF ListOK

\* A new block, linked to the head h or to the tail h of a chain.
NewHead(n, h) == [NewBlock(n) EXCEPT !.listnext = h]
NewTail(n, h) == [NewBlock(n) EXCEPT !.listprev = h]

LEMMA NewOK ==
  ASSUME NEW n \in Nat, NEW h \in Pointer, NEW x, x \in {NewHead(n, h), NewTail(n, h)}
  PROVE  /\ x \in BlockType /\ BlockOK(x) /\ Elems(x) = <<>>
         /\ x.nused = 0 /\ x.nslots = n
         /\ x = NewHead(n, h) => x.listprev = NULL /\ x.listnext = h
         /\ x = NewTail(n, h) => x.listprev = h /\ x.listnext = NULL
<1>1. PICK s : s = [k \in 1..n |-> None]
  OBVIOUS
<1>2. s \in Seq(Value \cup {None}) /\ Len(s) = n
  BY <1>1
<1>3. PICK y : y = NewBlock(n)
  OBVIOUS
<1>4. y = [listprev |-> NULL, listnext |-> NULL, nslots |-> n, first |-> 0, nused |-> 0,
           lslots |-> s]
  BY <1>1, <1>3 DEF NewBlock, Unused
<1>5. NULL \in Pointer
  BY DEF Pointer
<1>6. /\ x.nslots = n /\ x.first = 0 /\ x.nused = 0 /\ x.lslots = s
      /\ x.listprev \in Pointer /\ x.listnext \in Pointer
      /\ x \in BlockType
      /\ x = NewHead(n, h) => x.listprev = NULL /\ x.listnext = h
      /\ x = NewTail(n, h) => x.listprev = h /\ x.listnext = NULL
  <2>1. CASE x = NewHead(n, h)
    <3>1. x = [listprev |-> NULL, listnext |-> h, nslots |-> n, first |-> 0, nused |-> 0,
               lslots |-> s]
      <4>1. x = [y EXCEPT !.listnext = h]
        BY <1>3, <2>1 DEF NewHead
      <4>2. QED
        BY <1>4, <4>1
    <3>2. x = NewTail(n, h) => h = NULL
      <4>1. ASSUME x = NewTail(n, h) PROVE h = NULL
        <5>1. x = [listprev |-> h, listnext |-> NULL, nslots |-> n, first |-> 0, nused |-> 0,
                   lslots |-> s]
          <6>1. x = [y EXCEPT !.listprev = h]
            BY <1>3, <4>1 DEF NewTail
          <6>2. QED
            BY <1>4, <6>1
        <5>2. QED
          BY <3>1, <5>1
      <4>2. QED
        BY <4>1
    <3>3. QED
      BY <1>2, <1>5, <2>1, <3>1, <3>2 DEF BlockType
  <2>2. CASE x = NewTail(n, h) /\ x # NewHead(n, h)
    <3>1. x = [listprev |-> h, listnext |-> NULL, nslots |-> n, first |-> 0, nused |-> 0,
               lslots |-> s]
      <4>1. x = [y EXCEPT !.listprev = h]
        BY <1>3, <2>2 DEF NewTail
      <4>2. QED
        BY <1>4, <4>1
    <3>2. QED
      BY <1>2, <1>5, <2>2, <3>1 DEF BlockType
  <2>3. QED
    BY <2>1, <2>2
<1>7. BlockOK(x)
  <2>1. 0 <= n /\ (n # 0 => 0 < n) /\ 0..0 - 1 = {}
    OBVIOUS
  <2>2. QED
    BY <1>2, <1>6, <2>1 DEF BlockOK
<1>8. Elems(x) = <<>>
  BY <1>6 DEF Elems
<1>9. QED
  BY <1>6, <1>7, <1>8

\* A block that only gets other links.
Relinks(x, y, a, c) ==
  /\ y \in BlockType /\ BlockOK(y) /\ Elems(y) = Elems(x)
  /\ y.nused = x.nused /\ y.nslots = x.nslots
  /\ y.listprev = a /\ y.listnext = c

LEMMA Relinked ==
  ASSUME NEW x, BlockOK(x), NEW a \in Pointer, NEW c \in Pointer,
         NEW y, y = [x EXCEPT !.listprev = a, !.listnext = c]
  PROVE  Relinks(x, y, a, c)
<1>1. x \in BlockType
  BY DEF BlockOK
<1>2. /\ y.listprev = a /\ y.listnext = c /\ y.nslots = x.nslots
      /\ y.first = x.first /\ y.nused = x.nused /\ y.lslots = x.lslots /\ y \in BlockType
  BY <1>1 DEF BlockType
<1>3. \A n : Elem(y, n) = Elem(x, n)
  BY <1>2 DEF Elem, Slot
<1>4. BlockOK(y)
  BY <1>2, <1>3 DEF BlockOK
<1>5. Elems(y) = Elems(x)
  BY <1>2, <1>3 DEF Elems
<1>6. QED
  BY <1>2, <1>4, <1>5 DEF Relinks

\* The blocks bs with the block b before the head h, or behind the tail h.
Before(bs, h, b, n) == [bs EXCEPT ![b] = NewHead(n, h), ![h].listprev = b]
Behind(bs, h, b, n) == [bs EXCEPT ![b] = NewTail(n, h), ![h].listnext = b]

\* The chain p with b before it, or behind it.
Longer(b, p) == [m \in 1..Len(p) + 1 |-> IF m = 1 THEN b ELSE p[m - 1]]
Further(b, p) == [m \in 1..Len(p) + 1 |-> IF m = Len(p) + 1 THEN b ELSE p[m]]

LEMMA AddHead ==
  ASSUME NEW bs, NEW p, ListOK(bs, p), bs[p[1]].nused # 0,
         NEW b \in Block, \A m \in 1..Len(p) : p[m] # b, NEW n \in Nat \ {0},
         NEW bs2, bs2 = Before(bs, p[1], b, n), NEW q, q = Longer(b, p)
  PROVE  /\ ListOK(bs2, q) /\ Len(q) = Len(p) + 1 /\ q[1] = b /\ q[Len(q)] = p[Len(p)]
         /\ Flat(bs2, q) = Flat(bs, p)
         /\ bs2[b].nused = 0 /\ bs2[b].nslots = n
<1>1. BlocksOK(bs) /\ Chain(bs, p) /\ Filled(bs, p)
  BY DEF ListOK
<1>2. PICK L, h : L = Len(p) /\ h = p[1]
  OBVIOUS
<1>3. /\ L \in Nat \ {0} /\ p \in Seq(Block)
      /\ \A k \in 1..L : p[k] \in Block
      /\ \A k, j \in 1..L : p[k] = p[j] => k = j
  BY <1>1, <1>2, ChainAt
<1>4. bs \in [Block -> BlockType] /\ \A c \in Block : BlockOK(bs[c])
  BY <1>1 DEF BlocksOK
<1>5. h \in Block /\ h # b /\ h \in Pointer /\ b \in Pointer
  <2>1. 1 \in 1..L
    BY <1>3
  <2>2. QED
    BY <1>2, <1>3, <2>1 DEF Pointer
<1>6. PICK x, y, z : /\ x = NewHead(n, h) /\ z = bs[h]
                     /\ y = [z EXCEPT !.listprev = b, !.listnext = z.listnext]
  OBVIOUS
<1>7. /\ x \in BlockType /\ BlockOK(x) /\ Elems(x) = <<>> /\ x.nused = 0 /\ x.nslots = n
      /\ x.listprev = NULL /\ x.listnext = h
  BY <1>5, <1>6, NewOK
<1>8. BlockOK(z) /\ z.listnext \in Pointer /\ z \in BlockType
  BY <1>4, <1>5, <1>6 DEF BlockOK, BlockType
<1>9. /\ y \in BlockType /\ BlockOK(y) /\ Elems(y) = Elems(z) /\ y.nused = z.nused
      /\ y.nslots = z.nslots /\ y.listprev = b /\ y.listnext = z.listnext
  <2>1. Relinks(z, y, b, z.listnext)
    BY <1>5, <1>6, <1>8, Relinked, Zenon
  <2>2. QED
    BY <2>1 DEF Relinks
<1>10. y = [z EXCEPT !.listprev = b]
  BY <1>6, <1>8 DEF BlockType
<1>11. bs2 = [c \in Block |-> IF c = h THEN y ELSE IF c = b THEN x ELSE bs[c]]
  BY <1>2, <1>4, <1>5, <1>6, <1>10 DEF Before
<1>12. bs2[b] = x /\ bs2[h] = y /\ \A c \in Block : c # h /\ c # b => bs2[c] = bs[c]
  BY <1>5, <1>11
<1>13. \A c \in Block : c # b => /\ bs2[c].nslots = bs[c].nslots /\ bs2[c].nused = bs[c].nused
                                 /\ bs2[c].listnext = bs[c].listnext
                                 /\ Elems(bs2[c]) = Elems(bs[c])
                                 /\ c # h => bs2[c].listprev = bs[c].listprev
  <2> TAKE c \in Block
  <2>1. CASE c = h
    BY <1>6, <1>9, <1>12, <2>1
  <2>2. CASE c # h
    BY <1>12, <2>2
  <2>3. QED
    BY <2>1, <2>2
<1>14. BlocksOK(bs2)
  <2>1. bs2 \in [Block -> BlockType]
    BY <1>4, <1>7, <1>9, <1>11
  <2>2. \A c \in Block : BlockOK(bs2[c])
    BY <1>4, <1>7, <1>9, <1>12
  <2>3. QED
    BY <2>1, <2>2 DEF BlocksOK
<1>15. /\ q \in Seq(Block) /\ Len(q) = L + 1 /\ q[1] = b
       /\ \A m \in 1..L : q[m + 1] = p[m] /\ p[m] \in Block /\ p[m] # b
  <2>1. q = [m \in 1..L + 1 |-> IF m = 1 THEN b ELSE p[m - 1]]
    BY <1>2 DEF Longer
  <2>2. \A m \in 1..L + 1 : m # 1 => m - 1 \in 1..L
    BY <1>3
  <2>3. \A m \in 1..L + 1 : (IF m = 1 THEN b ELSE p[m - 1]) \in Block
    BY <1>3, <2>2
  <2>4. q \in Seq(Block) /\ Len(q) = L + 1
    BY <1>3, <2>1, <2>3
  <2>5. q[1] = b /\ \A m \in 1..L : q[m + 1] = p[m]
    BY <1>3, <2>1
  <2>6. QED
    BY <1>2, <1>3, <2>4, <2>5
<1>16. \A m \in 2..L + 1 : m - 1 \in 1..L /\ q[m] = p[m - 1] /\ m - 1 + 1 = m
  <2> TAKE m \in 2..L + 1
  <2>1. m - 1 \in 1..L /\ m - 1 + 1 = m
    BY <1>3
  <2>2. QED
    BY <1>15, <2>1
<1>17. Chain(bs2, q)
  <2>1. /\ \A m \in 1..Len(p) - 1 : bs[p[m]].listnext = p[m + 1]
        /\ \A m \in 2..Len(p) : bs[p[m]].listprev = p[m - 1]
        /\ bs[p[Len(p)]].listnext = NULL
    BY <1>1 DEF Chain
  <2>2. /\ \A m \in 1..L - 1 : bs[p[m]].listnext = p[m + 1]
        /\ \A m \in 2..L : bs[p[m]].listprev = p[m - 1]
        /\ bs[p[L]].listnext = NULL
    BY <1>2, <2>1, Zenon
  <2>3. \A m, k \in 1..L + 1 : q[m] = q[k] => m = k
    <3> SUFFICES ASSUME NEW m \in 1..L + 1, NEW k \in 1..L + 1, q[m] = q[k] PROVE m = k
      OBVIOUS
    <3>1. (m = 1 \/ m \in 2..L + 1) /\ (k = 1 \/ k \in 2..L + 1)
      BY <1>3
    <3>2. CASE m \in 2..L + 1 /\ k \in 2..L + 1
      <4>1. m - 1 = k - 1
        BY <1>3, <1>16, <3>2
      <4>2. QED
        BY <1>3, <4>1
    <3>3. CASE m = 1 \/ k = 1
      BY <1>15, <1>16, <3>1, <3>3
    <3>4. QED
      BY <3>1, <3>2, <3>3
  <2>4. \A m \in 1..L : bs2[q[m]].listnext = q[m + 1]
    <3> TAKE m \in 1..L
    <3>1. CASE m = 1
      <4>1. q[1 + 1] = p[1]
        BY <1>15, <3>1
      <4>2. QED
        BY <1>2, <1>7, <1>12, <1>15, <3>1, <4>1
    <3>2. CASE m # 1
      <4>1. m \in 2..L + 1 /\ m - 1 \in 1..L - 1
        BY <1>3, <3>2
      <4>2. bs[p[m - 1]].listnext = p[m]
        BY <1>16, <2>2, <4>1
      <4>3. q[m] = p[m - 1] /\ p[m - 1] \in Block /\ p[m - 1] # b /\ q[m + 1] = p[m]
        BY <1>15, <1>16, <4>1
      <4>4. QED
        BY <1>13, <4>2, <4>3
    <3>3. QED
      BY <3>1, <3>2
  <2>5. \A m \in 2..L + 1 : bs2[q[m]].listprev = q[m - 1]
    <3> TAKE m \in 2..L + 1
    <3>1. PICK k : k = m - 1
      OBVIOUS
    <3>2. k \in 1..L /\ q[m] = p[k] /\ p[k] \in Block /\ p[k] # b
      BY <1>15, <1>16, <3>1
    <3>3. CASE k = 1
      BY <1>2, <1>9, <1>12, <1>15, <3>1, <3>2, <3>3
    <3>4. CASE k # 1
      <4>1. k \in 2..L /\ k \in 2..L + 1 /\ 1 \in 1..L
        BY <1>3, <3>2, <3>4
      <4>2. bs[p[k]].listprev = p[k - 1] /\ q[k] = p[k - 1]
        BY <1>16, <2>2, <4>1
      <4>3. p[k] # h
        BY <1>2, <1>3, <3>2, <3>4, <4>1
      <4>4. QED
        BY <1>13, <3>1, <3>2, <4>2, <4>3
    <3>5. QED
      BY <3>3, <3>4
  <2>6. bs2[q[1]].listprev = NULL
    BY <1>7, <1>12, <1>15
  <2>7. bs2[q[L + 1]].listnext = NULL
    <3>1. L \in 1..L
      BY <1>3
    <3>2. QED
      BY <1>13, <1>15, <2>2, <3>1
  <2>8. PICK k : k = L + 1
    OBVIOUS
  <2>9. Len(q) = k /\ k # 0 /\ k - 1 = L
    BY <1>3, <1>15, <2>8
  <2>10. \A m, j \in 1..k : q[m] = q[j] => m = j
    BY <2>3, <2>8, Zenon
  <2>11. \A m \in 1..k - 1 : bs2[q[m]].listnext = q[m + 1]
    BY <2>4, <2>9, Zenon
  <2>12. \A m \in 2..k : bs2[q[m]].listprev = q[m - 1]
    BY <2>5, <2>8, Zenon
  <2>13. bs2[q[k]].listnext = NULL
    BY <2>7, <2>8, Zenon
  <2>14. QED
    BY <1>15, <2>6, <2>9, <2>10, <2>11, <2>12, <2>13, Zenon DEF Chain
<1>18. Filled(bs2, q)
  <2>1. \A m \in 1..L + 1 : bs2[q[m]].nslots # 0
    <3> TAKE m \in 1..L + 1
    <3>1. m = 1 \/ m \in 2..L + 1
      BY <1>3
    <3>2. CASE m = 1
      BY <1>7, <1>12, <1>15, <3>2
    <3>3. CASE m \in 2..L + 1
      <4>1. m - 1 \in 1..L /\ q[m] = p[m - 1] /\ p[m - 1] \in Block /\ p[m - 1] # b
        BY <1>15, <1>16, <3>3
      <4>2. bs[p[m - 1]].nslots # 0
        BY <1>1, <1>2, <4>1 DEF Filled
      <4>3. QED
        BY <1>13, <4>1, <4>2
    <3>4. QED
      BY <3>1, <3>2, <3>3
  <2>2. \A m \in 2..L : bs2[q[m]].nused # 0
    <3> TAKE m \in 2..L
    <3>1. PICK k : k = m - 1
      OBVIOUS
    <3>2. m \in 2..L + 1 /\ (k = 1 \/ k \in 2..L - 1)
      BY <1>3, <3>1
    <3>3. k \in 1..L /\ q[m] = p[k] /\ p[k] \in Block /\ p[k] # b
      BY <1>15, <1>16, <3>1, <3>2
    <3>4. bs[p[k]].nused # 0
      BY <1>1, <1>2, <3>2 DEF Filled
    <3>5. QED
      BY <1>13, <3>3, <3>4
  <2>3. \A c \in Block : (\A m \in 1..L + 1 : q[m] # c) => bs2[c].nused = 0
    <3> SUFFICES ASSUME NEW c \in Block, \A m \in 1..L + 1 : q[m] # c PROVE bs2[c].nused = 0
      OBVIOUS
    <3>1. 1 \in 1..L + 1 /\ \A m \in 1..L : m + 1 \in 1..L + 1
      BY <1>3
    <3>2. c # b
      BY <1>15, <3>1
    <3>3. \A m \in 1..L : p[m] # c
      BY <1>15, <3>1
    <3>4. bs[c].nused = 0
      BY <1>1, <1>2, <3>3 DEF Filled
    <3>5. QED
      BY <1>13, <3>2, <3>4
  <2>4. QED
    <3>1. PICK k : k = L + 1
      OBVIOUS
    <3>2. Len(q) = k /\ k - 1 = L
      BY <1>3, <1>15, <3>1
    <3>3. \A m \in 1..k : bs2[q[m]].nslots # 0
      BY <2>1, <3>1, Zenon
    <3>4. \A m \in 2..k - 1 : bs2[q[m]].nused # 0
      BY <2>2, <3>2, Zenon
    <3>5. \A c \in Block : (\A m \in 1..k : q[m] # c) => bs2[c].nused = 0
      BY <2>3, <3>1, Zenon
    <3>6. QED
      BY <3>2, <3>3, <3>4, <3>5, Zenon DEF Filled
<1>19. Flat(bs2, q) = Flat(bs, p)
  <2>1. PICK r, s : r = Rows(bs2, q) /\ s = Rows(bs, p)
    OBVIOUS
  <2>2. /\ s \in Seq(Seq(Value)) /\ Len(s) = L /\ \A m \in 1..L : s[m] = Elems(bs[p[m]])
        /\ FlattenSeq(s) \in Seq(Value)
    BY <1>1, <1>2, <2>1, RowsType DEF IsRows
  <2>3. /\ r \in Seq(Seq(Value)) /\ Len(r) = L + 1 /\ \A m \in 1..L + 1 : r[m] = Elems(bs2[q[m]])
    <3>1. IsRows(bs2, q, r)
      BY <1>14, <1>17, <2>1, RowsType, Zenon
    <3>2. /\ r \in Seq(Seq(Value)) /\ Len(r) = Len(q)
          /\ \A m \in 1..Len(q) : r[m] = Elems(bs2[q[m]])
      BY <3>1, Zenon DEF IsRows
    <3>3. Len(q) = L + 1
      BY <1>15
    <3>4. QED
      BY <3>2, <3>3, Zenon
  <2>4. r[1] = <<>>
    <3>1. 1 \in 1..L + 1
      BY <1>3
    <3>2. QED
      BY <1>7, <1>12, <1>15, <2>3, <3>1
  <2>5. \A m \in 1..L : r[m + 1] = s[m]
    <3> TAKE m \in 1..L
    <3>1. m + 1 \in 1..L + 1
      BY <1>3
    <3>2. r[m + 1] = Elems(bs2[q[m + 1]]) /\ s[m] = Elems(bs[p[m]])
      BY <2>2, <2>3, <3>1
    <3>3. q[m + 1] = p[m] /\ p[m] \in Block /\ p[m] # b
      BY <1>15
    <3>4. QED
      BY <1>13, <3>2, <3>3
  <2>6. FlattenSeq(r) = r[1] \o FlattenSeq(s)
    BY <2>2, <2>3, <2>5, FirstRow
  <2>7. <<>> \o FlattenSeq(s) = FlattenSeq(s)
    BY <2>2
  <2>8. QED
    BY <2>1, <2>4, <2>6, <2>7 DEF Flat
<1>20. q[Len(q)] = p[Len(p)]
  <2>1. L \in 1..L
    BY <1>3
  <2>2. QED
    BY <1>2, <1>15, <2>1
<1>21. QED
  BY <1>2, <1>7, <1>12, <1>14, <1>15, <1>17, <1>18, <1>19, <1>20 DEF ListOK

LEMMA AddTail ==
  ASSUME NEW bs, NEW p, ListOK(bs, p), NEW h, h = p[Len(p)], bs[h].nused # 0,
         NEW b \in Block, \A m \in 1..Len(p) : p[m] # b, NEW n \in Nat \ {0},
         NEW bs2, bs2 = Behind(bs, h, b, n), NEW q, q = Further(b, p)
  PROVE  /\ ListOK(bs2, q) /\ Len(q) = Len(p) + 1 /\ q[1] = p[1] /\ q[Len(q)] = b
         /\ Flat(bs2, q) = Flat(bs, p)
         /\ bs2[b].nused = 0 /\ bs2[b].nslots = n
         /\ \A m \in 1..Len(p) : q[m] = p[m] /\ bs2[p[m]].nused = bs[p[m]].nused
<1>1. BlocksOK(bs) /\ Chain(bs, p) /\ Filled(bs, p)
  BY DEF ListOK
<1>2. PICK L : L = Len(p)
  OBVIOUS
<1>3. /\ L \in Nat \ {0} /\ p \in Seq(Block) /\ L \in 1..L
      /\ \A k \in 1..L : p[k] \in Block
      /\ \A k, j \in 1..L : p[k] = p[j] => k = j
  BY <1>1, <1>2, ChainAt
<1>4. bs \in [Block -> BlockType] /\ \A c \in Block : BlockOK(bs[c])
  BY <1>1 DEF BlocksOK
<1>5. h = p[L] /\ h \in Block /\ h # b /\ h \in Pointer /\ b \in Pointer
  BY <1>2, <1>3 DEF Pointer
<1>6. PICK x, y, z : /\ x = NewTail(n, h) /\ z = bs[h]
                     /\ y = [z EXCEPT !.listprev = z.listprev, !.listnext = b]
  OBVIOUS
<1>7. /\ x \in BlockType /\ BlockOK(x) /\ Elems(x) = <<>> /\ x.nused = 0 /\ x.nslots = n
      /\ x.listprev = h /\ x.listnext = NULL
  BY <1>5, <1>6, NewOK
<1>8. BlockOK(z) /\ z.listprev \in Pointer /\ z \in BlockType
  BY <1>4, <1>5, <1>6 DEF BlockOK, BlockType
<1>9. /\ y \in BlockType /\ BlockOK(y) /\ Elems(y) = Elems(z) /\ y.nused = z.nused
      /\ y.nslots = z.nslots /\ y.listprev = z.listprev /\ y.listnext = b
  <2>1. Relinks(z, y, z.listprev, b)
    BY <1>5, <1>6, <1>8, Relinked, Zenon
  <2>2. QED
    BY <2>1 DEF Relinks
<1>10. y = [z EXCEPT !.listnext = b]
  BY <1>6, <1>8 DEF BlockType
<1>11. bs2 = [c \in Block |-> IF c = h THEN y ELSE IF c = b THEN x ELSE bs[c]]
  BY <1>4, <1>5, <1>6, <1>10 DEF Behind
<1>12. bs2[b] = x /\ bs2[h] = y /\ \A c \in Block : c # h /\ c # b => bs2[c] = bs[c]
  BY <1>5, <1>11
<1>13. \A c \in Block : c # b => /\ bs2[c].nslots = bs[c].nslots /\ bs2[c].nused = bs[c].nused
                                 /\ bs2[c].listprev = bs[c].listprev
                                 /\ Elems(bs2[c]) = Elems(bs[c])
                                 /\ c # h => bs2[c].listnext = bs[c].listnext
  <2> TAKE c \in Block
  <2>1. CASE c = h
    BY <1>6, <1>9, <1>12, <2>1
  <2>2. CASE c # h
    BY <1>12, <2>2
  <2>3. QED
    BY <2>1, <2>2
<1>14. BlocksOK(bs2)
  <2>1. bs2 \in [Block -> BlockType]
    BY <1>4, <1>7, <1>9, <1>11
  <2>2. \A c \in Block : BlockOK(bs2[c])
    BY <1>4, <1>7, <1>9, <1>12
  <2>3. QED
    BY <2>1, <2>2 DEF BlocksOK
<1>15. /\ q \in Seq(Block) /\ Len(q) = L + 1 /\ q[L + 1] = b
       /\ \A m \in 1..L : q[m] = p[m] /\ p[m] \in Block /\ p[m] # b
  <2>1. q = [m \in 1..L + 1 |-> IF m = L + 1 THEN b ELSE p[m]]
    BY <1>2 DEF Further
  <2>2. \A m \in 1..L + 1 : m # L + 1 => m \in 1..L
    BY <1>3
  <2>3. \A m \in 1..L + 1 : (IF m = L + 1 THEN b ELSE p[m]) \in Block
    BY <1>3, <2>2
  <2>4. q \in Seq(Block) /\ Len(q) = L + 1
    BY <1>3, <2>1, <2>3
  <2>5. q[L + 1] = b /\ \A m \in 1..L : q[m] = p[m]
    BY <1>3, <2>1
  <2>6. QED
    BY <1>2, <1>3, <2>4, <2>5
<1>16. \A m \in 1..L + 1 : m = L + 1 \/ m \in 1..L
  BY <1>3
<1>17. Chain(bs2, q)
  <2>1. /\ \A m \in 1..Len(p) - 1 : bs[p[m]].listnext = p[m + 1]
        /\ \A m \in 2..Len(p) : bs[p[m]].listprev = p[m - 1]
        /\ bs[p[1]].listprev = NULL
    BY <1>1 DEF Chain
  <2>2. /\ \A m \in 1..L - 1 : bs[p[m]].listnext = p[m + 1]
        /\ \A m \in 2..L : bs[p[m]].listprev = p[m - 1]
    BY <1>2, <2>1, Zenon
  <2>3. \A m, k \in 1..L + 1 : q[m] = q[k] => m = k
    <3> SUFFICES ASSUME NEW m \in 1..L + 1, NEW k \in 1..L + 1, q[m] = q[k] PROVE m = k
      OBVIOUS
    <3>1. CASE m \in 1..L /\ k \in 1..L
      BY <1>3, <1>15, <3>1
    <3>2. CASE m = L + 1 \/ k = L + 1
      BY <1>15, <1>16, <3>2
    <3>3. QED
      BY <1>16, <3>1, <3>2
  <2>4. \A m \in 1..L : bs2[q[m]].listnext = q[m + 1]
    <3> TAKE m \in 1..L
    <3>1. CASE m = L
      BY <1>5, <1>9, <1>12, <1>15, <3>1
    <3>2. CASE m # L
      <4>1. m \in 1..L - 1 /\ m + 1 \in 1..L
        BY <1>3, <3>2
      <4>2. bs[p[m]].listnext = p[m + 1]
        BY <2>2, <4>1
      <4>3. q[m] = p[m] /\ p[m] \in Block /\ p[m] # b /\ q[m + 1] = p[m + 1]
        BY <1>15, <4>1
      <4>4. p[m] # h
        BY <1>3, <1>5, <3>2
      <4>5. QED
        BY <1>13, <4>2, <4>3, <4>4
    <3>3. QED
      BY <3>1, <3>2
  <2>5. \A m \in 2..L + 1 : bs2[q[m]].listprev = q[m - 1]
    <3> TAKE m \in 2..L + 1
    <3>1. CASE m = L + 1
      <4>1. m - 1 = L
        BY <1>3, <3>1
      <4>2. QED
        BY <1>3, <1>5, <1>7, <1>12, <1>15, <3>1, <4>1
    <3>2. CASE m # L + 1
      <4>1. m \in 2..L /\ m \in 1..L /\ m - 1 \in 1..L
        BY <1>3, <3>2
      <4>2. bs[p[m]].listprev = p[m - 1]
        BY <2>2, <4>1
      <4>3. q[m] = p[m] /\ p[m] \in Block /\ p[m] # b /\ q[m - 1] = p[m - 1]
        BY <1>15, <4>1
      <4>4. QED
        BY <1>13, <4>2, <4>3
    <3>3. QED
      BY <3>1, <3>2
  <2>6. bs2[q[1]].listprev = NULL
    <3>1. 1 \in 1..L
      BY <1>3
    <3>2. QED
      BY <1>13, <1>15, <2>1, <3>1
  <2>7. bs2[q[L + 1]].listnext = NULL
    BY <1>7, <1>12, <1>15
  <2>8. PICK k : k = L + 1
    OBVIOUS
  <2>9. Len(q) = k /\ k # 0 /\ k - 1 = L
    BY <1>3, <1>15, <2>8
  <2>10. \A m, j \in 1..k : q[m] = q[j] => m = j
    BY <2>3, <2>8, Zenon
  <2>11. \A m \in 1..k - 1 : bs2[q[m]].listnext = q[m + 1]
    BY <2>4, <2>9, Zenon
  <2>12. \A m \in 2..k : bs2[q[m]].listprev = q[m - 1]
    BY <2>5, <2>8, Zenon
  <2>13. bs2[q[k]].listnext = NULL
    BY <2>7, <2>8, Zenon
  <2>14. QED
    BY <1>15, <2>6, <2>9, <2>10, <2>11, <2>12, <2>13, Zenon DEF Chain
<1>18. Filled(bs2, q)
  <2>1. \A m \in 1..L + 1 : bs2[q[m]].nslots # 0
    <3> TAKE m \in 1..L + 1
    <3>1. CASE m = L + 1
      BY <1>7, <1>12, <1>15, <3>1
    <3>2. CASE m \in 1..L
      <4>1. q[m] = p[m] /\ p[m] \in Block /\ p[m] # b
        BY <1>15, <3>2
      <4>2. bs[p[m]].nslots # 0
        BY <1>1, <1>2, <3>2 DEF Filled
      <4>3. QED
        BY <1>13, <4>1, <4>2
    <3>3. QED
      BY <1>16, <3>1, <3>2
  <2>2. \A m \in 2..L : bs2[q[m]].nused # 0
    <3> TAKE m \in 2..L
    <3>1. m \in 1..L /\ (m = L \/ m \in 2..L - 1)
      BY <1>3
    <3>2. q[m] = p[m] /\ p[m] \in Block /\ p[m] # b
      BY <1>15, <3>1
    <3>3. bs[p[m]].nused # 0
      BY <1>1, <1>2, <1>5, <3>1 DEF Filled
    <3>4. QED
      BY <1>13, <3>2, <3>3
  <2>3. \A c \in Block : (\A m \in 1..L + 1 : q[m] # c) => bs2[c].nused = 0
    <3> SUFFICES ASSUME NEW c \in Block, \A m \in 1..L + 1 : q[m] # c PROVE bs2[c].nused = 0
      OBVIOUS
    <3>1. L + 1 \in 1..L + 1 /\ \A m \in 1..L : m \in 1..L + 1
      BY <1>3
    <3>2. c # b
      BY <1>15, <3>1
    <3>3. \A m \in 1..L : p[m] # c
      BY <1>15, <3>1
    <3>4. bs[c].nused = 0
      BY <1>1, <1>2, <3>3 DEF Filled
    <3>5. QED
      BY <1>13, <3>2, <3>4
  <2>4. QED
    <3>1. PICK k : k = L + 1
      OBVIOUS
    <3>2. Len(q) = k /\ k - 1 = L
      BY <1>3, <1>15, <3>1
    <3>3. \A m \in 1..k : bs2[q[m]].nslots # 0
      BY <2>1, <3>1, Zenon
    <3>4. \A m \in 2..k - 1 : bs2[q[m]].nused # 0
      BY <2>2, <3>2, Zenon
    <3>5. \A c \in Block : (\A m \in 1..k : q[m] # c) => bs2[c].nused = 0
      BY <2>3, <3>1, Zenon
    <3>6. QED
      BY <3>2, <3>3, <3>4, <3>5, Zenon DEF Filled
<1>19. Flat(bs2, q) = Flat(bs, p)
  <2>1. PICK r, s : r = Rows(bs2, q) /\ s = Rows(bs, p)
    OBVIOUS
  <2>2. /\ s \in Seq(Seq(Value)) /\ Len(s) = L /\ \A m \in 1..L : s[m] = Elems(bs[p[m]])
        /\ FlattenSeq(s) \in Seq(Value)
    BY <1>1, <1>2, <2>1, RowsType DEF IsRows
  <2>3. /\ r \in Seq(Seq(Value)) /\ Len(r) = L + 1 /\ \A m \in 1..L + 1 : r[m] = Elems(bs2[q[m]])
    <3>1. IsRows(bs2, q, r)
      BY <1>14, <1>17, <2>1, RowsType, Zenon
    <3>2. /\ r \in Seq(Seq(Value)) /\ Len(r) = Len(q)
          /\ \A m \in 1..Len(q) : r[m] = Elems(bs2[q[m]])
      BY <3>1, Zenon DEF IsRows
    <3>3. Len(q) = L + 1
      BY <1>15
    <3>4. QED
      BY <3>2, <3>3, Zenon
  <2>4. r[L + 1] = <<>>
    <3>1. L + 1 \in 1..L + 1
      BY <1>3
    <3>2. QED
      BY <1>7, <1>12, <1>15, <2>3, <3>1
  <2>5. \A m \in 1..L : r[m] = s[m]
    <3> TAKE m \in 1..L
    <3>1. m \in 1..L + 1
      BY <1>3
    <3>2. r[m] = Elems(bs2[q[m]]) /\ s[m] = Elems(bs[p[m]])
      BY <2>2, <2>3, <3>1
    <3>3. q[m] = p[m] /\ p[m] \in Block /\ p[m] # b
      BY <1>15
    <3>4. QED
      BY <1>13, <3>2, <3>3
  <2>6. FlattenSeq(r) = FlattenSeq(s) \o r[L + 1]
    <3>1. Len(r) = Len(s) + 1 /\ Len(r) = L + 1
      BY <2>2, <2>3
    <3>2. \A m \in 1..Len(s) : r[m] = s[m]
      BY <2>2, <2>5, Zenon
    <3>3. FlattenSeq(r) = FlattenSeq(s) \o r[Len(r)]
      BY <2>2, <2>3, <3>1, <3>2, LastRow
    <3>4. QED
      BY <3>1, <3>3, Zenon
  <2>7. FlattenSeq(s) \o <<>> = FlattenSeq(s)
    BY <2>2
  <2>8. QED
    BY <2>1, <2>4, <2>6, <2>7 DEF Flat
<1>20. q[1] = p[1] /\ q[Len(q)] = b
  <2>1. 1 \in 1..L
    BY <1>3
  <2>2. QED
    BY <1>15, <2>1
<1>21. \A m \in 1..Len(p) : q[m] = p[m] /\ bs2[p[m]].nused = bs[p[m]].nused
  BY <1>2, <1>13, <1>15
<1>22. ListOK(bs2, q)
  BY <1>14, <1>17, <1>18 DEF ListOK
<1>23. QED
  BY <1>2, <1>7, <1>12, <1>15, <1>19, <1>20, <1>21, <1>22

-----------------------------------------------------------------------------
(* What a collection makes of a chain that the list refers to.             *)

InUse(x) == {Slot(x, n) + 1 : n \in 0..x.nused - 1}

\* A block that is kept.
Kept(x) == [x EXCEPT !.lslots = [s \in 1..x.nslots |-> IF s \in InUse(x) THEN x.lslots[s] ELSE None]]

LEMMA KeptOK ==
  ASSUME NEW x, BlockOK(x)
  PROVE  /\ Kept(x) \in BlockType /\ BlockOK(Kept(x)) /\ Elems(Kept(x)) = Elems(x)
         /\ Alike(x, Kept(x)) /\ Kept(x).nused = x.nused
<1>1. PICK y, s, l : y = Kept(x) /\ l = x.nslots
                     /\ s = [k \in 1..l |-> IF k \in InUse(x) THEN x.lslots[k] ELSE None]
  OBVIOUS
<1>2. x \in BlockType /\ l \in Nat /\ x.nused \in Nat /\ x.nused <= l
      /\ x.lslots \in Seq(Value \cup {None}) /\ Len(x.lslots) = l
  BY <1>1, BlockFields DEF BlockOK
<1>3. s \in Seq(Value \cup {None}) /\ Len(s) = l
  <2>1. \A k \in 1..l : x.lslots[k] \in Value \cup {None}
    BY <1>2
  <2>2. \A k \in 1..l : (IF k \in InUse(x) THEN x.lslots[k] ELSE None) \in Value \cup {None}
    BY <2>1
  <2>3. QED
    BY <1>1, <1>2, <2>2
<1>4. y = [x EXCEPT !.lslots = s]
  BY <1>1 DEF Kept
<1>5. /\ y.listprev = x.listprev /\ y.listnext = x.listnext /\ y.nslots = l
      /\ y.first = x.first /\ y.nused = x.nused /\ y.lslots = s /\ y \in BlockType
  BY <1>1, <1>2, <1>3, <1>4 DEF BlockType
<1>6. \A n \in 0..x.nused - 1 : Elem(y, n) = Elem(x, n)
  <2> TAKE n \in 0..x.nused - 1
  <2>1. n \in 0..x.nslots - 1
    BY <1>1, <1>2
  <2>2. PICK k : k = Slot(x, n) + 1
    OBVIOUS
  <2>3. k \in 1..l /\ k \in InUse(x)
    <3>1. Slot(x, n) \in 0..l - 1
      BY <1>1, <2>1, SlotIn
    <3>2. QED
      BY <1>2, <2>2, <3>1 DEF InUse
  <2>4. Slot(y, n) = Slot(x, n)
    BY <1>1, <1>5 DEF Slot
  <2>5. s[k] = x.lslots[k]
    BY <1>1, <2>3
  <2>6. QED
    BY <1>5, <2>2, <2>4, <2>5 DEF Elem
<1>7. BlockOK(y)
  <2>1. x.first <= l /\ (l # 0 => x.first < l) /\ \A n \in 0..x.nused - 1 : Elem(x, n) \in Value
    BY <1>1, BlockFields
  <2>2. QED
    BY <1>2, <1>3, <1>5, <1>6, <2>1 DEF BlockOK
<1>8. Elems(y) = Elems(x)
  <2>1. \A n \in 1..x.nused : n - 1 \in 0..x.nused - 1
    BY <1>2
  <2>2. \A n \in 1..x.nused : Elem(y, n - 1) = Elem(x, n - 1)
    BY <1>6, <2>1
  <2>3. QED
    BY <1>5, <2>2 DEF Elems
<1>9. QED
  BY <1>1, <1>5, <1>7, <1>8 DEF Alike

\* The blocks of the chain are reached from its head.
LEMMA ChainReached ==
  ASSUME NEW bs, NEW p, Chain(bs, p), NEW S, p[1] \in S
  PROVE  \A m \in 1..Len(p) : p[m] \in Reached(bs, S)
<1>1. PICK L : L = Len(p)
  OBVIOUS
<1>2. /\ L \in Nat \ {0} /\ \A k \in 1..L : p[k] \in Block
  BY <1>1, ChainAt
<1>3. \A m \in 1..L - 1 : bs[p[m]].listnext = p[m + 1]
  <2>1. \A m \in 1..Len(p) - 1 : bs[p[m]].listnext = p[m + 1]
    BY DEF Chain
  <2>2. QED
    BY <1>1, <2>1, Zenon
<1>4. ASSUME NEW R, S \subseteq R, Closed(bs, R)
      PROVE  \A m \in 1..L : p[m] \in R
  <2> DEFINE T == {k \in Nat : k + 1 \in 1..L => p[k + 1] \in R}
  <2>1. 0 \in T
    <3>1. 0 + 1 = 1
      OBVIOUS
    <3>2. p[0 + 1] \in R
      BY <1>4, <3>1
    <3>3. QED
      BY <3>2
  <2>2. ASSUME NEW k \in T PROVE k + 1 \in T
    <3>1. k \in Nat /\ k + 1 \in Nat
      OBVIOUS
    <3>2. SUFFICES ASSUME k + 1 + 1 \in 1..L PROVE p[k + 1 + 1] \in R
      BY <3>1
    <3>3. k + 1 \in 1..L /\ k + 1 \in 1..L - 1
      BY <1>2, <3>1, <3>2
    <3>4. p[k + 1] \in R /\ p[k + 1] \in Block
      BY <1>2, <3>3
    <3>5. p[k + 1] # NULL
      BY <3>4 DEF Block, NULL
    <3>6. bs[p[k + 1]].listnext \in R
      BY <1>4, <3>4, <3>5 DEF Closed
    <3>7. QED
      BY <1>3, <3>3, <3>6
  <2> HIDE DEF T
  <2>3. T = Nat
    <3>1. T \subseteq Nat
      BY DEF T
    <3>2. QED
      BY <2>1, <2>2, <3>1, Inductive
  <2>4. \A m \in 1..L : m - 1 \in T /\ m - 1 + 1 = m
    BY <1>2, <2>3
  <2>5. QED
    <3> TAKE m \in 1..L
    <3>1. PICK k : k = m - 1
      OBVIOUS
    <3>2. k \in T /\ k + 1 = m
      BY <2>4, <3>1
    <3>3. QED
      BY <3>2 DEF T
<1>5. QED
  BY <1>1, <1>2, <1>4 DEF Reached

LEMMA CollectedOK ==
  ASSUME NEW bs, NEW p, ListOK(bs, p), NEW S, p[1] \in S, NEW cs, cs = Collected(bs, S)
  PROVE  /\ ListOK(cs, p) /\ Rows(cs, p) = Rows(bs, p)
         /\ \A m \in 1..Len(p) : cs[p[m]].nused = bs[p[m]].nused
<1>1. BlocksOK(bs) /\ Chain(bs, p) /\ Filled(bs, p)
  BY DEF ListOK
<1>2. /\ Len(p) \in Nat \ {0} /\ p \in Seq(Block)
      /\ \A k \in 1..Len(p) : p[k] \in Block
      /\ \A k, n \in 1..Len(p) : p[k] = p[n] => k = n
  BY <1>1, ChainAt
<1>3. bs \in [Block -> BlockType] /\ \A b \in Block : BlockOK(bs[b])
  BY <1>1 DEF BlocksOK
<1>4. cs = [b \in Block |-> IF b \notin Reached(bs, S) THEN Unused ELSE Kept(bs[b])]
  BY DEF Collected, Kept, InUse
<1>5. Unused \in BlockType /\ BlockOK(Unused) /\ Unused.nused = 0
  <2>1. NULL \in Pointer
    BY DEF Pointer
  <2>2. PICK x : x = Unused
    OBVIOUS
  <2>3. x = [listprev |-> NULL, listnext |-> NULL, nslots |-> 0, first |-> 0, nused |-> 0,
             lslots |-> <<>>]
    BY <2>2 DEF Unused
  <2>4. /\ x.nslots = 0 /\ x.first = 0 /\ x.nused = 0 /\ x.lslots = <<>>
        /\ x \in BlockType
    BY <2>1, <2>3 DEF BlockType
  <2>5. Len(<<>>) = 0 /\ 0 <= 0 /\ 0..0 - 1 = {}
    OBVIOUS
  <2>6. QED
    BY <2>2, <2>4, <2>5 DEF BlockOK
<1>6. BlocksOK(cs)
  <2>1. \A b \in Block : Kept(bs[b]) \in BlockType /\ BlockOK(Kept(bs[b]))
    BY <1>3, KeptOK
  <2>2. QED
    BY <1>4, <1>5, <2>1 DEF BlocksOK
<1>7. \A m \in 1..Len(p) : /\ Alike(bs[p[m]], cs[p[m]]) /\ Elems(cs[p[m]]) = Elems(bs[p[m]])
                           /\ cs[p[m]].nused = bs[p[m]].nused
  <2> TAKE m \in 1..Len(p)
  <2>1. p[m] \in Block /\ p[m] \in Reached(bs, S)
    BY <1>1, <1>2, ChainReached
  <2>2. cs[p[m]] = Kept(bs[p[m]]) /\ BlockOK(bs[p[m]])
    BY <1>3, <1>4, <2>1
  <2>3. QED
    BY <2>2, KeptOK
<1>8. Chain(cs, p)
  <2>1. \A m \in 1..Len(p) : /\ cs[p[m]].listnext = bs[p[m]].listnext
                             /\ cs[p[m]].listprev = bs[p[m]].listprev
    BY <1>7 DEF Alike
  <2>2. /\ 1 \in 1..Len(p) /\ Len(p) \in 1..Len(p)
        /\ \A k \in 1..Len(p) - 1 : k \in 1..Len(p)
        /\ \A k \in 2..Len(p) : k \in 1..Len(p)
    BY <1>2
  <2>3. QED
    BY <1>1, <1>2, <2>1, <2>2 DEF Chain
<1>9. Filled(cs, p)
  <2>1. \A m \in 1..Len(p) : cs[p[m]].nslots # 0
    BY <1>1, <1>7 DEF Filled, Alike
  <2>2. \A k \in 2..Len(p) - 1 : k \in 1..Len(p)
    BY <1>2
  <2>3. \A m \in 2..Len(p) - 1 : cs[p[m]].nused # 0
    BY <1>1, <1>7, <2>2 DEF Filled
  <2>4. \A b \in Block : (\A m \in 1..Len(p) : p[m] # b) => cs[b].nused = 0
    <3> SUFFICES ASSUME NEW b \in Block, \A m \in 1..Len(p) : p[m] # b PROVE cs[b].nused = 0
      OBVIOUS
    <3>1. bs[b].nused = 0
      BY <1>1 DEF Filled
    <3>2. Kept(bs[b]).nused = 0
      BY <1>3, <3>1, KeptOK
    <3>3. QED
      BY <1>4, <1>5, <3>2
  <2>5. QED
    BY <2>1, <2>3, <2>4 DEF Filled
<1>10. Rows(cs, p) = Rows(bs, p)
  BY <1>7, RowsSame
<1>11. QED
  BY <1>6, <1>7, <1>8, <1>9, <1>10 DEF ListOK

-----------------------------------------------------------------------------
(* Where the elements of a chain are.                                      *)

\* u[m] elements are in the first m blocks of p.
IsUpto(bs, p, u) ==
  /\ u \in [0..Len(p) -> Nat] /\ u[0] = 0
  /\ \A m \in 1..Len(p) : u[m] = u[m - 1] + bs[p[m]].nused

LEMMA SumExists ==
  ASSUME NEW N \in Nat, NEW g
  PROVE  \E u : u = [m \in 0..N |-> IF m = 0 THEN 0 ELSE u[m - 1] + g[m]]
<1> DEFINE Sum(u, m) == IF m = 0 THEN 0 ELSE u[m - 1] + g[m]
           T == {k \in Nat : \E u : u = [m \in 0..k |-> Sum(u, m)]}
<1>1. 0 \in T
  <2>1. PICK u : u = [m \in 0..0 |-> 0]
    OBVIOUS
  <2>2. \A m \in 0..0 : Sum(u, m) = 0
    OBVIOUS
  <2> HIDE DEF Sum
  <2>3. u = [m \in 0..0 |-> Sum(u, m)]
    BY <2>1, <2>2
  <2>4. QED
    BY <2>3
<1>2. ASSUME NEW k \in T PROVE k + 1 \in T
  <2>1. PICK u : u = [m \in 0..k |-> Sum(u, m)]
    OBVIOUS
  <2>2. k \in Nat
    OBVIOUS
  <2>3. PICK v : v = [m \in 0..k + 1 |-> IF m = k + 1 THEN Sum(u, m) ELSE u[m]]
    OBVIOUS
  <2>4. ASSUME NEW m \in 0..k + 1 PROVE v[m] = Sum(v, m)
    <3>1. v[m] = Sum(u, m)
      <4>1. CASE m = k + 1
        BY <2>3, <4>1
      <4>2. CASE m # k + 1
        <5>1. m \in 0..k
          BY <2>2, <4>2
        <5>2. v[m] = u[m]
          BY <2>3, <4>2
        <5> HIDE DEF Sum
        <5>3. u[m] = Sum(u, m)
          BY <2>1, <5>1
        <5>4. QED
          BY <5>2, <5>3
      <4>3. QED
        BY <4>1, <4>2
    <3>2. m # 0 => v[m - 1] = u[m - 1]
      <4>1. SUFFICES ASSUME m # 0 PROVE v[m - 1] = u[m - 1]
        OBVIOUS
      <4>2. m - 1 \in 0..k + 1 /\ m - 1 # k + 1
        BY <2>2, <4>1
      <4>3. QED
        BY <2>3, <4>2
    <3>3. Sum(v, m) = Sum(u, m)
      BY <3>2
    <3>4. QED
      BY <3>1, <3>3
  <2>5. v = [m \in 0..k + 1 |-> Sum(v, m)]
    <3> HIDE DEF Sum
    <3>1. DOMAIN v = 0..k + 1 /\ v = [m \in 0..k + 1 |-> v[m]]
      BY <2>3
    <3>2. QED
      BY <2>4, <3>1
  <2>6. k + 1 \in Nat
    BY <2>2
  <2> HIDE DEF Sum
  <2>7. QED
    BY <2>5, <2>6
<1> HIDE DEF T
<1>3. T = Nat
  <2>1. T \subseteq Nat
    BY DEF T
  <2>2. QED
    BY <1>1, <1>2, <2>1, Inductive
<1>4. N \in T
  BY <1>3
<1>5. QED
  BY <1>4 DEF T

LEMMA UptoIs ==
  ASSUME NEW bs, BlocksOK(bs), NEW p, Chain(bs, p)
  PROVE  IsUpto(bs, p, Upto(bs, p))
<1>1. PICK L, g : L = Len(p) /\ g = [m \in 1..L |-> bs[p[m]].nused]
  OBVIOUS
<1>2. L \in Nat /\ \A m \in 1..L : p[m] \in Block
  BY <1>1, ChainAt
<1>3. \A m \in 1..L : g[m] = bs[p[m]].nused /\ g[m] \in Nat
  BY <1>1, <1>2, BlockFields DEF BlocksOK
<1> DEFINE Body(u) == [m \in 0..L |-> IF m = 0 THEN 0 ELSE u[m - 1] + bs[p[m]].nused]
           Mine(u) == [m \in 0..L |-> IF m = 0 THEN 0 ELSE u[m - 1] + g[m]]
<1>4. \A u : Body(u) = Mine(u)
  <2> TAKE u
  <2>1. \A m \in 0..L : m # 0 => m \in 1..L
    BY <1>2
  <2>2. \A m \in 0..L : m # 0 => g[m] = bs[p[m]].nused
    BY <1>3, <2>1
  <2>3. QED
    BY <2>2
<1>5. PICK u : u = CHOOSE v : v = Body(v)
  OBVIOUS
<1>6. u = Body(u)
  <2>1. \E v : v = Mine(v)
    BY <1>2, SumExists
  <2> HIDE DEF Body, Mine
  <2>2. \E v : v = Body(v)
    BY <1>4, <2>1
  <2>3. QED
    BY <1>5, <2>2
<1>7. Upto(bs, p) = u
  BY <1>1, <1>5 DEF Upto
<1>8. /\ DOMAIN u = 0..L /\ u = [m \in 0..L |-> u[m]] /\ u[0] = 0
      /\ \A m \in 1..L : u[m] = u[m - 1] + g[m]
  <2>1. 0 \in 0..L /\ \A m \in 1..L : m \in 0..L /\ m # 0
    BY <1>2
  <2>2. \A m \in 0..L : u[m] = IF m = 0 THEN 0 ELSE u[m - 1] + bs[p[m]].nused
    BY <1>6
  <2>3. DOMAIN u = 0..L /\ u = [m \in 0..L |-> u[m]]
    BY <1>6
  <2>4. QED
    BY <1>3, <2>1, <2>2, <2>3
<1>9. \A m \in 0..L : u[m] \in Nat
  <2> DEFINE T == {k \in Nat : k \in 0..L => u[k] \in Nat}
  <2>1. 0 \in T
    BY <1>8
  <2>2. ASSUME NEW k \in T PROVE k + 1 \in T
    <3>1. k + 1 \in Nat /\ k \in Nat
      OBVIOUS
    <3>2. SUFFICES ASSUME k + 1 \in 0..L PROVE u[k + 1] \in Nat
      BY <3>1
    <3>3. k \in 0..L /\ k + 1 \in 1..L /\ k + 1 - 1 = k
      BY <1>2, <3>1, <3>2
    <3>4. u[k] \in Nat
      BY <3>1, <3>3
    <3>5. PICK n : n = k + 1
      OBVIOUS
    <3>6. n \in 1..L /\ n - 1 = k
      BY <3>3, <3>5
    <3>7. g[n] \in Nat /\ u[n] = u[n - 1] + g[n]
      BY <1>3, <1>8, <3>6
    <3>8. QED
      BY <3>4, <3>5, <3>6, <3>7
  <2> HIDE DEF T
  <2>3. T = Nat
    <3>1. T \subseteq Nat
      BY DEF T
    <3>2. QED
      BY <2>1, <2>2, <3>1, Inductive
  <2>4. QED
    BY <1>2, <2>3 DEF T
<1>10. u \in [0..L -> Nat]
  BY <1>8, <1>9
<1>11. \A m \in 1..L : u[m] = u[m - 1] + bs[p[m]].nused
  BY <1>3, <1>8
<1>12. QED
  BY <1>1, <1>7, <1>8, <1>10, <1>11 DEF IsUpto

\* The sums grow, and they are the lengths of the rows.
LEMMA UptoGrows ==
  ASSUME NEW bs, BlocksOK(bs), NEW p, Chain(bs, p), NEW u, IsUpto(bs, p, u)
  PROVE  \A m, n \in 0..Len(p) : m <= n => u[m] <= u[n]
<1>1. PICK L : L = Len(p)
  OBVIOUS
<1>2. /\ L \in Nat /\ u \in [0..L -> Nat]
      /\ \A m \in 1..L : u[m] = u[m - 1] + bs[p[m]].nused /\ bs[p[m]].nused \in Nat
  <2>1. \A m \in 1..L : p[m] \in Block
    BY <1>1, ChainAt
  <2>2. \A m \in 1..L : bs[p[m]].nused \in Nat
    BY <2>1, BlockFields DEF BlocksOK
  <2>3. L \in Nat
    BY <1>1, ChainAt
  <2>4. QED
    BY <1>1, <2>2, <2>3 DEF IsUpto
<1>3. SUFFICES ASSUME NEW m \in 0..L PROVE \A n \in 0..L : m <= n => u[m] <= u[n]
  BY <1>1
<1> DEFINE T == {k \in Nat : m + k \in 0..L => u[m] <= u[m + k]}
<1>4. 0 \in T
  <2>1. m + 0 = m /\ u[m] \in Nat
    BY <1>2
  <2>2. QED
    BY <2>1
<1>5. ASSUME NEW k \in T PROVE k + 1 \in T
  <2>1. k \in Nat /\ k + 1 \in Nat /\ m \in Nat
    BY <1>2
  <2>2. SUFFICES ASSUME m + (k + 1) \in 0..L PROVE u[m] <= u[m + (k + 1)]
    BY <2>1
  <2>3. PICK n : n = m + k
    OBVIOUS
  <2>4. n \in 0..L /\ n + 1 \in 1..L /\ n + 1 - 1 = n /\ m + (k + 1) = n + 1
    BY <1>2, <2>1, <2>2, <2>3
  <2>5. u[n + 1] = u[n] + bs[p[n + 1]].nused /\ bs[p[n + 1]].nused \in Nat
    BY <1>2, <2>4
  <2>6. u[m] <= u[n] /\ u[m] \in Nat /\ u[n] \in Nat
    BY <1>2, <2>3, <2>4
  <2>7. QED
    BY <2>4, <2>5, <2>6
<1> HIDE DEF T
<1>6. T = Nat
  <2>1. T \subseteq Nat
    BY DEF T
  <2>2. QED
    BY <1>4, <1>5, <2>1, Inductive
<1>7. QED
  <2> TAKE n \in 0..L
  <2>1. HAVE m <= n
  <2>2. PICK k : k = n - m
    OBVIOUS
  <2>3. k \in Nat /\ m + k = n
    BY <1>2, <2>1, <2>2
  <2>4. k \in T
    BY <1>6, <2>3
  <2>5. QED
    BY <2>3, <2>4 DEF T

\* Two chains whose first blocks have as many elements.
LEMMA UptoSame ==
  ASSUME NEW bs, NEW p, NEW u, IsUpto(bs, p, u), Len(p) \in Nat,
         NEW cs, NEW q, NEW v, IsUpto(cs, q, v), Len(q) \in Nat,
         NEW K \in Nat, K <= Len(p), K <= Len(q),
         \A m \in 1..K : cs[q[m]].nused = bs[p[m]].nused
  PROVE  \A m \in 0..K : v[m] = u[m]
<1> DEFINE T == {k \in Nat : k \in 0..K => v[k] = u[k]}
<1>1. 0 \in T
  BY DEF IsUpto
<1>2. ASSUME NEW k \in T PROVE k + 1 \in T
  <2>1. k \in Nat /\ k + 1 \in Nat
    OBVIOUS
  <2>2. SUFFICES ASSUME k + 1 \in 0..K PROVE v[k + 1] = u[k + 1]
    BY <2>1
  <2>3. /\ k \in 0..K /\ k + 1 \in 1..K /\ k + 1 \in 1..Len(p) /\ k + 1 \in 1..Len(q)
        /\ k + 1 - 1 = k
    BY <2>1, <2>2
  <2>4. v[k + 1] = v[k] + cs[q[k + 1]].nused /\ u[k + 1] = u[k] + bs[p[k + 1]].nused
    BY <2>3 DEF IsUpto
  <2>5. v[k] = u[k] /\ cs[q[k + 1]].nused = bs[p[k + 1]].nused
    BY <2>3
  <2>6. QED
    BY <2>4, <2>5
<1> HIDE DEF T
<1>3. T = Nat
  <2>1. T \subseteq Nat
    BY DEF T
  <2>2. QED
    BY <1>1, <1>2, <2>1, Inductive
<1>4. QED
  BY <1>3 DEF T

\* Element j of block m is element u[m - 1] + j of the list.
LEMMA FlatAt ==
  ASSUME NEW bs, BlocksOK(bs), NEW p, Chain(bs, p), NEW u, IsUpto(bs, p, u)
  PROVE  /\ Flat(bs, p) \in Seq(Value) /\ Len(Flat(bs, p)) = u[Len(p)]
         /\ \A m \in 1..Len(p) : \A j \in 1..bs[p[m]].nused :
              /\ u[m - 1] + j \in 1..u[Len(p)]
              /\ Flat(bs, p)[u[m - 1] + j] = Elem(bs[p[m]], j - 1)
<1>1. PICK L, r : L = Len(p) /\ r = Rows(bs, p)
  OBVIOUS
<1>2. L \in Nat /\ \A m \in 1..L : p[m] \in Block
  BY <1>1, ChainAt
<1>3. /\ r \in Seq(Seq(Value)) /\ Len(r) = L /\ \A m \in 1..L : r[m] = Elems(bs[p[m]])
      /\ FlattenSeq(r) \in Seq(Value)
  BY <1>1, RowsType DEF IsRows
<1>4. \A m \in 1..L : Len(r[m]) = bs[p[m]].nused
  BY <1>2, <1>3, ElemsType DEF BlocksOK
<1>5. u \in [0..Len(r) -> Nat] /\ u[0] = 0
  BY <1>1, <1>3 DEF IsUpto
<1>6. \A m \in 1..Len(r) : u[m] = u[m - 1] + Len(r[m])
  BY <1>1, <1>3, <1>4 DEF IsUpto
<1>7. /\ Len(FlattenSeq(r)) = u[L]
      /\ \A m \in 1..L : \A j \in 1..Len(r[m]) :
           u[m - 1] + j \in 1..u[L] /\ FlattenSeq(r)[u[m - 1] + j] = r[m][j]
  <2>1. /\ Len(FlattenSeq(r)) = u[Len(r)]
        /\ \A m \in 1..Len(r) : \A j \in 1..Len(r[m]) :
             /\ u[m - 1] + j \in 1..u[Len(r)]
             /\ FlattenSeq(r)[u[m - 1] + j] = r[m][j]
    <3>1. r \in Seq(Seq(Value)) /\ u \in [0..Len(r) -> Nat] /\ u[0] = 0
      BY <1>3, <1>5
    <3>2. QED
      BY <1>6, <3>1, FlattenIndex, ZenonT(30)
  <2>2. Len(r) = L
    BY <1>3
  <2>3. QED
    BY <2>1, <2>2, Zenon
<1>8. ASSUME NEW m \in 1..L, NEW j \in 1..bs[p[m]].nused
      PROVE  /\ u[m - 1] + j \in 1..u[L]
             /\ FlattenSeq(r)[u[m - 1] + j] = Elem(bs[p[m]], j - 1)
  <2>1. j \in 1..Len(r[m])
    BY <1>4
  <2>2. r[m][j] = Elem(bs[p[m]], j - 1)
    BY <1>3 DEF Elems
  <2>3. QED
    BY <1>7, <2>1, <2>2
<1>9. Flat(bs, p) = FlattenSeq(r)
  BY <1>1 DEF Flat
<1>10. QED
  BY <1>1, <1>3, <1>7, <1>8, <1>9

\* k is the place of element j of block m.
Place(bs, p, u, k, m, j) ==
  m \in 1..Len(p) /\ j \in 1..bs[p[m]].nused /\ k = u[m - 1] + j

\* The block that holds element k is the first one that reaches it.
LEMMA Locate ==
  ASSUME NEW bs, BlocksOK(bs), NEW p, Chain(bs, p), NEW u, IsUpto(bs, p, u),
         NEW k \in 1..u[Len(p)], NEW m, m = Min({n \in 1..Len(p) : k <= u[n]})
  PROVE  /\ Place(bs, p, u, k, m, k - u[m - 1])
         /\ \A n, j : Place(bs, p, u, k, n, j) => n = m /\ j = k - u[m - 1]
<1>1. PICK L, T : L = Len(p) /\ T = {n \in 1..L : k <= u[n]}
  OBVIOUS
<1>2. /\ L \in Nat \ {0} /\ u \in [0..L -> Nat] /\ u[0] = 0
      /\ \A n \in 1..L : u[n] = u[n - 1] + bs[p[n]].nused /\ bs[p[n]].nused \in Nat
  <2>1. \A n \in 1..L : p[n] \in Block
    BY <1>1, ChainAt
  <2>2. \A n \in 1..L : bs[p[n]].nused \in Nat
    BY <2>1, BlockFields DEF BlocksOK
  <2>3. L \in Nat \ {0}
    BY <1>1, ChainAt
  <2>4. QED
    BY <1>1, <2>2, <2>3 DEF IsUpto
<1>3. L \in 0..L /\ u[L] \in Nat /\ k \in 1..u[L]
  BY <1>1, <1>2
<1>4. k \in Nat \ {0} /\ L \in T
  BY <1>1, <1>2, <1>3
<1>5. T \subseteq Nat /\ m = Min(T)
  BY <1>1, <1>2
<1>6. m \in T /\ \A n \in T : m <= n
  BY <1>4, <1>5, MinIn
<1>7. m \in 1..L /\ m - 1 \in 0..L /\ u[m - 1] \in Nat /\ k <= u[m]
  BY <1>1, <1>2, <1>6
<1>8. u[m - 1] < k
  <2>1. CASE m = 1
    BY <1>2, <1>4, <2>1
  <2>2. CASE m # 1
    <3>1. m - 1 \in 1..L /\ ~(m <= m - 1)
      BY <1>2, <1>7, <2>2
    <3>2. m - 1 \notin T
      BY <1>6, <3>1
    <3>3. QED
      BY <1>1, <1>4, <1>7, <3>1, <3>2
  <2>3. QED
    BY <2>1, <2>2
<1>9. Place(bs, p, u, k, m, k - u[m - 1])
  <2>1. u[m] = u[m - 1] + bs[p[m]].nused /\ bs[p[m]].nused \in Nat
    BY <1>2, <1>7
  <2>2. k - u[m - 1] \in 1..bs[p[m]].nused /\ k = u[m - 1] + (k - u[m - 1])
    BY <1>4, <1>7, <1>8, <2>1
  <2>3. QED
    BY <1>1, <1>7, <2>2 DEF Place
<1>10. ASSUME NEW n, NEW j, Place(bs, p, u, k, n, j) PROVE n = m /\ j = k - u[m - 1]
  <2>1. n \in 1..L /\ j \in 1..bs[p[n]].nused /\ k = u[n - 1] + j
    BY <1>1, <1>10 DEF Place
  <2>2. n - 1 \in 0..L /\ n \in 0..L /\ u[n - 1] \in Nat /\ u[n] = u[n - 1] + bs[p[n]].nused
        /\ bs[p[n]].nused \in Nat
    BY <1>2, <2>1
  <2>3. k <= u[n] /\ u[n - 1] < k
    BY <2>1, <2>2
  <2>4. m <= n
    BY <1>1, <1>6, <2>1, <2>3
  <2>5. ~(m <= n - 1)
    <3>1. SUFFICES ASSUME m <= n - 1 PROVE FALSE
      OBVIOUS
    <3>2. m \in 0..L /\ u[m] \in Nat
      BY <1>2, <1>7
    <3>3. u[m] <= u[n - 1]
      BY <1>1, <2>2, <3>1, <3>2, UptoGrows
    <3>4. QED
      BY <1>4, <1>7, <2>2, <2>3, <3>2, <3>3
  <2>6. n = m
    BY <1>7, <2>1, <2>4, <2>5
  <2>7. QED
    BY <2>1, <2>2, <2>6
<1>11. QED
  BY <1>9, <1>10

-----------------------------------------------------------------------------
(* What the operations make of the elements of a chain.                    *)

\* Only the rows at m differ.
Differ(r, s, L, m) ==
  /\ r \in Seq(Seq(Value)) /\ s \in Seq(Seq(Value)) /\ Len(r) = L /\ Len(s) = L
  /\ \A k \in 1..L : k # m => s[k] = r[k]

\* More elements in the first row, or in the last.
LEMMA FlatFirst ==
  ASSUME NEW r, NEW s, NEW n \in Nat \ {0}, Differ(r, s, n, 1),
         NEW a \in Seq(Value), s[1] = a \o r[1]
  PROVE  FlattenSeq(s) = a \o FlattenSeq(r)
<1>0. r \in Seq(Seq(Value)) /\ s \in Seq(Seq(Value)) /\ Len(r) = n /\ Len(s) = n
      /\ \A m \in 1..n : m # 1 => s[m] = r[m]
  BY DEF Differ
<1>1. PICK t : t = [m \in 1..n - 1 |-> r[m + 1]]
  OBVIOUS
<1>2. n \in Nat \ {0} /\ \A m \in 1..n : r[m] \in Seq(Value)
  BY <1>0
<1>3. r[1] \in Seq(Value) /\ a \o r[1] \in Seq(Value)
  BY <1>2
<1>4. Len(s) = n /\ s[1] = a \o r[1] /\ \A m \in 1..n : m # 1 => s[m] = r[m]
  BY <1>0
<1>5. t \in Seq(Seq(Value)) /\ Len(t) = n - 1 /\ \A m \in 1..n - 1 : t[m] = r[m + 1]
  <2>1. \A m \in 1..n - 1 : m + 1 \in 1..n
    BY <1>2
  <2>2. QED
    BY <1>1, <1>2, <2>1
<1>6. \A m \in 1..n - 1 : s[m + 1] = t[m]
  <2> TAKE m \in 1..n - 1
  <2>1. m + 1 \in 1..n /\ m + 1 # 1
    BY <1>2
  <2>2. QED
    BY <1>4, <1>5, <2>1
<1>7. Len(r) = Len(t) + 1 /\ Len(s) = Len(t) + 1
  BY <1>0, <1>2, <1>4, <1>5
<1>8. FlattenSeq(r) = r[1] \o FlattenSeq(t)
  <2>1. \A m \in 1..Len(t) : r[m + 1] = t[m]
    BY <1>5
  <2>2. QED
    BY <1>0, <1>5, <1>7, <2>1, FirstRow
<1>9. FlattenSeq(s) = s[1] \o FlattenSeq(t)
  <2>1. \A m \in 1..Len(t) : s[m + 1] = t[m]
    BY <1>5, <1>6
  <2>2. QED
    BY <1>0, <1>4, <1>5, <1>7, <2>1, FirstRow
<1>10. FlattenSeq(t) \in Seq(Value)
  BY <1>5, FlattenType
<1>11. \A x, y, z \in Seq(Value) : (x \o y) \o z = x \o (y \o z)
  OBVIOUS
<1>12. (a \o r[1]) \o FlattenSeq(t) = a \o (r[1] \o FlattenSeq(t))
  BY <1>3, <1>10, <1>11, Zenon
<1>13. QED
  BY <1>4, <1>8, <1>9, <1>12, Zenon

LEMMA FlatLast ==
  ASSUME NEW r, NEW s, NEW n \in Nat \ {0}, Differ(r, s, n, n),
         NEW x \in Value, s[n] = Append(r[n], x)
  PROVE  FlattenSeq(s) = Append(FlattenSeq(r), x)
<1>0. r \in Seq(Seq(Value)) /\ s \in Seq(Seq(Value)) /\ Len(r) = n /\ Len(s) = n
      /\ \A m \in 1..n : m # n => s[m] = r[m]
  BY DEF Differ
<1>1. PICK t : t = [m \in 1..n - 1 |-> r[m]]
  OBVIOUS
<1>2. n \in Nat \ {0} /\ n \in 1..n /\ \A m \in 1..n : r[m] \in Seq(Value)
  BY <1>0
<1>3. r[n] \in Seq(Value) /\ Append(r[n], x) \in Seq(Value)
  BY <1>2
<1>4. Len(s) = n /\ s[n] = Append(r[n], x) /\ \A m \in 1..n : m # n => s[m] = r[m]
  BY <1>0
<1>5. t \in Seq(Seq(Value)) /\ Len(t) = n - 1 /\ \A m \in 1..n - 1 : t[m] = r[m]
  <2>1. \A m \in 1..n - 1 : m \in 1..n
    BY <1>2
  <2>2. QED
    BY <1>1, <1>2, <2>1
<1>6. \A m \in 1..n - 1 : s[m] = t[m]
  <2> TAKE m \in 1..n - 1
  <2>1. m \in 1..n /\ m # n
    BY <1>2
  <2>2. QED
    BY <1>4, <1>5, <2>1
<1>7. Len(r) = Len(t) + 1 /\ Len(s) = Len(t) + 1
  BY <1>0, <1>2, <1>4, <1>5
<1>8. FlattenSeq(r) = FlattenSeq(t) \o r[n]
  <2>1. \A m \in 1..Len(t) : r[m] = t[m]
    BY <1>5
  <2>2. FlattenSeq(r) = FlattenSeq(t) \o r[Len(r)]
    BY <1>0, <1>5, <1>7, <2>1, LastRow
  <2>3. QED
    BY <1>0, <2>2
<1>9. FlattenSeq(s) = FlattenSeq(t) \o s[n]
  <2>1. \A m \in 1..Len(t) : s[m] = t[m]
    BY <1>5, <1>6
  <2>2. FlattenSeq(s) = FlattenSeq(t) \o s[Len(s)]
    BY <1>0, <1>4, <1>5, <1>7, <2>1, LastRow
  <2>3. QED
    BY <1>4, <2>2
<1>10. FlattenSeq(t) \in Seq(Value)
  BY <1>5, FlattenType
<1>11. FlattenSeq(t) \o Append(r[n], x) = Append(FlattenSeq(t) \o r[n], x)
  <2>1. PICK a, b : a = FlattenSeq(t) /\ b = r[n]
    OBVIOUS
  <2>2. a \in Seq(Value) /\ b \in Seq(Value)
    BY <1>3, <1>10, <2>1
  <2>3. a \o Append(b, x) = Append(a \o b, x)
    BY <2>2, ConcatAppend
  <2>4. QED
    BY <2>1, <2>3
<1>12. QED
  BY <1>4, <1>8, <1>9, <1>11, Zenon

LEMMA DifferBack ==
  ASSUME NEW r, NEW s, NEW L, NEW m, Differ(r, s, L, m)
  PROVE  Differ(s, r, L, m)
BY DEF Differ

\* Block m of p is y in bs2.
Becomes(bs, p, m, y, bs2) ==
  /\ ListOK(bs2, p) /\ Differ(Rows(bs, p), Rows(bs2, p), Len(p), m)
  /\ Rows(bs, p)[m] = Elems(bs[p[m]]) /\ Rows(bs2, p)[m] = Elems(y)

LEMMA RowsDiffer ==
  ASSUME NEW bs, NEW p, NEW m, NEW y, Replaces(bs, p, m, y),
         NEW bs2, bs2 = [bs EXCEPT ![p[m]] = y]
  PROVE  Becomes(bs, p, m, y, bs2)
<1>1. Replaced(bs, p, m, y, bs2)
  BY Replace
<1>2. PICK r, s : r = Rows(bs, p) /\ s = Rows(bs2, p)
  OBVIOUS
<1>3. ListOK(bs2, p) /\ \A k \in 1..Len(p) : s[k] = IF k = m THEN Elems(y) ELSE r[k]
  BY <1>1, <1>2 DEF Replaced
<1>4. BlocksOK(bs2) /\ Chain(bs2, p) /\ BlocksOK(bs) /\ Chain(bs, p) /\ m \in 1..Len(p)
  BY <1>3 DEF ListOK, Replaces
<1>5. IsRows(bs, p, r) /\ IsRows(bs2, p, s)
  BY <1>2, <1>4, RowsType
<1>6. /\ r \in Seq(Seq(Value)) /\ Len(r) = Len(p) /\ \A k \in 1..Len(p) : r[k] = Elems(bs[p[k]])
      /\ s \in Seq(Seq(Value)) /\ Len(s) = Len(p)
  BY <1>5 DEF IsRows
<1>7. Differ(r, s, Len(p), m)
  BY <1>3, <1>6 DEF Differ
<1>8. r[m] = Elems(bs[p[m]]) /\ s[m] = Elems(y)
  BY <1>3, <1>4, <1>6
<1>9. QED
  BY <1>2, <1>3, <1>7, <1>8 DEF Becomes

\* The blocks bs after something has become of b.
Set(bs, b, y) == [bs EXCEPT ![b] = y]

LEMMA PushedList ==
  ASSUME NEW bs, NEW p, ListOK(bs, p), NEW b, b = p[1], bs[b].nused < bs[b].nslots,
         NEW v \in Value, NEW bs2, bs2 = Set(bs, b, AfterPush(bs[b], v))
  PROVE  ListOK(bs2, p) /\ Flat(bs2, p) = <<v>> \o Flat(bs, p)
<1>1. BlocksOK(bs) /\ Chain(bs, p)
  BY DEF ListOK
<1>2. Len(p) \in Nat \ {0} /\ 1 \in 1..Len(p) /\ b \in Block
  <2>1. Len(p) \in Nat \ {0}
    BY <1>1, ChainAt
  <2>2. 1 \in 1..Len(p)
    BY <2>1
  <2>3. QED
    BY <1>1, <2>1, <2>2, ChainAt
<1>3. BlockOK(bs[b])
  BY <1>1, <1>2 DEF BlocksOK
<1>4. PICK y, r : y = AfterPush(bs[b], v) /\ r = Rows(bs, p)
  OBVIOUS
<1>5. BlockOK(y) /\ Alike(bs[b], y) /\ Elems(y) = <<v>> \o Elems(bs[b])
  BY <1>3, <1>4, PushBlock
<1>6. bs2 = [bs EXCEPT ![p[1]] = y]
  BY <1>4 DEF Set
<1>7. PICK s : s = Rows(bs2, p)
  OBVIOUS
<1>8. ListOK(bs2, p) /\ Differ(r, s, Len(p), 1) /\ r[1] = Elems(bs[b]) /\ s[1] = Elems(y)
  <2>1. Replaces(bs, p, 1, y)
    BY <1>2, <1>5 DEF Replaces
  <2>2. Becomes(bs, p, 1, y, bs2)
    BY <1>6, <2>1, RowsDiffer
  <2>3. QED
    BY <1>4, <1>7, <2>2 DEF Becomes
<1>9. FlattenSeq(s) = <<v>> \o FlattenSeq(r)
  <2>1. <<v>> \in Seq(Value) /\ s[1] = <<v>> \o r[1]
    BY <1>5, <1>8
  <2>2. QED
    BY <1>2, <1>8, <2>1, FlatFirst
<1>10. QED
  BY <1>4, <1>7, <1>8, <1>9 DEF Flat

LEMMA PutList ==
  ASSUME NEW bs, NEW p, ListOK(bs, p), NEW b, b = p[Len(p)], bs[b].nused < bs[b].nslots,
         NEW v \in Value, NEW bs2, bs2 = Set(bs, b, AfterPut(bs[b], v))
  PROVE  /\ ListOK(bs2, p) /\ Flat(bs2, p) = Append(Flat(bs, p), v)
         /\ \A m \in 1..Len(p) : /\ bs[p[m]].nused <= bs2[p[m]].nused
                                 /\ m # Len(p) => bs2[p[m]].nused = bs[p[m]].nused
<1>1. BlocksOK(bs) /\ Chain(bs, p)
  BY DEF ListOK
<1>2. PICK L, y, r : L = Len(p) /\ y = AfterPut(bs[b], v) /\ r = Rows(bs, p)
  OBVIOUS
<1>3. /\ L \in Nat \ {0} /\ L \in 1..L /\ b \in Block
      /\ \A m \in 1..L : p[m] \in Block
      /\ \A m, n \in 1..L : p[m] = p[n] => m = n
  <2>1. L \in Nat \ {0}
    BY <1>1, <1>2, ChainAt
  <2>2. L \in 1..L
    BY <2>1
  <2>3. QED
    BY <1>1, <1>2, <2>1, <2>2, ChainAt
<1>4. BlockOK(bs[b]) /\ bs \in [Block -> BlockType] /\ bs[b].nused \in Nat
  BY <1>1, <1>3, BlockFields DEF BlocksOK
<1>5. /\ BlockOK(y) /\ Alike(bs[b], y) /\ Elems(y) = Append(Elems(bs[b]), v)
      /\ y.nused = bs[b].nused + 1
  BY <1>2, <1>4, PutBlock
<1>6. bs2 = [bs EXCEPT ![p[L]] = y]
  BY <1>2 DEF Set
<1>7. PICK s : s = Rows(bs2, p)
  OBVIOUS
<1>8. ListOK(bs2, p) /\ Differ(r, s, L, L) /\ r[L] = Elems(bs[b]) /\ s[L] = Elems(y)
  <2>1. Replaces(bs, p, L, y)
    BY <1>2, <1>3, <1>5 DEF Replaces
  <2>2. Becomes(bs, p, L, y, bs2)
    BY <1>6, <2>1, RowsDiffer
  <2>3. QED
    BY <1>2, <1>7, <2>2 DEF Becomes
<1>9. FlattenSeq(s) = Append(FlattenSeq(r), v)
  <2>1. s[L] = Append(r[L], v)
    BY <1>5, <1>8
  <2>2. QED
    BY <1>3, <1>8, <2>1, FlatLast
<1>10. \A m \in 1..L : bs[p[m]].nused <= bs2[p[m]].nused
                       /\ (m # L => bs2[p[m]].nused = bs[p[m]].nused)
  <2> TAKE m \in 1..L
  <2>1. bs[p[m]].nused \in Nat
    BY <1>1, <1>3, BlockFields DEF BlocksOK
  <2>2. CASE m = L
    BY <1>2, <1>3, <1>4, <1>5, <1>6, <2>2
  <2>3. CASE m # L
    <3>1. bs2[p[m]] = bs[p[m]]
      BY <1>3, <1>4, <1>6, <2>3
    <3>2. QED
      BY <2>1, <3>1
  <2>4. QED
    BY <2>2, <2>3
<1>11. QED
  BY <1>2, <1>7, <1>8, <1>9, <1>10 DEF Flat

LEMMA GetList ==
  ASSUME NEW bs, NEW p, ListOK(bs, p), NEW b, b = p[1], bs[b].nused > 0,
         NEW bs2, bs2 = Set(bs, b, AfterGet(bs[b]))
  PROVE  /\ ListOK(bs2, p) /\ Elem(bs[b], 0) \in Value
         /\ Flat(bs, p) = <<Elem(bs[b], 0)>> \o Flat(bs2, p)
<1>1. BlocksOK(bs) /\ Chain(bs, p)
  BY DEF ListOK
<1>2. Len(p) \in Nat \ {0} /\ 1 \in 1..Len(p) /\ b \in Block
  <2>1. Len(p) \in Nat \ {0}
    BY <1>1, ChainAt
  <2>2. 1 \in 1..Len(p)
    BY <2>1
  <2>3. QED
    BY <1>1, <2>1, <2>2, ChainAt
<1>3. BlockOK(bs[b])
  BY <1>1, <1>2 DEF BlocksOK
<1>4. PICK y, r, s, x : /\ y = AfterGet(bs[b]) /\ r = Rows(bs, p) /\ s = Rows(bs2, p)
                        /\ x = Elem(bs[b], 0)
  OBVIOUS
<1>5. BlockOK(y) /\ Alike(bs[b], y) /\ Elems(bs[b]) = <<x>> \o Elems(y) /\ x \in Value
  BY <1>3, <1>4, GetBlock
<1>6. bs2 = [bs EXCEPT ![p[1]] = y]
  BY <1>4 DEF Set
<1>7. ListOK(bs2, p) /\ Differ(r, s, Len(p), 1) /\ r[1] = Elems(bs[b]) /\ s[1] = Elems(y)
  <2>1. Replaces(bs, p, 1, y)
    BY <1>2, <1>5 DEF Replaces
  <2>2. Becomes(bs, p, 1, y, bs2)
    BY <1>6, <2>1, RowsDiffer
  <2>3. QED
    BY <1>4, <2>2 DEF Becomes
<1>8. FlattenSeq(r) = <<x>> \o FlattenSeq(s)
  <2>1. <<x>> \in Seq(Value) /\ r[1] = <<x>> \o s[1]
    BY <1>5, <1>7
  <2>2. Differ(s, r, Len(p), 1)
    BY <1>7, DifferBack
  <2>3. QED
    BY <1>2, <2>1, <2>2, FlatFirst
<1>9. QED
  BY <1>4, <1>5, <1>7, <1>8 DEF Flat

LEMMA PullList ==
  ASSUME NEW bs, NEW p, ListOK(bs, p), NEW b, b = p[Len(p)], bs[b].nused > 0,
         NEW bs2, bs2 = Set(bs, b, AfterPull(bs[b]))
  PROVE  /\ ListOK(bs2, p) /\ Elem(bs[b], bs[b].nused - 1) \in Value
         /\ Flat(bs, p) = Append(Flat(bs2, p), Elem(bs[b], bs[b].nused - 1))
<1>1. BlocksOK(bs) /\ Chain(bs, p)
  BY DEF ListOK
<1>2. PICK L, y, r, s, x : /\ L = Len(p) /\ y = AfterPull(bs[b]) /\ r = Rows(bs, p)
                           /\ s = Rows(bs2, p) /\ x = Elem(bs[b], bs[b].nused - 1)
  OBVIOUS
<1>3. L \in Nat \ {0} /\ L \in 1..L /\ b \in Block
  <2>1. L \in Nat \ {0}
    BY <1>1, <1>2, ChainAt
  <2>2. L \in 1..L
    BY <2>1
  <2>3. QED
    BY <1>1, <1>2, <2>1, <2>2, ChainAt
<1>4. BlockOK(bs[b])
  BY <1>1, <1>3 DEF BlocksOK
<1>5. BlockOK(y) /\ Alike(bs[b], y) /\ Elems(bs[b]) = Append(Elems(y), x) /\ x \in Value
  BY <1>2, <1>4, PullBlock
<1>6. bs2 = [bs EXCEPT ![p[L]] = y]
  BY <1>2 DEF Set
<1>7. ListOK(bs2, p) /\ Differ(r, s, L, L) /\ r[L] = Elems(bs[b]) /\ s[L] = Elems(y)
  <2>1. Replaces(bs, p, L, y)
    BY <1>2, <1>3, <1>5 DEF Replaces
  <2>2. Becomes(bs, p, L, y, bs2)
    BY <1>6, <2>1, RowsDiffer
  <2>3. QED
    BY <1>2, <2>2 DEF Becomes
<1>8. FlattenSeq(r) = Append(FlattenSeq(s), x)
  <2>1. r[L] = Append(s[L], x)
    BY <1>5, <1>7
  <2>2. Differ(s, r, L, L)
    BY <1>7, DifferBack
  <2>3. QED
    BY <1>3, <1>5, <2>1, <2>2, FlatLast
<1>9. QED
  BY <1>2, <1>5, <1>7, <1>8 DEF Flat

LEMMA PlaceAt ==
  ASSUME NEW bs, BlocksOK(bs), NEW p, Chain(bs, p), NEW u, IsUpto(bs, p, u),
         NEW k, NEW m, NEW j, Place(bs, p, u, k, m, j)
  PROVE  /\ k \in 1..Len(Flat(bs, p)) /\ Flat(bs, p)[k] = Elem(bs[p[m]], j - 1)
         /\ Flat(bs, p)[k] \in Value /\ m \in 1..Len(p) /\ p[m] \in Block
         /\ j \in 1..bs[p[m]].nused /\ bs[p[m]].nused \in Nat /\ k = u[m - 1] + j
<1>1. m \in 1..Len(p) /\ j \in 1..bs[p[m]].nused /\ k = u[m - 1] + j
  BY DEF Place
<1>2. PICK f : f = Flat(bs, p)
  OBVIOUS
<1>3. /\ f \in Seq(Value) /\ Len(f) = u[Len(p)]
      /\ u[m - 1] + j \in 1..u[Len(p)] /\ f[u[m - 1] + j] = Elem(bs[p[m]], j - 1)
  BY <1>1, <1>2, FlatAt
<1>4. k \in 1..Len(f) /\ f[k] = Elem(bs[p[m]], j - 1)
  BY <1>1, <1>3
<1>5. p[m] \in Block
  BY <1>1, ChainAt
<1>6. bs[p[m]].nused \in Nat
  BY <1>5, BlockFields DEF BlocksOK
<1>7. f[k] \in Value
  BY <1>3, <1>4
<1>8. QED
  BY <1>1, <1>2, <1>4, <1>5, <1>6, <1>7

LEMMA Places ==
  ASSUME NEW bs, BlocksOK(bs), NEW p, Chain(bs, p), NEW u, IsUpto(bs, p, u),
         NEW k \in 1..u[Len(p)]
  PROVE  /\ \E m, j : Place(bs, p, u, k, m, j)
         /\ \A m, j, n, i2 : Place(bs, p, u, k, m, j) /\ Place(bs, p, u, k, n, i2) => n = m /\ i2 = j
<1>1. PICK m : m = Min({n \in 1..Len(p) : k <= u[n]})
  OBVIOUS
<1>2. /\ Place(bs, p, u, k, m, k - u[m - 1])
      /\ \A n, j : Place(bs, p, u, k, n, j) => n = m /\ j = k - u[m - 1]
  BY <1>1, Locate
<1>3. QED
  BY <1>2

LEMMA AssignList ==
  ASSUME NEW bs, NEW p, ListOK(bs, p), NEW u, IsUpto(bs, p, u),
         NEW k, NEW m, NEW j, Place(bs, p, u, k, m, j), NEW v \in Value,
         NEW bs2, bs2 = Set(bs, p[m], AfterAssign(bs[p[m]], j - 1, v))
  PROVE  /\ ListOK(bs2, p) /\ IsUpto(bs2, p, u)
         /\ Flat(bs2, p) = [Flat(bs, p) EXCEPT ![k] = v]
         /\ \A b \in Block : bs2[b].nused = bs[b].nused
<1>1. BlocksOK(bs) /\ Chain(bs, p)
  BY DEF ListOK
<1>2. /\ m \in 1..Len(p) /\ p[m] \in Block /\ j \in 1..bs[p[m]].nused
      /\ bs[p[m]].nused \in Nat /\ k \in 1..Len(Flat(bs, p))
  BY <1>1, PlaceAt
<1>3. PICK x, y : x = bs[p[m]] /\ y = AfterAssign(x, j - 1, v)
  OBVIOUS
<1>4. BlockOK(x) /\ j - 1 \in 0..x.nused - 1
  BY <1>1, <1>2, <1>3 DEF BlocksOK
<1>5. /\ BlockOK(y) /\ Alike(x, y) /\ Elems(y) = [Elems(x) EXCEPT ![j - 1 + 1] = v]
      /\ y.nused = x.nused
  BY <1>3, <1>4, AssignBlock
<1>6. bs2 = [bs EXCEPT ![p[m]] = y]
  BY <1>3 DEF Set
<1>7. ListOK(bs2, p)
  <2>1. y.nused # 0
    BY <1>2, <1>3, <1>5
  <2>2. Replaces(bs, p, m, y)
    BY <1>2, <1>3, <1>5, <2>1 DEF Replaces
  <2>3. Becomes(bs, p, m, y, bs2)
    BY <1>6, <2>2, RowsDiffer
  <2>4. QED
    BY <2>3 DEF Becomes
<1>8. bs \in [Block -> BlockType]
  BY <1>1 DEF BlocksOK
<1>9. \A b \in Block : bs2[b].nused = bs[b].nused /\ (b # p[m] => bs2[b] = bs[b])
  BY <1>2, <1>3, <1>5, <1>6, <1>8
<1>10. \A n \in 1..Len(p) : p[n] \in Block
  BY <1>1, ChainAt
<1>11. IsUpto(bs2, p, u)
  BY <1>9, <1>10 DEF IsUpto
<1>12. BlocksOK(bs2) /\ Chain(bs2, p)
  BY <1>7 DEF ListOK
<1>13. PICK f, g : f = Flat(bs, p) /\ g = Flat(bs2, p)
  OBVIOUS
<1>14. f \in Seq(Value) /\ g \in Seq(Value) /\ Len(f) = u[Len(p)] /\ Len(g) = u[Len(p)]
  BY <1>1, <1>11, <1>12, <1>13, FlatAt
<1>15. \A n \in 1..x.nused : Elem(y, n - 1) = IF n = j THEN v ELSE Elem(x, n - 1)
  <2> TAKE n \in 1..x.nused
  <2>1. n - 1 \in 0..x.nused - 1 /\ n - 1 + 1 = n /\ j - 1 + 1 = j /\ BlockOK(x)
    BY <1>2, <1>3, <1>4
  <2>2. Elem(y, n - 1) = Elems(y)[n] /\ Elem(x, n - 1) = Elems(x)[n]
    BY <1>5, <2>1, ElemsAt
  <2>3. Elems(x) \in Seq(Value) /\ Len(Elems(x)) = x.nused
    BY <1>4, ElemsType
  <2>4. Elems(y)[n] = IF n = j THEN v ELSE Elems(x)[n]
    BY <1>5, <2>1, <2>3
  <2>5. QED
    BY <2>2, <2>4
<1>16. ASSUME NEW n \in 1..Len(f) PROVE g[n] = IF n = k THEN v ELSE f[n]
  <2>1. n \in 1..u[Len(p)]
    BY <1>14
  <2>2. PICK m2, j2 : Place(bs, p, u, n, m2, j2)
    BY <1>1, <2>1, Places
  <2>3. /\ m2 \in 1..Len(p) /\ p[m2] \in Block /\ j2 \in 1..bs[p[m2]].nused
        /\ n = u[m2 - 1] + j2 /\ f[n] = Elem(bs[p[m2]], j2 - 1)
    BY <1>1, <1>13, <2>2, PlaceAt
  <2>4. Place(bs2, p, u, n, m2, j2)
    BY <1>9, <2>3 DEF Place
  <2>5. g[n] = Elem(bs2[p[m2]], j2 - 1)
    BY <1>11, <1>12, <1>13, <2>4, PlaceAt
  <2>6. CASE p[m2] # p[m]
    <3>1. n # k
      <4>1. SUFFICES ASSUME n = k PROVE m2 = m
        BY <2>6
      <4>2. Place(bs, p, u, n, m, j)
        BY <4>1
      <4>3. QED
        BY <1>1, <2>1, <2>2, <4>2, Places
    <3>2. bs2[p[m2]] = bs[p[m2]]
      BY <1>9, <2>3, <2>6
    <3>3. QED
      BY <2>3, <2>5, <3>1, <3>2
  <2>7. CASE p[m2] = p[m]
    <3>1. m2 = m
      BY <1>1, <1>2, <2>3, <2>7, ChainAt
    <3>2. j2 = j <=> n = k
      <4>1. k = u[m - 1] + j /\ u[m - 1] \in Int
        <5>1. m - 1 \in 0..Len(p)
          BY <1>1, <1>2, ChainAt
        <5>2. u[m - 1] \in Nat
          BY <5>1 DEF IsUpto
        <5>3. k = u[m - 1] + j
          BY DEF Place
        <5>4. QED
          BY <5>2, <5>3
      <4>2. j \in Nat /\ j2 \in Nat
        BY <1>2, <2>3, <2>7
      <4>3. QED
        BY <2>3, <3>1, <4>1, <4>2
    <3>3. j2 \in 1..x.nused /\ f[n] = Elem(x, j2 - 1)
      BY <1>3, <2>3, <2>7
    <3>4. g[n] = Elem(y, j2 - 1)
      BY <1>2, <1>6, <1>8, <2>5, <2>7
    <3>5. QED
      BY <1>15, <3>2, <3>3, <3>4
  <2>8. QED
    BY <2>6, <2>7
<1>17. g = [f EXCEPT ![k] = v]
  <2>1. PICK h : h = [f EXCEPT ![k] = v]
    OBVIOUS
  <2>2. h \in Seq(Value) /\ Len(h) = Len(f) /\ \A n \in 1..Len(f) : h[n] = IF n = k THEN v ELSE f[n]
    BY <1>2, <1>13, <1>14, <2>1
  <2>3. Len(g) = Len(h) /\ \A n \in 1..Len(g) : g[n] = h[n]
    BY <1>14, <1>16, <2>2
  <2>4. g = h
    BY <1>14, <2>2, <2>3, SeqEqual
  <2>5. QED
    BY <2>1, <2>4
<1>18. QED
  BY <1>7, <1>9, <1>11, <1>13, <1>17

-----------------------------------------------------------------------------
(* The list that the blocks are.                                           *)

\* The blocks bs are a list of n elements, linked along p from h to t.
Holds(bs, h, t, n, p) ==
  ListOK(bs, p) /\ p[1] = h /\ p[Len(p)] = t /\ n = Len(Flat(bs, p))

LEMMA HoldsAt ==
  ASSUME NEW bs, NEW h, NEW t, NEW n, NEW p, Holds(bs, h, t, n, p)
  PROVE  /\ Along(bs, h) = p /\ Elements(bs, h) = Flat(bs, p)
         /\ Flat(bs, p) \in Seq(Value) /\ n = Len(Flat(bs, p)) /\ n \in Nat
         /\ h \in Block /\ t \in Block /\ Len(p) \in Nat \ {0}
         /\ BlocksOK(bs) /\ Chain(bs, p) /\ bs \in [Block -> BlockType]
<1>1. ListOK(bs, p) /\ p[1] = h /\ p[Len(p)] = t /\ n = Len(Flat(bs, p))
  BY DEF Holds
<1>2. BlocksOK(bs) /\ Chain(bs, p) /\ bs \in [Block -> BlockType]
  BY <1>1 DEF ListOK, BlocksOK
<1>3. Len(p) \in Nat \ {0} /\ \A m \in 1..Len(p) : p[m] \in Block
  BY <1>2, ChainAt
<1>4. h \in Block /\ t \in Block
  BY <1>1, <1>3
<1>5. Along(bs, h) = p
  BY <1>1, <1>2, AlongAll
<1>6. Elements(bs, p[1]) = Flat(bs, p)
  BY <1>2, ElementsOf DEF Flat
<1>7. Flat(bs, p) \in Seq(Value) /\ n \in Nat
  <2>1. Flat(bs, p) \in Seq(Value)
    BY <1>2, RowsType DEF IsRows, Flat
  <2>2. QED
    BY <1>1, <2>1
<1>8. QED
  BY <1>1, <1>2, <1>3, <1>4, <1>5, <1>6, <1>7

\* An empty block at an end is next to one that is not.
LEMMA Ends ==
  ASSUME NEW bs, NEW h, NEW t, NEW n, NEW p, Holds(bs, h, t, n, p), n > 0
  PROVE  /\ bs[h].nused = 0 => /\ Len(p) >= 2 /\ bs[h].listnext = p[2]
                               /\ p[2] \in Block /\ p[2] # h /\ bs[p[2]].nused > 0
         /\ bs[t].nused = 0 => /\ Len(p) >= 2 /\ bs[t].listprev = p[Len(p) - 1]
                               /\ p[Len(p) - 1] \in Block /\ p[Len(p) - 1] # t
                               /\ bs[p[Len(p) - 1]].nused > 0
<1>1. PICK L, u : L = Len(p) /\ u = Upto(bs, p)
  OBVIOUS
<1>2. BlocksOK(bs) /\ Chain(bs, p) /\ n \in Nat /\ n = Len(Flat(bs, p)) /\ Filled(bs, p)
      /\ p[1] = h /\ p[L] = t
  BY <1>1, HoldsAt DEF Holds, ListOK
<1>3. /\ L \in Nat \ {0} /\ \A m \in 1..L : p[m] \in Block /\ bs[p[m]].nused \in Nat
      /\ \A m, k \in 1..L : p[m] = p[k] => m = k
      /\ \A m \in 1..L - 1 : bs[p[m]].listnext = p[m + 1]
      /\ \A m \in 2..L : bs[p[m]].listprev = p[m - 1]
  <2>1. \A m \in 1..L : p[m] \in Block
    BY <1>1, <1>2, ChainAt
  <2>2. \A m \in 1..L : bs[p[m]].nused \in Nat
    BY <1>2, <2>1, BlockFields DEF BlocksOK
  <2>3. L \in Nat \ {0} /\ \A m, k \in 1..L : p[m] = p[k] => m = k
    BY <1>1, <1>2, ChainAt
  <2>4. \A m \in 1..L - 1 : bs[p[m]].listnext = p[m + 1]
    BY <1>1, <1>2 DEF Chain
  <2>5. \A m \in 2..L : bs[p[m]].listprev = p[m - 1]
    BY <1>1, <1>2 DEF Chain
  <2>6. QED
    BY <2>1, <2>2, <2>3, <2>4, <2>5
<1>4. IsUpto(bs, p, u) /\ u[L] = n
  <2>1. IsUpto(bs, p, u)
    BY <1>1, <1>2, UptoIs
  <2>2. QED
    BY <1>1, <1>2, <2>1, FlatAt
<1>5. u[0] = 0 /\ \A m \in 1..L : u[m] = u[m - 1] + bs[p[m]].nused /\ u[m - 1] \in Nat
  <2>1. \A m \in 1..L : m - 1 \in 0..L
    BY <1>3
  <2>2. QED
    BY <1>1, <1>4, <2>1 DEF IsUpto
<1>6. L = 1 => bs[p[1]].nused = n
  <2>1. u[1] = u[1 - 1] + bs[p[1]].nused
    BY <1>3, <1>5
  <2>2. QED
    BY <1>3, <1>4, <1>5, <2>1
<1>7. L = 2 => bs[p[1]].nused + bs[p[2]].nused = n
  <2>1. SUFFICES ASSUME L = 2 PROVE bs[p[1]].nused + bs[p[2]].nused = n
    OBVIOUS
  <2>2. u[1] = u[1 - 1] + bs[p[1]].nused /\ u[2] = u[2 - 1] + bs[p[2]].nused
    BY <1>5, <2>1
  <2>3. QED
    BY <1>3, <1>4, <1>5, <2>1, <2>2
<1>8. L > 2 => bs[p[2]].nused > 0 /\ bs[p[L - 1]].nused > 0
  <2>1. SUFFICES ASSUME L > 2 PROVE bs[p[2]].nused > 0 /\ bs[p[L - 1]].nused > 0
    OBVIOUS
  <2>2. 2 \in 2..L - 1 /\ L - 1 \in 2..L - 1 /\ 2 \in 1..L /\ L - 1 \in 1..L
    BY <1>3, <2>1
  <2>3. bs[p[2]].nused # 0 /\ bs[p[L - 1]].nused # 0
    BY <1>1, <1>2, <2>2 DEF Filled
  <2>4. QED
    BY <1>3, <2>2, <2>3
<1>9. ASSUME bs[h].nused = 0
      PROVE  /\ L >= 2 /\ bs[h].listnext = p[2] /\ p[2] \in Block /\ p[2] # h
             /\ bs[p[2]].nused > 0
  <2>1. L >= 2
    BY <1>2, <1>3, <1>6, <1>9
  <2>2. 1 \in 1..L - 1 /\ 2 \in 1..L /\ 1 \in 1..L /\ 1 + 1 = 2
    BY <1>3, <2>1
  <2>3. bs[p[1]].listnext = p[2] /\ p[2] \in Block /\ p[2] # p[1] /\ bs[p[2]].nused \in Nat
    BY <1>3, <2>2
  <2>4. bs[p[2]].nused > 0
    BY <1>2, <1>3, <1>7, <1>8, <1>9, <2>1, <2>3
  <2>5. QED
    BY <1>2, <2>1, <2>3, <2>4
<1>10. ASSUME bs[t].nused = 0
       PROVE  /\ L >= 2 /\ bs[t].listprev = p[L - 1] /\ p[L - 1] \in Block /\ p[L - 1] # t
              /\ bs[p[L - 1]].nused > 0
  <2>1. L >= 2
    BY <1>2, <1>3, <1>6, <1>10
  <2>2. L \in 2..L /\ L - 1 \in 1..L /\ L \in 1..L /\ L - 1 # L
    BY <1>3, <2>1
  <2>3. bs[p[L]].listprev = p[L - 1] /\ p[L - 1] \in Block /\ p[L - 1] # p[L]
        /\ bs[p[L - 1]].nused \in Nat
    BY <1>3, <2>2
  <2>4. bs[p[L - 1]].nused > 0
    <3>1. CASE L > 2
      BY <1>8, <3>1
    <3>2. CASE L = 2
      <4>1. p[L - 1] = p[1] /\ p[L] = p[2]
        BY <3>2
      <4>2. QED
        BY <1>2, <1>7, <1>10, <2>3, <3>2, <4>1
    <3>3. QED
      BY <1>3, <2>1, <3>1, <3>2
  <2>5. QED
    BY <1>2, <2>1, <2>3, <2>4
<1>11. QED
  BY <1>1, <1>9, <1>10

\* A list that is one block.
LEMMA OneBlock ==
  ASSUME NEW x, BlockOK(x), x.listprev = NULL, x.listnext = NULL, x.nslots # 0,
         NEW bs, bs = [b \in Block |-> IF b # 1 THEN Unused ELSE x]
  PROVE  Holds(bs, 1, 1, x.nused, <<1>>) /\ Flat(bs, <<1>>) = Elems(x)
<1>1. 1 \in Block /\ Unused \in BlockType /\ BlockOK(Unused) /\ Unused.nused = 0
  <2>1. NULL \in Pointer
    BY DEF Pointer
  <2>2. PICK y : y = Unused
    OBVIOUS
  <2>3. y = [listprev |-> NULL, listnext |-> NULL, nslots |-> 0, first |-> 0, nused |-> 0,
             lslots |-> <<>>]
    BY <2>2 DEF Unused
  <2>4. /\ y.nslots = 0 /\ y.first = 0 /\ y.nused = 0 /\ y.lslots = <<>>
        /\ y \in BlockType
    BY <2>1, <2>3 DEF BlockType
  <2>5. Len(<<>>) = 0 /\ 0 <= 0 /\ 0..0 - 1 = {}
    OBVIOUS
  <2>6. 1 \in Block
    BY BoundsAssumption DEF Block
  <2>7. QED
    BY <2>2, <2>4, <2>5, <2>6 DEF BlockOK
<1>2. PICK p : p = <<1>>
  OBVIOUS
<1>3. p \in Seq(Block) /\ Len(p) = 1 /\ p[1] = 1 /\ \A m \in 1..Len(p) : m = 1
  BY <1>1, <1>2
<1>4. bs[1] = x /\ \A b \in Block : b # 1 => bs[b] = Unused
  BY <1>1
<1>5. BlocksOK(bs)
  <2>1. x \in BlockType
    BY DEF BlockOK
  <2>2. \A b \in Block : bs[b] \in BlockType /\ BlockOK(bs[b])
    BY <1>1, <1>4, <2>1
  <2>3. bs \in [Block -> BlockType]
    BY <2>2
  <2>4. QED
    BY <2>2, <2>3 DEF BlocksOK
<1>6. Chain(bs, p)
  <2>1. 1..Len(p) - 1 = {} /\ 2..Len(p) = {}
    BY <1>3
  <2>2. QED
    BY <1>3, <1>4, <2>1 DEF Chain
<1>7. Filled(bs, p)
  <2>1. 2..Len(p) - 1 = {} /\ 1 \in 1..Len(p)
    BY <1>3
  <2>2. \A b \in Block : (\A m \in 1..Len(p) : p[m] # b) => bs[b].nused = 0
    BY <1>1, <1>3, <1>4, <2>1
  <2>3. QED
    BY <1>3, <1>4, <2>1, <2>2 DEF Filled
<1>8. ListOK(bs, p)
  BY <1>5, <1>6, <1>7 DEF ListOK
<1>9. Flat(bs, p) = Elems(x)
  <2>1. PICK r, e : r = Rows(bs, p) /\ e = <<>>
    OBVIOUS
  <2>2. r \in Seq(Seq(Value)) /\ Len(r) = 1 /\ r[1] = Elems(x)
    BY <1>3, <1>4, <1>5, <1>6, <2>1, RowsType DEF IsRows
  <2>3. e \in Seq(Seq(Value)) /\ Len(e) = 0
    BY <2>1
  <2>4. FlattenSeq(r) = r[1] \o FlattenSeq(e)
    <3>1. Len(r) = Len(e) + 1 /\ \A m \in 1..Len(e) : r[m + 1] = e[m]
      BY <2>2, <2>3
    <3>2. QED
      BY <2>2, <2>3, <3>1, FirstRow
  <2>5. FlattenSeq(e) = <<>>
    BY <2>1 DEF FlattenSeq
  <2>6. Elems(x) \in Seq(Value)
    BY ElemsType
  <2>7. Elems(x) \o <<>> = Elems(x)
    BY <2>6
  <2>8. QED
    BY <2>1, <2>2, <2>4, <2>5, <2>7 DEF Flat
<1>10. x.nused = Len(Flat(bs, p))
  BY <1>9, ElemsType
<1>11. Holds(bs, 1, 1, x.nused, p)
  BY <1>3, <1>8, <1>10 DEF Holds
<1>12. QED
  BY <1>2, <1>9, <1>11

LEMMA CollectedHolds ==
  ASSUME NEW bs, NEW h, NEW t, NEW n, NEW p, Holds(bs, h, t, n, p), NEW S, h \in S
  PROVE  /\ Holds(Collected(bs, S), h, t, n, p) /\ Flat(Collected(bs, S), p) = Flat(bs, p)
         /\ \A m \in 1..Len(p) : Collected(bs, S)[p[m]].nused = bs[p[m]].nused
<1>1. ListOK(bs, p) /\ p[1] \in S /\ p[1] = h /\ p[Len(p)] = t /\ n = Len(Flat(bs, p))
  BY DEF Holds
<1>2. PICK cs : cs = Collected(bs, S)
  OBVIOUS
<1>3. /\ ListOK(cs, p) /\ Rows(cs, p) = Rows(bs, p)
      /\ \A m \in 1..Len(p) : cs[p[m]].nused = bs[p[m]].nused
  BY <1>1, <1>2, CollectedOK
<1>4. Flat(cs, p) = Flat(bs, p)
  BY <1>3 DEF Flat
<1>5. QED
  BY <1>1, <1>2, <1>3, <1>4 DEF Holds

\* push and put as the code writes them.
LEMMA PushedIs ==
  ASSUME NEW bs \in [Block -> BlockType], NEW b \in Block, NEW v
  PROVE  Pushed(bs, b, v) = Set(bs, b, AfterPush(bs[b], v))
<1>1. bs[b] \in BlockType
  OBVIOUS
<1>2. QED
  BY <1>1 DEF Pushed, Set, AfterPush, BlockType

LEMMA PutAtIs ==
  ASSUME NEW bs \in [Block -> BlockType], NEW b \in Block, NEW v
  PROVE  PutAt(bs, b, v) = Set(bs, b, AfterPut(bs[b], v))
<1>1. bs[b] \in BlockType
  OBVIOUS
<1>2. PICK j : j = Slot(bs[b], bs[b].nused) + 1
  OBVIOUS
<1>3. PutAt(bs, b, v) = [bs EXCEPT ![b].lslots[j] = v, ![b].nused = @ + 1]
  <2>1. PICK k : k = bs[b].first + bs[b].nused
    OBVIOUS
  <2>2. j = (IF k >= bs[b].nslots THEN k - bs[b].nslots ELSE k) + 1
    <3>1. bs[b].first \in Nat /\ bs[b].nused \in Nat /\ bs[b].nslots \in Nat
      BY <1>1 DEF BlockType
    <3>2. QED
      BY <1>2, <2>1, <3>1 DEF Slot
  <2>3. PutAt(bs, b, v) =
          [bs EXCEPT ![b].lslots[(IF k >= bs[b].nslots THEN k - bs[b].nslots ELSE k) + 1] = v,
                     ![b].nused = @ + 1]
    BY <2>1, Zenon DEF PutAt
  <2>4. QED
    BY <2>2, <2>3, Zenon
<1>4. AfterPut(bs[b], v) = [bs[b] EXCEPT !.lslots = [bs[b].lslots EXCEPT ![j] = v],
                                         !.nused = bs[b].nused + 1]
  BY <1>2 DEF AfterPut
<1>5. QED
  BY <1>1, <1>3, <1>4 DEF Set, BlockType

\* A new block is not of the list, and has a slot.
LEMMA FreshOf ==
  ASSUME NEW p, Holds(blk, listhead, listtail, size, p), Fresh # {}
  PROVE  Min(Fresh) \in Block /\ \A m \in 1..Len(p) : p[m] # Min(Fresh)
<1>1. Fresh \subseteq Nat /\ Fresh \subseteq Block
  BY BoundsAssumption DEF Fresh, Block
<1>2. Min(Fresh) \in Fresh
  BY <1>1, MinIn
<1>3. Chain(blk, p) /\ p[1] = listhead
  BY HoldsAt DEF Holds
<1>4. \A m \in 1..Len(p) : p[m] \in Reached(blk, {listhead, listtail, ep})
  BY <1>3, ChainReached
<1>5. QED
  BY <1>1, <1>2, <1>4 DEF Fresh

LEMMA SizesPositive ==
  ASSUME size \in Nat
  PROVE  Sizes \subseteq Nat \ {0}
<1>1. PICK half : half = Max({size \div 2, MinListSlots})
  OBVIOUS
<1>2. size \div 2 \in Nat /\ MinListSlots \in Nat \ {0}
  BY SlotsAssumption
<1>3. half \in Nat /\ MinListSlots <= half
  BY <1>1, <1>2, MaxTwo
<1>4. Sizes \subseteq {half} \cup (MinListSlots..half)
  BY <1>1 DEF Sizes
<1>5. QED
  BY <1>2, <1>3, <1>4

\* The list grows at its head, or at its tail.
LEMMA PushHolds ==
  ASSUME NEW p, Holds(blk, listhead, listtail, size, p), NEW v \in Value, Push(v)
  PROVE  \E q : /\ Holds(blk', listhead', listtail', size', q)
                /\ Flat(blk', q) = <<v>> \o Flat(blk, p)
<1>1. /\ ListOK(blk, p) /\ p[1] = listhead /\ p[Len(p)] = listtail
      /\ size = Len(Flat(blk, p)) /\ listhead \in Block /\ Flat(blk, p) \in Seq(Value)
      /\ size \in Nat /\ blk \in [Block -> BlockType] /\ BlocksOK(blk) /\ Chain(blk, p)
      /\ Filled(blk, p) /\ Len(p) \in Nat \ {0}
  BY HoldsAt DEF Holds, ListOK
<1>2. listtail' = listtail /\ size' = size + 1
  BY DEF Push
<1>3. ASSUME NEW bs, NEW q, ListOK(bs, q), q[1] = listhead', q[Len(q)] = listtail,
             Flat(bs, q) = Flat(blk, p), bs[listhead'].nused < bs[listhead'].nslots,
             SetBlocks(Pushed(bs, listhead', v))
      PROVE  Holds(blk', listhead', listtail', size', q) /\ Flat(blk', q) = <<v>> \o Flat(blk, p)
  <2>1. PICK b, bs2, S : /\ b = listhead' /\ S = {listhead', listtail', ep'}
                         /\ bs2 = Set(bs, b, AfterPush(bs[b], v))
    OBVIOUS
  <2>2. bs \in [Block -> BlockType] /\ b \in Block
    <3>1. BlocksOK(bs) /\ Chain(bs, q)
      BY <1>3 DEF ListOK
    <3>2. Len(q) \in Nat \ {0} /\ \A m \in 1..Len(q) : q[m] \in Block
      BY <3>1, ChainAt
    <3>3. q[1] \in Block
      BY <3>2
    <3>4. QED
      BY <1>3, <2>1, <3>1, <3>3 DEF BlocksOK
  <2>3. ListOK(bs2, q) /\ Flat(bs2, q) = <<v>> \o Flat(bs, q)
    BY <1>3, <2>1, PushedList
  <2>4. Len(Flat(bs2, q)) = size + 1
    BY <1>1, <1>3, <2>3
  <2>5. Holds(bs2, b, listtail', size', q)
    BY <1>2, <1>3, <2>1, <2>3, <2>4 DEF Holds
  <2>6. blk' = Collected(bs2, S)
    BY <1>3, <2>1, <2>2, PushedIs DEF SetBlocks
  <2>7. Holds(blk', b, listtail', size', q) /\ Flat(blk', q) = Flat(bs2, q)
    BY <2>1, <2>5, <2>6, CollectedHolds
  <2>8. QED
    BY <1>3, <2>1, <2>3, <2>7
<1>4. CASE /\ blk[listhead].nused < blk[listhead].nslots
           /\ UNCHANGED listhead
           /\ SetBlocks(Pushed(blk, listhead, v))
  BY <1>1, <1>3, <1>4
<1>5. CASE /\ blk[listhead].nused >= blk[listhead].nslots
           /\ Fresh # {}
           /\ listhead' = Min(Fresh)
           /\ \E n \in Sizes :
                SetBlocks(Pushed([blk EXCEPT
                                   ![listhead'] = [NewBlock(n) EXCEPT !.listnext = listhead],
                                   ![listhead].listprev = listhead'], listhead', v))
  <2>1. PICK n \in Sizes :
          SetBlocks(Pushed([blk EXCEPT
                             ![listhead'] = [NewBlock(n) EXCEPT !.listnext = listhead],
                             ![listhead].listprev = listhead'], listhead', v))
    BY <1>5
  <2>2. n \in Nat \ {0}
    BY <1>1, SizesPositive
  <2>3. listhead' \in Block /\ \A m \in 1..Len(p) : p[m] # listhead'
    BY <1>5, FreshOf
  <2>4. blk[p[1]].nused # 0
    <3>1. 1 \in 1..Len(p) /\ BlockOK(blk[p[1]])
      BY <1>1 DEF BlocksOK
    <3>2. blk[p[1]].nslots # 0 /\ blk[p[1]].nslots \in Nat /\ blk[p[1]].nused \in Nat
      BY <1>1, <3>1, BlockFields DEF Filled
    <3>3. QED
      BY <1>1, <1>5, <3>2
  <2>5. PICK bs, q : bs = Before(blk, p[1], listhead', n) /\ q = Longer(listhead', p)
    OBVIOUS
  <2>6. /\ ListOK(bs, q) /\ q[1] = listhead' /\ q[Len(q)] = p[Len(p)]
        /\ Flat(bs, q) = Flat(blk, p) /\ bs[listhead'].nused = 0 /\ bs[listhead'].nslots = n
    BY <1>1, <2>2, <2>3, <2>4, <2>5, AddHead
  <2>7. bs[listhead'].nused < bs[listhead'].nslots
    BY <2>2, <2>6
  <2>8. SetBlocks(Pushed(bs, listhead', v))
    BY <1>1, <2>1, <2>5 DEF Before, NewHead
  <2>9. QED
    BY <1>1, <1>3, <2>6, <2>7, <2>8
<1>6. QED
  BY <1>4, <1>5 DEF Push

LEMMA PutHolds ==
  ASSUME NEW p, Holds(blk, listhead, listtail, size, p), NEW v \in Value, Put(v)
  PROVE  \E q : /\ Holds(blk', listhead', listtail', size', q)
                /\ Flat(blk', q) = Append(Flat(blk, p), v)
                /\ Len(q) >= Len(p)
                /\ \A m \in 1..Len(p) : /\ q[m] = p[m] /\ blk[p[m]].nused <= blk'[p[m]].nused
                                        /\ m # Len(p) => blk'[p[m]].nused = blk[p[m]].nused
<1>1. /\ ListOK(blk, p) /\ p[1] = listhead /\ p[Len(p)] = listtail
      /\ size = Len(Flat(blk, p)) /\ listtail \in Block /\ Flat(blk, p) \in Seq(Value)
      /\ size \in Nat /\ blk \in [Block -> BlockType] /\ BlocksOK(blk) /\ Chain(blk, p)
      /\ Filled(blk, p) /\ Len(p) \in Nat \ {0}
  BY HoldsAt DEF Holds, ListOK
<1>2. listhead' = listhead /\ size' = size + 1
  BY DEF Put
<1>3. ASSUME NEW bs, NEW q, ListOK(bs, q), q[1] = listhead, q[Len(q)] = listtail',
             Flat(bs, q) = Flat(blk, p), bs[listtail'].nused < bs[listtail'].nslots,
             SetBlocks(PutAt(bs, listtail', v))
      PROVE  /\ Holds(blk', listhead', listtail', size', q)
             /\ Flat(blk', q) = Append(Flat(blk, p), v)
             /\ \A m \in 1..Len(q) : /\ bs[q[m]].nused <= blk'[q[m]].nused
                                     /\ m # Len(q) => blk'[q[m]].nused = bs[q[m]].nused
  <2>1. PICK b, bs2, S : /\ b = listtail' /\ S = {listhead', listtail', ep'}
                         /\ bs2 = Set(bs, b, AfterPut(bs[b], v))
    OBVIOUS
  <2>2. bs \in [Block -> BlockType] /\ b \in Block
    <3>1. BlocksOK(bs) /\ Chain(bs, q)
      BY <1>3 DEF ListOK
    <3>2. Len(q) \in Nat \ {0} /\ \A m \in 1..Len(q) : q[m] \in Block
      BY <3>1, ChainAt
    <3>3. q[Len(q)] \in Block
      BY <3>2
    <3>4. QED
      BY <1>3, <2>1, <3>1, <3>3 DEF BlocksOK
  <2>3. /\ ListOK(bs2, q) /\ Flat(bs2, q) = Append(Flat(bs, q), v)
        /\ \A m \in 1..Len(q) : /\ bs[q[m]].nused <= bs2[q[m]].nused
                                /\ m # Len(q) => bs2[q[m]].nused = bs[q[m]].nused
    BY <1>3, <2>1, PutList
  <2>4. Len(Flat(bs2, q)) = size + 1
    BY <1>1, <1>3, <2>3
  <2>5. Holds(bs2, listhead', b, size', q)
    BY <1>2, <1>3, <2>1, <2>3, <2>4 DEF Holds
  <2>6. blk' = Collected(bs2, S)
    BY <1>3, <2>1, <2>2, PutAtIs DEF SetBlocks
  <2>7. /\ Holds(blk', listhead', b, size', q) /\ Flat(blk', q) = Flat(bs2, q)
        /\ \A m \in 1..Len(q) : blk'[q[m]].nused = bs2[q[m]].nused
    BY <2>1, <2>5, <2>6, CollectedHolds
  <2>8. QED
    BY <1>3, <2>1, <2>3, <2>7
<1>4. CASE /\ blk[listtail].nused < blk[listtail].nslots
           /\ UNCHANGED listtail
           /\ SetBlocks(PutAt(blk, listtail, v))
  <2>1. /\ Holds(blk', listhead', listtail', size', p)
        /\ Flat(blk', p) = Append(Flat(blk, p), v)
        /\ \A m \in 1..Len(p) : /\ blk[p[m]].nused <= blk'[p[m]].nused
                                /\ m # Len(p) => blk'[p[m]].nused = blk[p[m]].nused
    BY <1>1, <1>3, <1>4
  <2>2. Len(p) >= Len(p)
    BY <1>1
  <2>3. QED
    BY <2>1, <2>2
<1>5. CASE /\ blk[listtail].nused >= blk[listtail].nslots
           /\ Fresh # {}
           /\ listtail' = Min(Fresh)
           /\ \E n \in Sizes :
                SetBlocks(PutAt([blk EXCEPT
                                  ![listtail'] = [NewBlock(n) EXCEPT !.listprev = listtail],
                                  ![listtail].listnext = listtail'], listtail', v))
  <2>1. PICK n \in Sizes :
          SetBlocks(PutAt([blk EXCEPT
                            ![listtail'] = [NewBlock(n) EXCEPT !.listprev = listtail],
                            ![listtail].listnext = listtail'], listtail', v))
    BY <1>5
  <2>2. n \in Nat \ {0}
    BY <1>1, SizesPositive
  <2>3. listtail' \in Block /\ \A m \in 1..Len(p) : p[m] # listtail'
    BY <1>5, FreshOf
  <2>4. blk[listtail].nused # 0
    <3>1. Len(p) \in 1..Len(p) /\ BlockOK(blk[listtail])
      BY <1>1 DEF BlocksOK
    <3>2. blk[listtail].nslots # 0 /\ blk[listtail].nslots \in Nat /\ blk[listtail].nused \in Nat
      BY <1>1, <3>1, BlockFields DEF Filled
    <3>3. QED
      BY <1>1, <1>5, <3>2
  <2>5. PICK bs, q : bs = Behind(blk, listtail, listtail', n) /\ q = Further(listtail', p)
    OBVIOUS
  <2>6. /\ ListOK(bs, q) /\ Len(q) = Len(p) + 1 /\ q[1] = p[1] /\ q[Len(q)] = listtail'
        /\ Flat(bs, q) = Flat(blk, p) /\ bs[listtail'].nused = 0 /\ bs[listtail'].nslots = n
        /\ \A m \in 1..Len(p) : q[m] = p[m] /\ bs[p[m]].nused = blk[p[m]].nused
    BY <1>1, <2>2, <2>3, <2>4, <2>5, AddTail
  <2>7. bs[listtail'].nused < bs[listtail'].nslots
    BY <2>2, <2>6
  <2>8. SetBlocks(PutAt(bs, listtail', v))
    BY <1>1, <2>1, <2>5 DEF Behind, NewTail
  <2>9. /\ Holds(blk', listhead', listtail', size', q)
        /\ Flat(blk', q) = Append(Flat(blk, p), v)
        /\ \A m \in 1..Len(q) : /\ bs[q[m]].nused <= blk'[q[m]].nused
                                /\ m # Len(q) => blk'[q[m]].nused = bs[q[m]].nused
    BY <1>1, <1>3, <2>6, <2>7, <2>8
  <2>10. ASSUME NEW m \in 1..Len(p)
         PROVE  /\ q[m] = p[m] /\ blk[p[m]].nused <= blk'[p[m]].nused
                /\ m # Len(p) => blk'[p[m]].nused = blk[p[m]].nused
    <3>1. m \in 1..Len(q) /\ m # Len(q)
      BY <1>1, <2>6
    <3>2. q[m] = p[m] /\ bs[p[m]].nused = blk[p[m]].nused /\ blk'[q[m]].nused = bs[q[m]].nused
      BY <2>6, <2>9, <3>1
    <3>3. bs[q[m]].nused <= blk'[q[m]].nused
      BY <2>9, <3>1
    <3>4. QED
      BY <3>2, <3>3
  <2>11. Len(q) >= Len(p)
    BY <1>1, <2>6
  <2>12. QED
    BY <2>9, <2>10, <2>11
<1>6. QED
  BY <1>4, <1>5 DEF Put

LEMMA GetHolds ==
  ASSUME NEW p, Holds(blk, listhead, listtail, size, p), size > 0, Get
  PROVE  \E q : /\ Holds(blk', listhead', listtail', size', q)
                /\ Flat(blk, p) = <<result'>> \o Flat(blk', q) /\ result' \in Value
<1>1. /\ ListOK(blk, p) /\ p[1] = listhead /\ p[Len(p)] = listtail
      /\ size = Len(Flat(blk, p)) /\ listhead \in Block
      /\ size \in Nat /\ blk \in [Block -> BlockType] /\ BlocksOK(blk) /\ Chain(blk, p)
      /\ Len(p) \in Nat \ {0}
  BY HoldsAt DEF Holds
<1>2. PICK c, x : c = HeadInUse /\ x = blk[c]
  OBVIOUS
<1>3. /\ listhead' = c /\ listtail' = listtail /\ size' = size - 1
      /\ result' = Elem(x, 0)
      /\ SetBlocks([blk EXCEPT
           ![c] = [x EXCEPT !.listprev = IF c = listhead THEN @ ELSE NULL,
                            !.first = IF @ + 1 >= x.nslots THEN 0 ELSE @ + 1,
                            !.nused = @ - 1]])
  BY <1>1, <1>2 DEF Get, At
<1>4. ASSUME NEW bs, NEW q, ListOK(bs, q), q[1] = c, q[Len(q)] = listtail,
             Flat(bs, q) = Flat(blk, p), bs[c].nused > 0, result' = Elem(bs[c], 0),
             SetBlocks(Set(bs, c, AfterGet(bs[c])))
      PROVE  /\ Holds(blk', listhead', listtail', size', q)
             /\ Flat(blk, p) = <<result'>> \o Flat(blk', q) /\ result' \in Value
  <2>1. PICK bs2, S : S = {listhead', listtail', ep'} /\ bs2 = Set(bs, c, AfterGet(bs[c]))
    OBVIOUS
  <2>2. /\ ListOK(bs2, q) /\ result' \in Value
        /\ Flat(blk, p) = <<result'>> \o Flat(bs2, q)
    BY <1>4, <2>1, GetList
  <2>3. Flat(bs2, q) \in Seq(Value)
    BY <2>2, RowsType DEF ListOK, Flat, IsRows
  <2>4. Len(Flat(bs2, q)) = size - 1
    BY <1>1, <2>2, <2>3
  <2>5. Holds(bs2, c, listtail', size', q)
    BY <1>3, <1>4, <2>2, <2>4 DEF Holds
  <2>6. blk' = Collected(bs2, S)
    BY <1>4, <2>1 DEF SetBlocks
  <2>7. Holds(blk', c, listtail', size', q) /\ Flat(blk', q) = Flat(bs2, q)
    BY <1>3, <2>1, <2>5, <2>6, CollectedHolds
  <2>8. QED
    BY <1>3, <2>2, <2>7
<1>5. blk[listhead].nused \in Nat
  BY <1>1, BlockFields DEF BlocksOK
<1>6. CASE blk[listhead].nused # 0
  <2>1. c = listhead /\ x.nused > 0
    BY <1>2, <1>5, <1>6 DEF HeadInUse
  <2>2. x \in BlockType
    BY <1>1, <1>2, <2>1
  <2>3. [x EXCEPT !.listprev = IF c = listhead THEN @ ELSE NULL,
                  !.first = IF @ + 1 >= x.nslots THEN 0 ELSE @ + 1,
                  !.nused = @ - 1] = AfterGet(x)
    BY <2>1, <2>2 DEF AfterGet, BlockType
  <2>4. SetBlocks(Set(blk, c, AfterGet(blk[c])))
    BY <1>2, <1>3, <2>3 DEF Set
  <2>5. QED
    BY <1>1, <1>2, <1>3, <1>4, <2>1, <2>4
<1>7. CASE blk[listhead].nused = 0
  <2>1. /\ Len(p) >= 2 /\ blk[listhead].listnext = p[2] /\ p[2] \in Block /\ p[2] # listhead
        /\ blk[p[2]].nused > 0
    BY <1>7, Ends
  <2>2. c = p[2] /\ c \in Block /\ c # listhead /\ x.nused > 0 /\ x \in BlockType
    BY <1>1, <1>2, <1>7, <2>1 DEF HeadInUse
  <2>3. PICK bs, q : bs = Unprev(blk, p[2]) /\ q = Rest(p)
    OBVIOUS
  <2>4. /\ ListOK(bs, q) /\ q[1] = c /\ q[Len(q)] = listtail /\ Flat(bs, q) = Flat(blk, p)
        /\ bs[c].nused = x.nused
    BY <1>1, <1>2, <1>7, <2>1, <2>2, <2>3, DropHead
  <2>5. bs = Set(blk, c, [x EXCEPT !.listprev = NULL]) /\ bs[c] = [x EXCEPT !.listprev = NULL]
    BY <1>1, <1>2, <2>2, <2>3 DEF Unprev, Set
  <2>6. Elem(bs[c], 0) = Elem(x, 0)
    BY <2>2, <2>5 DEF Elem, Slot, BlockType
  <2>7. [x EXCEPT !.listprev = IF c = listhead THEN @ ELSE NULL,
                  !.first = IF @ + 1 >= x.nslots THEN 0 ELSE @ + 1,
                  !.nused = @ - 1] = AfterGet(bs[c])
    BY <2>2, <2>5 DEF AfterGet, BlockType
  <2>8. Set(bs, c, AfterGet(bs[c])) = [blk EXCEPT ![c] = AfterGet(bs[c])]
    BY <1>1, <2>2, <2>5 DEF Set
  <2>9. SetBlocks(Set(bs, c, AfterGet(bs[c])))
    BY <1>3, <2>7, <2>8
  <2>10. QED
    BY <1>3, <1>4, <2>2, <2>4, <2>6, <2>9
<1>8. QED
  BY <1>6, <1>7

LEMMA PullHolds ==
  ASSUME NEW p, Holds(blk, listhead, listtail, size, p), size > 0, Pull
  PROVE  \E q : /\ Holds(blk', listhead', listtail', size', q)
                /\ Flat(blk, p) = Append(Flat(blk', q), result') /\ result' \in Value
<1>1. /\ ListOK(blk, p) /\ p[1] = listhead /\ p[Len(p)] = listtail
      /\ size = Len(Flat(blk, p)) /\ listtail \in Block
      /\ size \in Nat /\ blk \in [Block -> BlockType] /\ BlocksOK(blk) /\ Chain(blk, p)
      /\ Len(p) \in Nat \ {0}
  BY HoldsAt DEF Holds
<1>2. PICK c, x : c = TailInUse /\ x = blk[c]
  OBVIOUS
<1>3. /\ listtail' = c /\ listhead' = listhead /\ size' = size - 1
      /\ result' = Elem(x, x.nused - 1)
      /\ SetBlocks([blk EXCEPT
           ![c] = [x EXCEPT !.listnext = IF c = listtail THEN @ ELSE NULL,
                            !.nused = @ - 1]])
  BY <1>1, <1>2 DEF Pull, At
<1>4. ASSUME NEW bs, NEW q, ListOK(bs, q), q[1] = listhead, q[Len(q)] = c,
             Flat(bs, q) = Flat(blk, p), bs[c].nused > 0,
             result' = Elem(bs[c], bs[c].nused - 1),
             SetBlocks(Set(bs, c, AfterPull(bs[c])))
      PROVE  /\ Holds(blk', listhead', listtail', size', q)
             /\ Flat(blk, p) = Append(Flat(blk', q), result') /\ result' \in Value
  <2>1. PICK bs2, S : S = {listhead', listtail', ep'} /\ bs2 = Set(bs, c, AfterPull(bs[c]))
    OBVIOUS
  <2>2. /\ ListOK(bs2, q) /\ result' \in Value
        /\ Flat(blk, p) = Append(Flat(bs2, q), result')
    BY <1>4, <2>1, PullList
  <2>3. Flat(bs2, q) \in Seq(Value)
    BY <2>2, RowsType DEF ListOK, Flat, IsRows
  <2>4. Len(Flat(bs2, q)) = size - 1
    BY <1>1, <2>2, <2>3
  <2>5. Holds(bs2, listhead', c, size', q)
    BY <1>3, <1>4, <2>2, <2>4 DEF Holds
  <2>6. blk' = Collected(bs2, S)
    BY <1>4, <2>1 DEF SetBlocks
  <2>7. Holds(blk', listhead', c, size', q) /\ Flat(blk', q) = Flat(bs2, q)
    BY <1>3, <2>1, <2>5, <2>6, CollectedHolds
  <2>8. QED
    BY <1>3, <2>2, <2>7
<1>5. blk[listtail].nused \in Nat
  BY <1>1, BlockFields DEF BlocksOK
<1>6. CASE blk[listtail].nused # 0
  <2>1. c = listtail /\ x.nused > 0
    BY <1>2, <1>5, <1>6 DEF TailInUse
  <2>2. x \in BlockType
    BY <1>1, <1>2, <2>1
  <2>3. [x EXCEPT !.listnext = IF c = listtail THEN @ ELSE NULL, !.nused = @ - 1] = AfterPull(x)
    BY <2>1, <2>2 DEF AfterPull, BlockType
  <2>4. SetBlocks(Set(blk, c, AfterPull(blk[c])))
    BY <1>2, <1>3, <2>3 DEF Set
  <2>5. QED
    BY <1>1, <1>2, <1>3, <1>4, <2>1, <2>4
<1>7. CASE blk[listtail].nused = 0
  <2>1. PICK d : d = p[Len(p) - 1]
    OBVIOUS
  <2>2. /\ Len(p) >= 2 /\ blk[listtail].listprev = d /\ d \in Block /\ d # listtail
        /\ blk[d].nused > 0
    BY <1>7, <2>1, Ends
  <2>3. c = d /\ c \in Block /\ c # listtail /\ x.nused > 0 /\ x \in BlockType
    BY <1>1, <1>2, <1>7, <2>2 DEF TailInUse
  <2>4. PICK bs, q : bs = Unnext(blk, d) /\ q = Most(p)
    OBVIOUS
  <2>5. /\ ListOK(bs, q) /\ q[1] = listhead /\ q[Len(q)] = c /\ Flat(bs, q) = Flat(blk, p)
        /\ bs[c].nused = x.nused
    BY <1>1, <1>2, <1>7, <2>1, <2>2, <2>3, <2>4, DropTail
  <2>6. bs = Set(blk, c, [x EXCEPT !.listnext = NULL]) /\ bs[c] = [x EXCEPT !.listnext = NULL]
    BY <1>1, <1>2, <2>3, <2>4 DEF Unnext, Set
  <2>7. Elem(bs[c], bs[c].nused - 1) = Elem(x, x.nused - 1)
    BY <2>3, <2>6 DEF Elem, Slot, BlockType
  <2>8. [x EXCEPT !.listnext = IF c = listtail THEN @ ELSE NULL, !.nused = @ - 1]
          = AfterPull(bs[c])
    BY <2>3, <2>6 DEF AfterPull, BlockType
  <2>9. Set(bs, c, AfterPull(bs[c])) = [blk EXCEPT ![c] = AfterPull(bs[c])]
    BY <1>1, <2>3, <2>6 DEF Set
  <2>10. SetBlocks(Set(bs, c, AfterPull(bs[c])))
    BY <1>3, <2>8, <2>9
  <2>11. QED
    BY <1>3, <1>4, <2>3, <2>5, <2>7, <2>10
<1>8. QED
  BY <1>6, <1>7

LEMMA AssignHolds ==
  ASSUME NEW p, Holds(blk, listhead, listtail, size, p),
         NEW k \in Nat \ {0}, NEW v \in Value, Assign(k, v)
  PROVE  /\ Holds(blk', listhead', listtail', size', p) /\ k \in 1..size
         /\ Flat(blk', p) = [Flat(blk, p) EXCEPT ![k] = v]
         /\ \A b \in Block : blk'[b].nused = blk[b].nused
<1>1. PICK u, m : u = Upto(blk, p) /\ m = Min({n \in 1..Len(p) : k <= u[n]})
  OBVIOUS
<1>2. /\ ListOK(blk, p) /\ p[1] = listhead /\ p[Len(p)] = listtail
      /\ size = Len(Flat(blk, p)) /\ Along(blk, listhead) = p /\ Flat(blk, p) \in Seq(Value)
      /\ size \in Nat /\ blk \in [Block -> BlockType] /\ BlocksOK(blk) /\ Chain(blk, p)
      /\ Len(p) \in Nat \ {0}
  BY HoldsAt DEF Holds
<1>3. From(listhead) = p
  BY <1>2 DEF From
<1>4. /\ k <= size
      /\ blk' = [blk EXCEPT ![p[m]].lslots[Slot(blk[p[m]], k - 1 - u[m - 1]) + 1] = v]
      /\ UNCHANGED <<listhead, listtail, size>>
  BY <1>1, <1>3, Zenon DEF Assign, list
<1>5. IsUpto(blk, p, u) /\ u[Len(p)] = size
  <2>1. IsUpto(blk, p, u)
    BY <1>1, <1>2, UptoIs
  <2>2. QED
    BY <1>2, <2>1, FlatAt
<1>6. k \in 1..u[Len(p)]
  BY <1>2, <1>4, <1>5
<1>7. PICK j : j = k - u[m - 1]
  OBVIOUS
<1>8. Place(blk, p, u, k, m, j)
  BY <1>1, <1>2, <1>5, <1>6, <1>7, Locate
<1>9. /\ m \in 1..Len(p) /\ p[m] \in Block /\ j \in 1..blk[p[m]].nused
      /\ blk[p[m]].nused \in Nat /\ blk[p[m]] \in BlockType
  BY <1>2, <1>5, <1>8, PlaceAt
<1>10. u[m - 1] \in Nat
  <2>1. m - 1 \in 0..Len(p)
    BY <1>2, <1>9
  <2>2. QED
    BY <1>5, <2>1 DEF IsUpto
<1>11. k - 1 - u[m - 1] = j - 1
  BY <1>7, <1>10
<1>12. blk' = Set(blk, p[m], AfterAssign(blk[p[m]], j - 1, v))
  <2>1. PICK s : s = Slot(blk[p[m]], j - 1) + 1
    OBVIOUS
  <2>2. blk' = [blk EXCEPT ![p[m]].lslots[s] = v]
    BY <1>4, <1>11, <2>1
  <2>3. AfterAssign(blk[p[m]], j - 1, v)
          = [blk[p[m]] EXCEPT !.lslots = [blk[p[m]].lslots EXCEPT ![s] = v]]
    BY <2>1 DEF AfterAssign
  <2>4. QED
    BY <1>9, <2>2, <2>3 DEF Set, BlockType
<1>13. /\ ListOK(blk', p) /\ Flat(blk', p) = [Flat(blk, p) EXCEPT ![k] = v]
       /\ \A b \in Block : blk'[b].nused = blk[b].nused
  <2>1. PICK bs2 : bs2 = Set(blk, p[m], AfterAssign(blk[p[m]], j - 1, v))
    OBVIOUS
  <2>2. /\ ListOK(bs2, p) /\ Flat(bs2, p) = [Flat(blk, p) EXCEPT ![k] = v]
        /\ \A b \in Block : bs2[b].nused = blk[b].nused
    <3>1. PICK f : f = Flat(blk, p)
      OBVIOUS
    <3>2. ListOK(blk, p) /\ IsUpto(blk, p, u) /\ Place(blk, p, u, k, m, j) /\ v \in Value
      BY <1>2, <1>5, <1>8
    <3>3. /\ ListOK(bs2, p) /\ IsUpto(bs2, p, u)
          /\ Flat(bs2, p) = [Flat(blk, p) EXCEPT ![k] = v]
          /\ \A b \in Block : bs2[b].nused = blk[b].nused
      BY <2>1, <3>2, AssignList
    <3>4. QED
      BY <3>3
  <2>3. QED
    BY <1>12, <2>1, <2>2
<1>14. Len(Flat(blk', p)) = size
  BY <1>2, <1>13
<1>15. QED
  BY <1>2, <1>4, <1>5, <1>6, <1>13, <1>14 DEF Holds

-----------------------------------------------------------------------------
(* From one element to the next.                                           *)

\* Whether the blocks after block m have an element.
LEMMA NextBlock ==
  ASSUME NEW bs, NEW p, ListOK(bs, p), NEW u, IsUpto(bs, p, u), NEW m \in 1..Len(p)
  PROVE  /\ u[m] < u[Len(p)] => /\ m + 1 \in 1..Len(p) /\ bs[p[m]].listnext = p[m + 1]
                                /\ p[m + 1] \in Block /\ bs[p[m + 1]].nused > 0
                                /\ Place(bs, p, u, u[m] + 1, m + 1, 1)
         /\ u[m] = u[Len(p)] => \A n \in m + 1..Len(p) : bs[p[n]].nused = 0
         /\ u[m] \in Nat /\ u[m] <= u[Len(p)]
<1>1. PICK L : L = Len(p)
  OBVIOUS
<1>2. BlocksOK(bs) /\ Chain(bs, p) /\ Filled(bs, p)
  BY DEF ListOK
<1>3. /\ L \in Nat \ {0} /\ m \in 1..L /\ \A n \in 1..L : p[n] \in Block
      /\ \A n \in 1..L - 1 : bs[p[n]].listnext = p[n + 1]
  <2>1. /\ Len(p) \in Nat \ {0} /\ \A n \in 1..Len(p) : p[n] \in Block
        /\ \A n \in 1..Len(p) - 1 : bs[p[n]].listnext = p[n + 1]
    BY <1>2, ChainAt
  <2>2. QED
    BY <1>1, <2>1, Zenon
<1>4. \A n \in 1..L : bs[p[n]].nused \in Nat
  BY <1>2, <1>3, BlockFields DEF BlocksOK
<1>5. \A n \in 0..L : u[n] \in Nat
  BY <1>1 DEF IsUpto
<1>6. \A n \in 1..L : u[n] = u[n - 1] + bs[p[n]].nused
  BY <1>1 DEF IsUpto
<1>7. \A n, k \in 0..L : n <= k => u[n] <= u[k]
  BY <1>1, <1>2, UptoGrows
<1>8. u[m] \in Nat /\ u[L] \in Nat /\ u[m] <= u[L]
  BY <1>3, <1>5, <1>7
<1>9. ASSUME u[m] < u[L]
      PROVE  /\ m + 1 \in 1..L /\ bs[p[m]].listnext = p[m + 1]
             /\ p[m + 1] \in Block /\ bs[p[m + 1]].nused > 0
             /\ Place(bs, p, u, u[m] + 1, m + 1, 1)
  <2>1. m # L
    BY <1>8, <1>9
  <2>2. PICK k : k = m + 1
    OBVIOUS
  <2>3. k \in 1..L /\ k \in 2..L /\ m \in 1..L - 1 /\ k - 1 = m
    BY <1>3, <2>1, <2>2
  <2>4. p[k] \in Block /\ bs[p[m]].listnext = p[k] /\ bs[p[k]].nused \in Nat
    BY <1>3, <1>4, <2>2, <2>3
  <2>5. bs[p[k]].nused # 0
    <3>1. CASE k = L
      <4>1. u[k] = u[m] + bs[p[k]].nused
        BY <1>6, <2>3
      <4>2. QED
        BY <1>8, <1>9, <2>4, <3>1, <4>1
    <3>2. CASE k # L
      <4>1. k \in 2..L - 1
        BY <1>3, <2>3, <3>2
      <4>2. QED
        BY <1>1, <1>2, <4>1 DEF Filled
    <3>3. QED
      BY <3>1, <3>2
  <2>6. 1 \in 1..bs[p[k]].nused
    BY <2>4, <2>5
  <2>7. Place(bs, p, u, u[m] + 1, k, 1)
    <3>1. u[m] + 1 = u[k - 1] + 1 /\ k \in 1..Len(p)
      BY <1>1, <2>3
    <3>2. QED
      BY <2>6, <3>1 DEF Place
  <2>8. QED
    BY <2>2, <2>3, <2>4, <2>5, <2>7
<1>10. ASSUME u[m] = u[L], NEW n \in m + 1..L PROVE bs[p[n]].nused = 0
  <2>1. n \in 1..L /\ n - 1 \in 0..L /\ m \in 0..L /\ n \in 0..L /\ L \in 0..L /\ m <= n - 1 /\ n <= L
    BY <1>3
  <2>2. u[m] <= u[n - 1] /\ u[n] <= u[L] /\ u[n] = u[n - 1] + bs[p[n]].nused
    BY <1>6, <1>7, <2>1
  <2>3. u[n - 1] \in Nat /\ u[n] \in Nat /\ bs[p[n]].nused \in Nat
    BY <1>4, <1>5, <2>1
  <2>4. QED
    BY <1>8, <1>10, <2>2, <2>3
<1>11. QED
  BY <1>1, <1>8, <1>9, <1>10

LEMMA NextPlace ==
  ASSUME NEW bs, NEW p, ListOK(bs, p), NEW u, IsUpto(bs, p, u),
         NEW k, NEW m, NEW j, Place(bs, p, u, k, m, j), k < u[Len(p)]
  PROVE  IF j + 1 > bs[p[m]].nused
           THEN bs[p[m]].listnext = p[m + 1] /\ Place(bs, p, u, k + 1, m + 1, 1)
           ELSE Place(bs, p, u, k + 1, m, j + 1)
<1>1. BlocksOK(bs) /\ Chain(bs, p)
  BY DEF ListOK
<1>2. /\ m \in 1..Len(p) /\ j \in 1..bs[p[m]].nused /\ bs[p[m]].nused \in Nat
      /\ k = u[m - 1] + j
  BY <1>1, PlaceAt
<1>3. Len(p) \in Nat \ {0}
  BY <1>1, ChainAt
<1>4. u[m - 1] \in Nat /\ u[m] = u[m - 1] + bs[p[m]].nused
  <2>1. m - 1 \in 0..Len(p)
    BY <1>2, <1>3
  <2>2. QED
    BY <1>2, <2>1 DEF IsUpto
<1>5. CASE j + 1 > bs[p[m]].nused
  <2>1. k = u[m]
    BY <1>2, <1>4, <1>5
  <2>2. u[m] < u[Len(p)]
    BY <2>1
  <2>3. bs[p[m]].listnext = p[m + 1] /\ Place(bs, p, u, u[m] + 1, m + 1, 1)
    BY <1>2, <2>2, NextBlock
  <2>4. QED
    BY <1>5, <2>1, <2>3
<1>6. CASE ~(j + 1 > bs[p[m]].nused)
  <2>1. j + 1 \in 1..bs[p[m]].nused /\ k + 1 = u[m - 1] + (j + 1)
    BY <1>2, <1>4, <1>6
  <2>2. Place(bs, p, u, k + 1, m, j + 1)
    BY <1>2, <2>1 DEF Place
  <2>3. QED
    BY <1>6, <2>2
<1>7. QED
  BY <1>5, <1>6

\* a is the end of p from its block k on.
EndOf(a, p, k) ==
  /\ a \in Seq(Block) /\ Len(a) = Len(p) - k + 1
  /\ \A m \in 1..Len(p) - k + 1 : a[m] = p[k + m - 1]

LEMMA AlongEnd ==
  ASSUME NEW bs, bs \in [Block -> BlockType], NEW p, Chain(bs, p), NEW k \in 1..Len(p)
  PROVE  EndOf(Along(bs, p[k]), p, k)
<1>1. PICK a : a = Along(bs, p[k])
  OBVIOUS
<1>2. a \in Seq(Block) /\ Len(a) = Len(p) - k + 1
  BY <1>1, AlongOf
<1>3. \A m \in 1..Len(p) - k + 1 : a[m] = p[k + m - 1]
  BY <1>1, AlongOf
<1>4. QED
  BY <1>1, <1>2, <1>3 DEF EndOf

\* !L goes on to the next element, from wherever it is in the list.
LEMMA BangGoes ==
  ASSUME NEW p, Holds(blk, listhead, listtail, size, p), NEW u, IsUpto(blk, p, u),
         NEW m \in 1..Len(p), NEW j \in 0..blk[p[m]].nused, BangTo(p[m], j),
         NEW k, k = u[m - 1] + j
  PROVE  /\ k < size => \E n \in 1..Len(p) : ep' = p[n] /\ Place(blk, p, u, k + 1, n, i' + 1)
         /\ k >= size => ep' = NULL
         /\ k \in Nat
<1>1. /\ ListOK(blk, p) /\ BlocksOK(blk) /\ Chain(blk, p) /\ size = Len(Flat(blk, p))
      /\ blk \in [Block -> BlockType] /\ size \in Nat
  BY HoldsAt DEF Holds
<1>2. PICK L, b : L = Len(p) /\ b = p[m]
  OBVIOUS
<1>3. /\ L \in Nat \ {0} /\ m \in 1..L /\ \A n \in 1..L : p[n] \in Block
      /\ \A n \in 1..L - 1 : blk[p[n]].listnext = p[n + 1]
      /\ blk[p[L]].listnext = NULL
  BY <1>1, <1>2, ChainAt
<1>4. b \in Block /\ b # NULL /\ blk[b].nused \in Nat
  <2>1. b \in Block
    BY <1>2, <1>3
  <2>2. QED
    BY <1>1, <2>1, BlockFields DEF BlocksOK, Block, NULL
<1>5. u[L] = size
  BY <1>1, <1>2, FlatAt
<1>6. u[m - 1] \in Nat /\ u[m] = u[m - 1] + blk[b].nused
  <2>1. m - 1 \in 0..Len(p)
    BY <1>2, <1>3
  <2>2. QED
    BY <1>2, <2>1 DEF IsUpto
<1>7. k \in Nat
  BY <1>2, <1>4, <1>6
<1>8. CASE j < blk[b].nused
  <2>1. ep' = b /\ i' = j
    BY <1>2, <1>4, <1>8 DEF BangTo
  <2>2. i' + 1 \in 1..blk[p[m]].nused /\ k + 1 = u[m - 1] + (i' + 1)
    BY <1>2, <1>4, <1>6, <1>8, <2>1
  <2>3. Place(blk, p, u, k + 1, m, i' + 1)
    BY <2>2 DEF Place
  <2>4. k + 1 <= size
    <3>1. k + 1 \in 1..Len(Flat(blk, p))
      BY <1>1, <2>3, PlaceAt
    <3>2. QED
      BY <1>1, <3>1
  <2>5. QED
    BY <1>1, <1>2, <1>7, <2>1, <2>3, <2>4
<1>9. CASE ~(j < blk[b].nused)
  <2>1. k = u[m]
    BY <1>2, <1>4, <1>6, <1>9
  <2>2. PICK more, full : /\ more = From(blk[b].listnext)
                          /\ full = {n \in DOMAIN more : blk[more[n]].nused > 0}
    OBVIOUS
  <2>3. ep' = (IF full = {} THEN NULL ELSE more[Min(full)]) /\ i' = 0
    BY <1>2, <1>4, <1>9, <2>2 DEF BangTo
  <2>4. CASE k < size
    <3>1. u[m] < u[Len(p)]
      BY <1>2, <1>5, <2>1, <2>4
    <3>2. /\ m + 1 \in 1..Len(p) /\ blk[p[m]].listnext = p[m + 1]
          /\ blk[p[m + 1]].nused > 0 /\ Place(blk, p, u, u[m] + 1, m + 1, 1)
      BY <1>1, <3>1, NextBlock
    <3>3. PICK n : n = m + 1
      OBVIOUS
    <3>4. n \in 1..Len(p) /\ more = Along(blk, p[n]) /\ blk[p[n]].nused > 0
          /\ Place(blk, p, u, k + 1, n, 1)
      BY <1>2, <2>1, <2>2, <3>2, <3>3 DEF From
    <3>5. more \in Seq(Block) /\ Len(more) = Len(p) - n + 1
          /\ \A x \in 1..Len(p) - n + 1 : more[x] = p[n + x - 1]
      <4>1. EndOf(Along(blk, p[n]), p, n)
        BY <1>1, <3>4, AlongEnd
      <4>2. QED
        BY <3>4, <4>1 DEF EndOf
    <3>6. 1 \in 1..Len(p) - n + 1 /\ n + 1 - 1 = n /\ DOMAIN more = 1..Len(more)
      BY <1>2, <1>3, <3>4, <3>5
    <3>7. more[1] = p[n] /\ 1 \in DOMAIN more
      BY <3>5, <3>6
    <3>8. 1 \in full /\ full \subseteq Nat \ {0}
      BY <2>2, <3>4, <3>6, <3>7
    <3>9. Min(full) \in full /\ Min(full) <= 1
      BY <3>8, MinIn
    <3>10. Min(full) = 1
      <4>1. PICK x : x = Min(full)
        OBVIOUS
      <4>2. x \in Nat \ {0} /\ x <= 1
        BY <3>8, <3>9, <4>1
      <4>3. QED
        BY <4>1, <4>2
    <3>11. ep' = p[n] /\ i' + 1 = 1
      BY <2>3, <3>7, <3>8, <3>10
    <3>12. Place(blk, p, u, k + 1, n, i' + 1)
      BY <3>4, <3>11
    <3>13. QED
      BY <1>1, <1>7, <2>4, <3>4, <3>11, <3>12
  <2>5. CASE ~(k < size)
    <3>1. u[m] = u[Len(p)] /\ \A n \in m + 1..Len(p) : blk[p[n]].nused = 0
      <4>1. u[m] \in Nat /\ u[m] <= u[Len(p)]
        BY <1>1, NextBlock
      <4>2. u[m] = u[Len(p)]
        BY <1>1, <1>2, <1>5, <2>1, <2>5, <4>1
      <4>3. QED
        BY <1>1, <4>2, NextBlock
    <3>2. full = {}
      <4>1. CASE m = L
        <5>1. more = Along(blk, NULL)
          BY <1>2, <1>3, <2>2, <4>1 DEF From
        <5>2. Along(blk, NULL) = <<>>
          BY <1>1, AlongType DEF Pointer
        <5>3. QED
          BY <2>2, <5>1, <5>2
      <4>2. CASE m # L
        <5>1. PICK n : n = m + 1
          OBVIOUS
        <5>2. n \in 1..L /\ m \in 1..L - 1
          BY <1>3, <4>2, <5>1
        <5>3. more = Along(blk, p[n])
          BY <1>2, <1>3, <2>2, <5>1, <5>2 DEF From
        <5>4. more \in Seq(Block) /\ Len(more) = Len(p) - n + 1
              /\ \A x \in 1..Len(p) - n + 1 : more[x] = p[n + x - 1]
          <6>1. n \in 1..Len(p)
            BY <1>2, <5>2
          <6>2. EndOf(Along(blk, p[n]), p, n)
            BY <1>1, <6>1, AlongEnd
          <6>3. QED
            BY <5>3, <6>2 DEF EndOf
        <5>5. \A x \in DOMAIN more : x \in 1..Len(p) - n + 1 /\ n + x - 1 \in m + 1..Len(p)
          BY <1>2, <1>3, <5>1, <5>2, <5>4
        <5>6. \A x \in DOMAIN more : blk[more[x]].nused = 0
          BY <3>1, <5>4, <5>5
        <5>7. QED
          BY <2>2, <5>6
      <4>3. QED
        BY <4>1, <4>2
    <3>3. QED
      BY <1>7, <2>3, <2>5, <3>2
  <2>6. QED
    BY <2>4, <2>5
<1>10. QED
  BY <1>2, <1>8, <1>9

\* Wherever it is, it goes to an element of a block.
LEMMA BangStays ==
  ASSUME BlocksOK(blk), NEW b \in Pointer, NEW n \in Nat, BangTo(b, n)
  PROVE  ep' \in Pointer /\ i' \in Nat /\ (ep' # NULL => ep' \in Block /\ i' < blk[ep'].nused)
<1>1. blk \in [Block -> BlockType] /\ \A c \in Block : blk[c].listnext \in Pointer
  BY BlockFields DEF BlocksOK
<1>2. CASE b # NULL /\ n < blk[b].nused
  <2>1. ep' = b /\ i' = n
    BY <1>2 DEF BangTo
  <2>2. QED
    BY <1>2, <2>1 DEF Pointer
<1>3. CASE ~(b # NULL /\ n < blk[b].nused)
  <2>1. PICK more, full : /\ more = (IF b = NULL THEN <<>> ELSE From(blk[b].listnext))
                          /\ full = {m \in DOMAIN more : blk[more[m]].nused > 0}
    OBVIOUS
  <2>2. ep' = (IF full = {} THEN NULL ELSE more[Min(full)]) /\ i' = 0
    BY <1>3, <2>1, Zenon DEF BangTo
  <2>3. more \in Seq(Block)
    <3>1. CASE b = NULL
      BY <2>1, <3>1
    <3>2. CASE b # NULL
      <4>1. b \in Block
        BY <3>2 DEF Pointer
      <4>2. more = Along(blk, blk[b].listnext) /\ blk[b].listnext \in Pointer
        BY <1>1, <2>1, <3>2, <4>1 DEF From
      <4>3. QED
        BY <1>1, <4>2, AlongType
    <3>3. QED
      BY <3>1, <3>2
  <2>4. CASE full = {}
    BY <2>2, <2>4 DEF Pointer
  <2>5. CASE full # {}
    <3>1. full \subseteq Nat /\ DOMAIN more = 1..Len(more)
      BY <2>1, <2>3
    <3>2. PICK m : m = Min(full)
      OBVIOUS
    <3>3. m \in full
      BY <2>5, <3>1, <3>2, MinIn
    <3>4. m \in 1..Len(more) /\ blk[more[m]].nused > 0
      BY <2>1, <3>1, <3>3
    <3>5. more[m] \in Block
      BY <2>3, <3>4
    <3>6. QED
      BY <2>2, <2>5, <3>2, <3>4, <3>5 DEF Pointer
  <2>6. QED
    BY <2>4, <2>5
<1>4. QED
  BY <1>2, <1>3

\* A block that has elements is of the list.
LEMMA ElementIn ==
  ASSUME NEW p, Holds(blk, listhead, listtail, size, p),
         NEW b \in Block, NEW n \in Nat, n < blk[b].nused
  PROVE  At(b, n) \in Value /\ \E k \in 1..size : At(b, n) = Flat(blk, p)[k]
<1>1. /\ ListOK(blk, p) /\ BlocksOK(blk) /\ Chain(blk, p) /\ size = Len(Flat(blk, p))
      /\ Filled(blk, p) /\ Flat(blk, p) \in Seq(Value)
  BY HoldsAt DEF Holds, ListOK
<1>2. blk[b].nused \in Nat
  BY <1>1, BlockFields DEF BlocksOK
<1>3. PICK m \in 1..Len(p) : p[m] = b
  BY <1>1, <1>2 DEF Filled
<1>4. PICK u, j : u = Upto(blk, p) /\ j = n + 1
  OBVIOUS
<1>5. IsUpto(blk, p, u)
  BY <1>1, <1>4, UptoIs
<1>6. j \in 1..blk[p[m]].nused /\ j - 1 = n
  BY <1>2, <1>3, <1>4
<1>7. Place(blk, p, u, u[m - 1] + j, m, j)
  BY <1>6 DEF Place
<1>8. PICK k : k = u[m - 1] + j
  OBVIOUS
<1>9. k \in 1..Len(Flat(blk, p)) /\ Flat(blk, p)[k] = Elem(blk[p[m]], j - 1)
      /\ Flat(blk, p)[k] \in Value
  BY <1>1, <1>5, <1>7, <1>8, PlaceAt
<1>10. At(b, n) = Flat(blk, p)[k]
  BY <1>3, <1>6, <1>9 DEF At
<1>11. QED
  BY <1>1, <1>9, <1>10

-----------------------------------------------------------------------------
(* Lists of one block.                                                     *)

\* A block of N slots that starts with n elements in the slots s.
Filling(x, N, n, s) == x = [NewBlock(N) EXCEPT !.nused = n, !.lslots = s]

LEMMA FilledBlock ==
  ASSUME NEW N \in Nat \ {0}, NEW n \in 0..N, NEW s \in Seq(Value \cup {None}), Len(s) = N,
         \A m \in 1..n : s[m] \in Value,
         NEW x, Filling(x, N, n, s)
  PROVE  /\ BlockOK(x) /\ x.listprev = NULL /\ x.listnext = NULL /\ x.nslots = N
         /\ x.nused = n /\ Len(Elems(x)) = n /\ \A m \in 1..n : Elems(x)[m] = s[m]
<1>1. x = [listprev |-> NULL, listnext |-> NULL, nslots |-> N, first |-> 0, nused |-> n,
           lslots |-> s]
  BY DEF Filling, NewBlock, Unused
<1>2. /\ x.listprev = NULL /\ x.listnext = NULL /\ x.nslots = N /\ x.first = 0
      /\ x.nused = n /\ x.lslots = s /\ x \in BlockType
  <2>1. NULL \in Pointer /\ N \in Nat /\ n \in Nat /\ 0 \in Nat
    BY DEF Pointer
  <2>2. /\ x.listprev = NULL /\ x.listnext = NULL /\ x.nslots = N /\ x.first = 0
        /\ x.nused = n /\ x.lslots = s
    BY <1>1
  <2>3. x \in BlockType
    BY <1>1, <2>1, Zenon DEF BlockType
  <2>4. QED
    BY <2>2, <2>3
<1>3. \A m \in 1..n : Elem(x, m - 1) = s[m]
  <2> TAKE m \in 1..n
  <2>1. Slot(x, m - 1) = m - 1 /\ m - 1 + 1 = m
    BY <1>2 DEF Slot
  <2>2. QED
    BY <1>2, <2>1 DEF Elem
<1>4. BlockOK(x)
  <2>1. ASSUME NEW m \in 0..x.nused - 1 PROVE Elem(x, m) \in Value
    <3>1. PICK k : k = m + 1
      OBVIOUS
    <3>2. k \in 1..n /\ k - 1 = m
      BY <1>2, <3>1
    <3>3. QED
      BY <1>3, <3>2
  <2>2. QED
    BY <1>2, <2>1 DEF BlockOK
<1>5. Len(Elems(x)) = n
  BY <1>2, <1>4, ElemsType
<1>6. \A m \in 1..n : Elems(x)[m] = s[m]
  BY <1>2, <1>3 DEF Elems
<1>7. QED
  BY <1>2, <1>4, <1>5, <1>6

\* Where cpslots finds them, from element k in block path[m] on.
CpAt(path, upto, m, k, l) ==
  LET at[n \in k..l - 1] ==
        IF n = k THEN <<path[m], k - upto[m - 1]>>
        ELSE LET b == at[n - 1][1] IN
             IF at[n - 1][2] + 1 > blk[b].nused THEN <<blk[b].listnext, 1>>
                                               ELSE <<b, at[n - 1][2] + 1>>
  IN at

CpFrom(path, upto, m, k, l) ==
  [n \in 1..l - k |-> At(CpAt(path, upto, m, k, l)[k + n - 1][1],
                         CpAt(path, upto, m, k, l)[k + n - 1][2] - 1)]

LEMMA CpSlotsAt ==
  ASSUME NEW k, NEW l
  PROVE  CpSlots(k, l) = CpFrom(From(listhead), Upto(blk, From(listhead)),
                                Min({n \in 1..Len(From(listhead)) :
                                       k <= Upto(blk, From(listhead))[n]}), k, l)
BY Zenon DEF CpSlots, CpFrom, CpAt

\* cpslots finds the elements from k to l - 1.
LEMMA CpSlotsIs ==
  ASSUME NEW p, Holds(blk, listhead, listtail, size, p),
         NEW k \in Nat \ {0}, NEW l \in Nat, k < l, l <= size + 1
  PROVE  /\ CpSlots(k, l) \in Seq(Value) /\ Len(CpSlots(k, l)) = l - k
         /\ CpSlots(k, l) = SubSeq(Flat(blk, p), k, l - 1)
<1>1. PICK u, m, f, D : /\ u = Upto(blk, p) /\ m = Min({n \in 1..Len(p) : k <= u[n]})
                        /\ f = Flat(blk, p) /\ D = k..l - 1
  OBVIOUS
<1>2. /\ ListOK(blk, p) /\ size = Len(f) /\ Along(blk, listhead) = p /\ f \in Seq(Value)
      /\ size \in Nat /\ BlocksOK(blk) /\ Chain(blk, p)
  BY <1>1, HoldsAt DEF Holds
<1>3. From(listhead) = p
  BY <1>2 DEF From
<1>4. IsUpto(blk, p, u) /\ u[Len(p)] = size
  <2>1. IsUpto(blk, p, u)
    BY <1>1, <1>2, UptoIs
  <2>2. QED
    BY <1>1, <1>2, <2>1, FlatAt
<1>5. \A n \in D : n \in 1..size /\ n \in Nat
  BY <1>1, <1>2
<1> DEFINE Body(a) == [n \in k..l - 1 |->
                         IF n = k THEN <<p[m], k - u[m - 1]>>
                         ELSE LET b == a[n - 1][1] IN
                              IF a[n - 1][2] + 1 > blk[b].nused THEN <<blk[b].listnext, 1>>
                                                                ELSE <<b, a[n - 1][2] + 1>>]
<1> DEFINE Of(n) == CHOOSE e : \E x, j : Place(blk, p, u, n, x, j) /\ e = <<p[x], j>>
<1> HIDE DEF Of
<1>6. PICK g : g = [n \in D |-> Of(n)]
  OBVIOUS
<1>7. ASSUME NEW n \in D, NEW x, NEW j, Place(blk, p, u, n, x, j) PROVE g[n] = <<p[x], j>>
  <2>1. \E e, y, i2 : Place(blk, p, u, n, y, i2) /\ e = <<p[y], i2>>
    BY <1>7
  <2>2. PICK y, i2 : Place(blk, p, u, n, y, i2) /\ g[n] = <<p[y], i2>>
    <3>1. g[n] = Of(n)
      BY <1>6
    <3>2. QED
      BY <2>1, <3>1 DEF Of
  <2>3. n \in 1..u[Len(p)]
    BY <1>4, <1>5
  <2>4. y = x /\ i2 = j
    BY <1>2, <1>4, <1>7, <2>2, <2>3, Places
  <2>5. QED
    BY <2>2, <2>4
<1>8. \A n \in D : \E x, j : Place(blk, p, u, n, x, j)
  BY <1>2, <1>4, <1>5, Places
<1>9. ASSUME NEW n \in D, n # k, NEW a, a[n - 1] = g[n - 1] PROVE Body(a)[n] = g[n]
  <2>1. n - 1 \in D /\ n - 1 + 1 = n /\ n - 1 < u[Len(p)]
    BY <1>1, <1>2, <1>4, <1>5, <1>9
  <2>2. PICK x, j : Place(blk, p, u, n - 1, x, j)
    BY <1>8, <2>1
  <2>3. a[n - 1] = <<p[x], j>>
    BY <1>7, <1>9, <2>1, <2>2
  <2>4. PICK b, c : b = p[x] /\ c = a[n - 1]
    OBVIOUS
  <2>5. c[1] = b /\ c[2] = j
    BY <2>3, <2>4
  <2>6. Body(a)[n] = IF c[2] + 1 > blk[c[1]].nused THEN <<blk[c[1]].listnext, 1>>
                                                  ELSE <<c[1], c[2] + 1>>
    BY <1>1, <1>9, <2>4
  <2>7. IF j + 1 > blk[p[x]].nused
          THEN blk[p[x]].listnext = p[x + 1] /\ Place(blk, p, u, n - 1 + 1, x + 1, 1)
          ELSE Place(blk, p, u, n - 1 + 1, x, j + 1)
    BY <1>2, <1>4, <2>1, <2>2, NextPlace
  <2>8. CASE j + 1 > blk[b].nused
    <3>1. blk[b].listnext = p[x + 1] /\ Place(blk, p, u, n, x + 1, 1)
      BY <2>1, <2>4, <2>7, <2>8
    <3>2. g[n] = <<p[x + 1], 1>>
      BY <1>7, <3>1
    <3>3. QED
      BY <2>5, <2>6, <2>8, <3>1, <3>2
  <2>9. CASE ~(j + 1 > blk[b].nused)
    <3>1. Place(blk, p, u, n, x, j + 1)
      BY <2>1, <2>4, <2>7, <2>9
    <3>2. g[n] = <<p[x], j + 1>>
      BY <1>7, <3>1
    <3>3. QED
      BY <2>4, <2>5, <2>6, <2>9, <3>2
  <2>10. QED
    BY <2>8, <2>9
<1>10. ASSUME NEW a PROVE Body(a)[k] = g[k]
  <2>1. k \in D /\ k \in 1..u[Len(p)]
    BY <1>1, <1>4, <1>5
  <2>2. Place(blk, p, u, k, m, k - u[m - 1])
    BY <1>1, <1>2, <1>4, <2>1, Locate
  <2>3. g[k] = <<p[m], k - u[m - 1]>>
    BY <1>7, <2>1, <2>2
  <2>4. QED
    BY <1>1, <2>1, <2>3
<1>11. g = Body(g)
  <2>1. \A n \in D : Body(g)[n] = g[n]
    BY <1>9, <1>10
  <2>2. DOMAIN Body(g) = D /\ Body(g) = [n \in D |-> Body(g)[n]]
    BY <1>1
  <2> HIDE DEF Body
  <2>3. g = [n \in D |-> g[n]]
    BY <1>6
  <2>4. QED
    BY <2>1, <2>2, <2>3
<1>12. PICK a : a = CpAt(p, u, m, k, l)
  OBVIOUS
<1>13. a = Body(a)
  <2>1. a = CHOOSE v : v = Body(v)
    BY <1>12, Zenon DEF CpAt
  <2> HIDE DEF Body
  <2>2. QED
    BY <1>11, <2>1
<1>14. CpSlots(k, l) = [n \in 1..l - k |-> At(a[k + n - 1][1], a[k + n - 1][2] - 1)]
  <2>1. CpSlots(k, l) = CpFrom(p, u, m, k, l)
    BY <1>1, <1>3, CpSlotsAt
  <2>2. QED
    BY <1>12, <2>1, Zenon DEF CpFrom
<1> HIDE DEF Body
<1>15. \A n \in D : a[n] = g[n]
  <2> DEFINE T == {d \in Nat : k + d \in D => a[k + d] = g[k + d]}
  <2>1. 0 \in T
    <3>1. k + 0 = k
      OBVIOUS
    <3>2. a[k] = g[k]
      BY <1>10, <1>13
    <3>3. QED
      BY <3>1, <3>2
  <2>2. ASSUME NEW d \in T PROVE d + 1 \in T
    <3>1. d \in Nat /\ d + 1 \in Nat
      OBVIOUS
    <3>2. SUFFICES ASSUME k + (d + 1) \in D PROVE a[k + (d + 1)] = g[k + (d + 1)]
      BY <3>1
    <3>3. PICK n : n = k + (d + 1)
      OBVIOUS
    <3>4. n \in D /\ n # k /\ n - 1 = k + d /\ n - 1 \in D
      BY <1>1, <3>1, <3>2, <3>3
    <3>5. a[n - 1] = g[n - 1]
      BY <3>4
    <3>6. Body(a)[n] = g[n]
      BY <1>9, <3>4, <3>5
    <3>7. QED
      BY <1>13, <3>3, <3>6
  <2> HIDE DEF T
  <2>3. T = Nat
    <3>1. T \subseteq Nat
      BY DEF T
    <3>2. QED
      BY <2>1, <2>2, <3>1, Inductive
  <2>4. QED
    <3> TAKE n \in D
    <3>1. PICK d : d = n - k
      OBVIOUS
    <3>2. d \in T /\ k + d = n
      BY <1>1, <2>3, <3>1
    <3>3. QED
      BY <3>2 DEF T
<1>16. ASSUME NEW n \in 1..l - k
       PROVE  At(a[k + n - 1][1], a[k + n - 1][2] - 1) = f[k + n - 1] /\ f[k + n - 1] \in Value
  <2>1. PICK c : c = k + n - 1
    OBVIOUS
  <2>2. c \in D
    BY <1>1, <2>1
  <2>3. PICK x, j : Place(blk, p, u, c, x, j)
    BY <1>8, <2>2
  <2>4. a[c] = <<p[x], j>>
    BY <1>7, <1>15, <2>2, <2>3
  <2>5. f[c] = Elem(blk[p[x]], j - 1) /\ f[c] \in Value
    BY <1>1, <1>2, <1>4, <2>3, PlaceAt
  <2>6. QED
    BY <2>1, <2>4, <2>5 DEF At
<1>17. PICK s : s = [n \in 1..l - k |-> f[k + n - 1]]
  OBVIOUS
<1>18. CpSlots(k, l) = s
  BY <1>14, <1>16, <1>17
<1>19. s \in Seq(Value) /\ Len(s) = l - k
  <2>1. l - k \in Nat
    OBVIOUS
  <2>2. \A n \in 1..l - k : f[k + n - 1] \in Value
    BY <1>16
  <2>3. s \in [1..l - k -> Value]
    BY <1>17, <2>2
  <2>4. QED
    BY <2>1, <2>3
<1>20. SubSeq(f, k, l - 1) = s
  <2>1. PICK t : t = SubSeq(f, k, l - 1)
    OBVIOUS
  <2>2. t \in Seq(Value) /\ Len(t) = l - k /\ \A n \in 1..l - k : t[n] = f[k + n - 1]
    BY <1>2, <2>1
  <2>3. t = s
    BY <1>17, <1>19, <2>2, SeqEqual
  <2>4. QED
    BY <2>1, <2>3
<1>21. QED
  BY <1>1, <1>18, <1>19, <1>20

LEMMA SectionHolds ==
  ASSUME NEW p, Holds(blk, listhead, listtail, size, p),
         NEW k \in Nat \ {0}, NEW l \in Nat \ {0}, Section(k, l)
  PROVE  \E q : /\ Holds(blk', listhead', listtail', size', q)
                /\ Flat(blk', q) = SubSeq(Flat(blk, p), k, l - 1)
<1>1. PICK n, N, s, x, f : /\ n = l - k /\ N = (IF n = 0 THEN MinListSlots ELSE n)
                           /\ s = (IF n = 0 THEN NewBlock(N).lslots ELSE CpSlots(k, l))
                           /\ x = [NewBlock(N) EXCEPT !.nused = n, !.lslots = s]
                           /\ f = Flat(blk, p)
  OBVIOUS
<1>2. size \in Nat /\ size = Len(f) /\ f \in Seq(Value)
  BY <1>1, HoldsAt
<1>3. k <= l /\ l <= size + 1 /\ size' = n /\ listhead' = 1 /\ listtail' = 1
  BY <1>1 DEF Section
<1>4. n \in Nat /\ N \in Nat \ {0} /\ n \in 0..N
  BY <1>1, <1>3, SlotsAssumption
<1>5. NewBlock(N).lslots = [m \in 1..N |-> None]
  BY DEF NewBlock, Unused
<1>6. blk' = [b \in Block |-> IF b # 1 THEN Unused ELSE x]
  <2>1. blk' = [b \in Block |->
                  IF b # 1 THEN Unused
                  ELSE [NewBlock(N) EXCEPT !.nused = n, !.lslots = IF n = 0 THEN @ ELSE CpSlots(k, l)]]
    BY <1>1, Zenon DEF Section
  <2>2. [NewBlock(N) EXCEPT !.nused = n, !.lslots = IF n = 0 THEN @ ELSE CpSlots(k, l)] = x
    BY <1>1 DEF NewBlock, Unused
  <2>3. QED
    BY <2>1, <2>2
<1>7. /\ s \in Seq(Value \cup {None}) /\ Len(s) = N
      /\ n # 0 => s \in Seq(Value) /\ s = SubSeq(f, k, l - 1)
  <2>1. CASE n = 0
    <3>1. s = [m \in 1..N |-> None]
      BY <1>1, <1>5, <2>1
    <3>2. QED
      BY <1>4, <2>1, <3>1
  <2>2. CASE n # 0
    <3>1. k < l
      BY <1>1, <1>3, <2>2
    <3>2. s \in Seq(Value) /\ Len(s) = n /\ s = SubSeq(f, k, l - 1)
      BY <1>1, <1>3, <2>2, <3>1, CpSlotsIs
    <3>3. s \in Seq(Value \cup {None})
      BY <3>2
    <3>4. QED
      BY <1>1, <2>2, <3>2, <3>3
  <2>3. QED
    BY <2>1, <2>2
<1>8. \A m \in 1..n : s[m] \in Value
  <2>1. CASE n = 0
    BY <2>1
  <2>2. CASE n # 0
    BY <1>1, <1>4, <1>7, <2>2
  <2>3. QED
    BY <2>1, <2>2
<1>9. /\ BlockOK(x) /\ x.listprev = NULL /\ x.listnext = NULL /\ x.nslots = N
      /\ x.nused = n /\ Len(Elems(x)) = n /\ \A m \in 1..n : Elems(x)[m] = s[m]
  <2>1. Filling(x, N, n, s)
    BY <1>1 DEF Filling
  <2>2. s \in Seq(Value \cup {None}) /\ Len(s) = N
    BY <1>7
  <2>3. QED
    BY <1>4, <1>8, <2>1, <2>2, FilledBlock
<1>10. Holds(blk', 1, 1, x.nused, <<1>>) /\ Flat(blk', <<1>>) = Elems(x)
  <2>1. PICK bs : bs = [b \in Block |-> IF b # 1 THEN Unused ELSE x]
    OBVIOUS
  <2>2. x.nslots # 0
    BY <1>4, <1>9
  <2>3. Holds(bs, 1, 1, x.nused, <<1>>) /\ Flat(bs, <<1>>) = Elems(x)
    BY <1>9, <2>1, <2>2, OneBlock
  <2>4. QED
    BY <1>6, <2>1, <2>3
<1>11. Elems(x) = SubSeq(f, k, l - 1)
  <2>1. PICK t, e : t = SubSeq(f, k, l - 1) /\ e = Elems(x)
    OBVIOUS
  <2>2. e \in Seq(Value) /\ Len(e) = n /\ \A m \in 1..n : e[m] = s[m]
    BY <1>9, <2>1, ElemsType
  <2>3. CASE n = 0
    <3>1. t = <<>>
      BY <1>1, <1>2, <1>3, <2>1, <2>3
    <3>2. e = <<>>
      BY <2>2, <2>3
    <3>3. QED
      BY <2>1, <3>1, <3>2
  <2>4. CASE n # 0
    <3>1. s \in Seq(Value) /\ s = t /\ Len(s) = n
      BY <1>1, <1>7, <2>1, <2>4
    <3>2. e = s
      BY <2>2, <3>1, SeqEqual
    <3>3. QED
      BY <2>1, <3>1, <3>2
  <2>5. QED
    BY <2>3, <2>4
<1>12. QED
  BY <1>1, <1>3, <1>9, <1>10, <1>11

-----------------------------------------------------------------------------
(* The invariant.                                                          *)

\* A suspended !L, in block e at index k.  If it has produced all the first n
\* elements, that is where the nth one is.
BangOK(bs, p, e, k, n) ==
  /\ e \in Pointer /\ k \in Nat /\ n \in Nat
  /\ e = NULL => n = 0
  /\ n # 0 => \E m \in 1..Len(p) : e = p[m] /\ Place(bs, p, Upto(bs, p), n, m, k + 1)

ListInv ==
  LET p == From(listhead) IN
  /\ Holds(blk, listhead, listtail, size, p)
  /\ BangOK(blk, p, ep, i, produced)
  /\ result \in Value \cup {None}

LEMMA ListInvAt ==
  ASSUME ListInv
  PROVE  \E p : /\ Holds(blk, listhead, listtail, size, p)
                /\ BangOK(blk, p, ep, i, produced) /\ result \in Value \cup {None}
                /\ Contents = Flat(blk, p)
<1>1. PICK p : /\ Holds(blk, listhead, listtail, size, p)
               /\ BangOK(blk, p, ep, i, produced) /\ result \in Value \cup {None}
  BY DEF ListInv
<1>2. Contents = Flat(blk, p)
  BY <1>1, HoldsAt DEF Contents
<1>3. QED
  BY <1>1, <1>2

LEMMA ListInvNext ==
  ASSUME NEW p, Holds(blk', listhead', listtail', size', p),
         BangOK(blk', p, ep', i', produced'), result' \in Value \cup {None}
  PROVE  ListInv' /\ Contents' = Flat(blk', p)
<1>1. Along(blk', listhead') = p /\ Elements(blk', listhead') = Flat(blk', p)
  BY HoldsAt
<1>2. From(listhead)' = p /\ Contents' = Flat(blk', p)
  BY <1>1 DEF From, Contents
<1>3. QED
  BY <1>2 DEF ListInv

LEMMA ListInvStays ==
  ASSUME ListInv, UNCHANGED <<list, bang>>, result' \in Value \cup {None}
  PROVE  ListInv' /\ Contents' = Contents
<1>1. PICK p : /\ Holds(blk, listhead, listtail, size, p)
               /\ BangOK(blk, p, ep, i, produced) /\ Contents = Flat(blk, p)
  BY ListInvAt
<1>2. Holds(blk', listhead', listtail', size', p) /\ BangOK(blk', p, ep', i', produced')
  BY <1>1 DEF list, bang
<1>3. ListInv' /\ Contents' = Flat(blk', p)
  BY <1>2, ListInvNext
<1>4. QED
  BY <1>1, <1>3 DEF list

\* Elements keep their places while the chain grows at its tail only.
LEMMA PlaceKept ==
  ASSUME NEW bs, BlocksOK(bs), NEW p, Chain(bs, p), NEW cs, BlocksOK(cs), NEW q, Chain(cs, q),
         Len(q) >= Len(p),
         \A m \in 1..Len(p) : /\ q[m] = p[m] /\ bs[p[m]].nused <= cs[p[m]].nused
                              /\ m # Len(p) => cs[p[m]].nused = bs[p[m]].nused,
         NEW k, NEW m, NEW j, Place(bs, p, Upto(bs, p), k, m, j)
  PROVE  Place(cs, q, Upto(cs, q), k, m, j)
<1>1. PICK K, u, v : K = Len(p) - 1 /\ u = Upto(bs, p) /\ v = Upto(cs, q)
  OBVIOUS
<1>2. IsUpto(bs, p, u) /\ IsUpto(cs, q, v)
  BY <1>1, UptoIs
<1>3. Len(p) \in Nat \ {0} /\ Len(q) \in Nat \ {0}
  BY ChainAt
<1>4. K \in Nat /\ K <= Len(p) /\ K <= Len(q)
  BY <1>1, <1>3
<1>5. \A n \in 1..K : cs[q[n]].nused = bs[p[n]].nused
  <2> TAKE n \in 1..K
  <2>1. n \in 1..Len(p) /\ n # Len(p)
    BY <1>1, <1>3
  <2>2. QED
    BY <2>1
<1>6. \A n \in 0..K : v[n] = u[n]
  BY <1>2, <1>3, <1>4, <1>5, UptoSame
<1>7. /\ m \in 1..Len(p) /\ j \in 1..bs[p[m]].nused /\ bs[p[m]].nused \in Nat
      /\ k = u[m - 1] + j
  BY <1>1, <1>2, PlaceAt
<1>8. m - 1 \in 0..K /\ m \in 1..Len(q)
  BY <1>1, <1>3, <1>7
<1>9. v[m - 1] = u[m - 1]
  BY <1>6, <1>8
<1>10. q[m] = p[m] /\ p[m] \in Block /\ bs[p[m]].nused <= cs[p[m]].nused
  BY <1>7, ChainAt
<1>11. cs[p[m]].nused \in Nat
  BY <1>10, BlockFields DEF BlocksOK
<1>12. j \in 1..cs[q[m]].nused
  BY <1>7, <1>10, <1>11
<1>13. QED
  BY <1>1, <1>7, <1>8, <1>9, <1>12 DEF Place

LEMMA BangKept ==
  ASSUME NEW bs, BlocksOK(bs), NEW p, Chain(bs, p), NEW cs, BlocksOK(cs), NEW q, Chain(cs, q),
         Len(q) >= Len(p),
         \A m \in 1..Len(p) : /\ q[m] = p[m] /\ bs[p[m]].nused <= cs[p[m]].nused
                              /\ m # Len(p) => cs[p[m]].nused = bs[p[m]].nused,
         NEW e, NEW k, NEW n, BangOK(bs, p, e, k, n)
  PROVE  BangOK(cs, q, e, k, n)
<1>1. e \in Pointer /\ k \in Nat /\ n \in Nat /\ (e = NULL => n = 0)
  BY DEF BangOK
<1>2. ASSUME n # 0
      PROVE  \E m \in 1..Len(q) : e = q[m] /\ Place(cs, q, Upto(cs, q), n, m, k + 1)
  <2>1. PICK m \in 1..Len(p) : e = p[m] /\ Place(bs, p, Upto(bs, p), n, m, k + 1)
    BY <1>2 DEF BangOK
  <2>2. Place(cs, q, Upto(cs, q), n, m, k + 1)
    BY <2>1, PlaceKept
  <2>3. m \in 1..Len(q) /\ q[m] = p[m]
    <3>1. Len(p) \in Nat /\ Len(q) \in Nat
      BY ChainAt
    <3>2. QED
      BY <3>1
  <2>4. QED
    BY <2>1, <2>2, <2>3
<1>3. QED
  BY <1>1, <1>2 DEF BangOK

-----------------------------------------------------------------------------
(* The steps, each with what it does to the sequence.                      *)

LEMMA NoBang ==
  ASSUME NEW bs, NEW p, NEW e \in Pointer, NEW k \in Nat
  PROVE  BangOK(bs, p, e, k, 0)
BY DEF BangOK

LEMMA PushStep ==
  ASSUME ListInv, NEW v \in Value, Push(v)
  PROVE  ListInv' /\ Sequence!Push(v)
<1>1. PICK p : /\ Holds(blk, listhead, listtail, size, p)
               /\ BangOK(blk, p, ep, i, produced) /\ Contents = Flat(blk, p)
  BY ListInvAt
<1>2. PICK q : /\ Holds(blk', listhead', listtail', size', q)
               /\ Flat(blk', q) = <<v>> \o Flat(blk, p)
  BY <1>1, PushHolds
<1>3. ep' = ep /\ i' = i /\ produced' = 0 /\ result' = None
  BY DEF Push
<1>4. ep \in Pointer /\ i \in Nat
  BY <1>1 DEF BangOK
<1>5. BangOK(blk', q, ep', i', produced')
  BY <1>3, <1>4, NoBang
<1>6. ListInv' /\ Contents' = Flat(blk', q)
  BY <1>2, <1>3, <1>5, ListInvNext
<1>7. QED
  BY <1>1, <1>2, <1>3, <1>6 DEF Sequence!Push

LEMMA PutStep ==
  ASSUME ListInv, NEW v \in Value, Put(v)
  PROVE  ListInv' /\ Sequence!Put(v)
<1>1. PICK p : /\ Holds(blk, listhead, listtail, size, p)
               /\ BangOK(blk, p, ep, i, produced) /\ Contents = Flat(blk, p)
  BY ListInvAt
<1>2. PICK q : /\ Holds(blk', listhead', listtail', size', q)
               /\ Flat(blk', q) = Append(Flat(blk, p), v)
               /\ Len(q) >= Len(p)
               /\ \A m \in 1..Len(p) : /\ q[m] = p[m] /\ blk[p[m]].nused <= blk'[p[m]].nused
                                       /\ m # Len(p) => blk'[p[m]].nused = blk[p[m]].nused
  BY <1>1, PutHolds
<1>3. ep' = ep /\ i' = i /\ produced' = produced /\ result' = None
  BY DEF Put, bang
<1>4. BlocksOK(blk) /\ Chain(blk, p) /\ BlocksOK(blk') /\ Chain(blk', q)
  BY <1>1, <1>2, HoldsAt
<1>5. BangOK(blk', q, ep, i, produced)
  BY <1>1, <1>2, <1>4, BangKept
<1>6. ListInv' /\ Contents' = Flat(blk', q)
  BY <1>2, <1>3, <1>5, ListInvNext
<1>7. QED
  BY <1>1, <1>2, <1>3, <1>6 DEF Sequence!Put

LEMMA GetStep ==
  ASSUME ListInv, Get
  PROVE  ListInv' /\ Sequence!Get
<1>1. PICK p : /\ Holds(blk, listhead, listtail, size, p) /\ size \in Nat
               /\ BangOK(blk, p, ep, i, produced) /\ Contents = Flat(blk, p)
               /\ size = Len(Contents) /\ Contents \in Seq(Value)
  BY ListInvAt, HoldsAt
<1>2. CASE size <= 0
  <2>1. result' = None /\ UNCHANGED <<list, bang>>
    BY <1>2, <1>1 DEF Get
  <2>2. ListInv' /\ Contents' = Contents
    BY <2>1, ListInvStays
  <2>3. Contents = <<>>
    BY <1>1, <1>2
  <2>4. QED
    BY <2>1, <2>2, <2>3 DEF Sequence!Get
<1>3. CASE size > 0
  <2>1. PICK q : /\ Holds(blk', listhead', listtail', size', q)
                 /\ Flat(blk, p) = <<result'>> \o Flat(blk', q) /\ result' \in Value
    BY <1>1, <1>3, GetHolds
  <2>2. ep' = ep /\ i' = i /\ produced' = 0
    BY <1>1, <1>3 DEF Get
  <2>3. ep \in Pointer /\ i \in Nat
    BY <1>1 DEF BangOK
  <2>4. BangOK(blk', q, ep', i', produced')
    BY <2>2, <2>3, NoBang
  <2>5. ListInv' /\ Contents' = Flat(blk', q)
    BY <2>1, <2>4, ListInvNext
  <2>6. Contents' \in Seq(Value)
    BY <2>1, <2>5, HoldsAt
  <2>7. Contents = <<result'>> \o Contents'
    BY <1>1, <2>1, <2>5
  <2>8. Contents # <<>> /\ Contents' = Tail(Contents) /\ result' = Head(Contents)
    <3>1. ASSUME NEW r \in Value, NEW c \in Seq(Value), NEW d, d = <<r>> \o c
          PROVE  d # <<>> /\ c = Tail(d) /\ r = Head(d)
      <4>1. Len(d) = Len(c) + 1 /\ d \in Seq(Value) /\ Len(c) \in Nat
        BY <3>1
      <4>2. Tail(d) \in Seq(Value) /\ Len(Tail(d)) = Len(c)
        BY <4>1
      <4>3. \A m \in 1..Len(c) : c[m] = Tail(d)[m]
        BY <3>1, <4>1
      <4>4. c = Tail(d)
        BY <4>2, <4>3, SeqEqual
      <4>5. QED
        BY <3>1, <4>1, <4>4
    <3>2. QED
      BY <2>1, <2>6, <2>7, <3>1
  <2>9. QED
    BY <2>5, <2>8 DEF Sequence!Get
<1>4. QED
  BY <1>1, <1>2, <1>3

LEMMA PullStep ==
  ASSUME ListInv, Pull
  PROVE  ListInv' /\ Sequence!Pull
<1>1. PICK p : /\ Holds(blk, listhead, listtail, size, p) /\ size \in Nat
               /\ BangOK(blk, p, ep, i, produced) /\ Contents = Flat(blk, p)
               /\ size = Len(Contents) /\ Contents \in Seq(Value)
  BY ListInvAt, HoldsAt
<1>2. CASE size <= 0
  <2>1. result' = None /\ UNCHANGED <<list, bang>>
    BY <1>2, <1>1 DEF Pull
  <2>2. ListInv' /\ Contents' = Contents
    BY <2>1, ListInvStays
  <2>3. Contents = <<>>
    BY <1>1, <1>2
  <2>4. QED
    BY <2>1, <2>2, <2>3 DEF Sequence!Pull
<1>3. CASE size > 0
  <2>1. PICK q : /\ Holds(blk', listhead', listtail', size', q)
                 /\ Flat(blk, p) = Append(Flat(blk', q), result') /\ result' \in Value
    BY <1>1, <1>3, PullHolds
  <2>2. ep' = ep /\ i' = i /\ produced' = 0
    BY <1>1, <1>3 DEF Pull
  <2>3. ep \in Pointer /\ i \in Nat
    BY <1>1 DEF BangOK
  <2>4. BangOK(blk', q, ep', i', produced')
    BY <2>2, <2>3, NoBang
  <2>5. ListInv' /\ Contents' = Flat(blk', q)
    BY <2>1, <2>4, ListInvNext
  <2>6. Contents' \in Seq(Value)
    BY <2>1, <2>5, HoldsAt
  <2>7. Contents = Append(Contents', result')
    BY <1>1, <2>1, <2>5
  <2>8. Contents # <<>> /\ Contents' = Front(Contents) /\ result' = Last(Contents)
    <3>1. ASSUME NEW r \in Value, NEW c \in Seq(Value), NEW d, d = Append(c, r)
          PROVE  d # <<>> /\ c = Front(d) /\ r = Last(d)
      <4>1. Len(d) = Len(c) + 1 /\ d \in Seq(Value) /\ Len(c) \in Nat
        BY <3>1
      <4>2. Front(d) \in Seq(Value) /\ Len(Front(d)) = Len(c)
        BY <4>1 DEF Front
      <4>3. \A m \in 1..Len(c) : c[m] = Front(d)[m]
        BY <3>1, <4>1 DEF Front
      <4>4. c = Front(d)
        BY <4>2, <4>3, SeqEqual
      <4>5. QED
        BY <3>1, <4>1, <4>4 DEF Last
    <3>2. QED
      BY <2>1, <2>6, <2>7, <3>1
  <2>9. QED
    BY <2>5, <2>8 DEF Sequence!Pull, Sequence!Front, Sequence!Last, Front, Last
<1>4. QED
  BY <1>1, <1>2, <1>3

LEMMA AssignStep ==
  ASSUME ListInv, NEW k \in Nat \ {0}, NEW v \in Value, Assign(k, v)
  PROVE  ListInv' /\ k \in 1..Len(Contents) /\ Sequence!Assign(k, v)
<1>1. PICK p : /\ Holds(blk, listhead, listtail, size, p)
               /\ BangOK(blk, p, ep, i, produced) /\ Contents = Flat(blk, p)
               /\ size = Len(Contents)
  BY ListInvAt, HoldsAt
<1>2. /\ Holds(blk', listhead', listtail', size', p) /\ k \in 1..size
      /\ Flat(blk', p) = [Flat(blk, p) EXCEPT ![k] = v]
      /\ \A b \in Block : blk'[b].nused = blk[b].nused
  BY <1>1, AssignHolds
<1>3. ep' = ep /\ i' = i /\ produced' = produced /\ result' = None
  BY DEF Assign, bang
<1>4. /\ BlocksOK(blk) /\ Chain(blk, p) /\ BlocksOK(blk') /\ Chain(blk', p)
      /\ Len(p) \in Nat
  BY <1>1, <1>2, HoldsAt
<1>5. BangOK(blk', p, ep, i, produced)
  <2>1. \A m \in 1..Len(p) : blk[p[m]].nused \in Nat
    <3> TAKE m \in 1..Len(p)
    <3>1. p[m] \in Block
      BY <1>4, ChainAt
    <3>2. QED
      BY <1>4, <3>1, BlockFields DEF BlocksOK
  <2>2. \A m \in 1..Len(p) : /\ p[m] = p[m] /\ blk[p[m]].nused <= blk'[p[m]].nused
                             /\ m # Len(p) => blk'[p[m]].nused = blk[p[m]].nused
    <3> TAKE m \in 1..Len(p)
    <3>1. p[m] \in Block /\ blk[p[m]].nused \in Nat
      BY <1>4, <2>1, ChainAt
    <3>2. blk'[p[m]].nused = blk[p[m]].nused
      BY <1>2, <3>1
    <3>3. QED
      BY <3>1, <3>2
  <2>3. Len(p) >= Len(p)
    BY <1>4
  <2>4. QED
    BY <1>1, <1>4, <2>2, <2>3, BangKept
<1>6. ListInv' /\ Contents' = Flat(blk', p)
  BY <1>2, <1>3, <1>5, ListInvNext
<1>7. QED
  BY <1>1, <1>2, <1>3, <1>6 DEF Sequence!Assign

LEMMA SectionStep ==
  ASSUME ListInv, NEW k \in Nat \ {0}, NEW l \in Nat \ {0}, Section(k, l)
  PROVE  /\ ListInv' /\ Sequence!Section(k, l)
         /\ k \in 1..Len(Contents) + 1 /\ l \in 1..Len(Contents) + 1 /\ k <= l
<1>1. PICK p : /\ Holds(blk, listhead, listtail, size, p) /\ size \in Nat
               /\ BangOK(blk, p, ep, i, produced) /\ Contents = Flat(blk, p)
               /\ size = Len(Contents)
  BY ListInvAt, HoldsAt
<1>2. PICK q : /\ Holds(blk', listhead', listtail', size', q)
               /\ Flat(blk', q) = SubSeq(Flat(blk, p), k, l - 1)
  BY <1>1, SectionHolds
<1>3. /\ ep = NULL /\ ep' = ep /\ i' = i /\ produced' = produced /\ result' = None
      /\ k <= l /\ l <= size + 1
  BY DEF Section, Idle, bang
<1>4. ep \in Pointer /\ i \in Nat /\ produced = 0
  BY <1>1, <1>3 DEF BangOK
<1>5. BangOK(blk', q, ep', i', produced')
  BY <1>3, <1>4, NoBang
<1>6. ListInv' /\ Contents' = Flat(blk', q)
  BY <1>2, <1>3, <1>5, ListInvNext
<1>7. k \in 1..Len(Contents) + 1 /\ l \in 1..Len(Contents) + 1
  BY <1>1, <1>3
<1>8. QED
  BY <1>1, <1>2, <1>3, <1>6, <1>7 DEF Sequence!Section

LEMMA BangDone ==
  ASSUME NEW p, Holds(blk, listhead, listtail, size, p), Produce \/ BangAbandon,
         BangOK(blk, p, ep', i', produced'), result' \in Value \cup {None}
  PROVE  ListInv' /\ Contents' = Flat(blk, p)
<1>1. PICK cs, S : S = {listhead', listtail', ep'} /\ cs = Collected(blk, S)
  OBVIOUS
<1>2. listhead' = listhead /\ listtail' = listtail /\ size' = size /\ blk' = cs
  BY <1>1 DEF Produce, BangAbandon, SetBlocks
<1>3. listhead \in S
  BY <1>1, <1>2
<1>4. /\ Holds(cs, listhead, listtail, size, p) /\ Flat(cs, p) = Flat(blk, p)
      /\ \A m \in 1..Len(p) : cs[p[m]].nused = blk[p[m]].nused
  BY <1>1, <1>3, CollectedHolds
<1>5. /\ BlocksOK(blk) /\ Chain(blk, p) /\ BlocksOK(cs) /\ Chain(cs, p) /\ Len(p) \in Nat
  BY <1>4, HoldsAt
<1>6. BangOK(cs, p, ep', i', produced')
  <2>1. \A m \in 1..Len(p) : p[m] \in Block
    BY <1>5, ChainAt
  <2>2. \A b \in Block : blk[b].nused \in Nat
    BY <1>5, BlockFields DEF BlocksOK
  <2>3. \A m \in 1..Len(p) : blk[p[m]].nused \in Nat
    BY <2>1, <2>2
  <2>4. \A m \in 1..Len(p) : /\ p[m] = p[m] /\ blk[p[m]].nused <= cs[p[m]].nused
                             /\ m # Len(p) => cs[p[m]].nused = blk[p[m]].nused
    BY <1>4, <2>3
  <2>5. Len(p) >= Len(p)
    BY <1>5
  <2>6. QED
    BY <1>5, <2>4, <2>5, BangKept
<1>7. QED
  BY <1>2, <1>4, <1>6, ListInvNext

LEMMA BangStep ==
  ASSUME ListInv, BangStart \/ BangResume
  PROVE  /\ ListInv' /\ Sequence!Read
         /\ BangStart \/ produced > 0
              => result' = IF produced < size THEN Contents[produced + 1] ELSE None
<1>1. PICK p : /\ Holds(blk, listhead, listtail, size, p) /\ size \in Nat
               /\ BangOK(blk, p, ep, i, produced) /\ Contents = Flat(blk, p)
               /\ size = Len(Contents) /\ Contents \in Seq(Value)
               /\ BlocksOK(blk) /\ Chain(blk, p) /\ listhead \in Block /\ p[1] = listhead
               /\ Len(p) \in Nat \ {0}
  BY ListInvAt, HoldsAt DEF Holds
<1>2. PICK u : u = Upto(blk, p) /\ IsUpto(blk, p, u)
  BY <1>1, UptoIs
<1>3. /\ Produce /\ (result' = IF ep' = NULL THEN None ELSE At(ep', i'))
      /\ ep \in Pointer /\ i \in Nat /\ produced \in Nat /\ (ep = NULL => produced = 0)
  BY <1>1 DEF BangStart, BangResume, Produce, BangOK
<1>4. PICK b, start : BangTo(b, start) /\ b \in Pointer /\ start \in Nat
  <2>1. CASE BangStart
    <3>1. BangTo(listhead, 0) /\ listhead \in Pointer /\ 0 \in Nat
      BY <1>1, <2>1 DEF BangStart, Pointer
    <3>2. QED
      BY <3>1
  <2>2. CASE BangResume
    <3>1. BangTo(ep, i + 1) /\ i + 1 \in Nat
      BY <1>3, <2>2 DEF BangResume
    <3>2. QED
      BY <1>3, <3>1
  <2>3. QED
    BY <2>1, <2>2
<1>5. /\ ep' \in Pointer /\ i' \in Nat /\ (ep' # NULL => ep' \in Block /\ i' < blk[ep'].nused)
  BY <1>1, <1>4, BangStays
<1>6. ASSUME NEW r \in Value, NEW k \in 1..size, r = Flat(blk, p)[k]
      PROVE  r \in ToSet(Contents)
  BY <1>1, <1>6 DEF ToSet
<1>7. result' \in Value \cup {None} /\ result' \in ToSet(Contents) \cup {None}
  <2>1. CASE ep' = NULL
    BY <1>3, <2>1
  <2>2. CASE ep' # NULL
    <3>1. At(ep', i') \in Value /\ \E k \in 1..size : At(ep', i') = Flat(blk, p)[k]
      BY <1>1, <1>5, <2>2, ElementIn
    <3>2. QED
      BY <1>3, <1>6, <2>2, <3>1
  <2>3. QED
    BY <2>1, <2>2
<1>8. ASSUME NEW m \in 1..Len(p), NEW j \in 0..blk[p[m]].nused, BangTo(p[m], j),
             produced = u[m - 1] + j, produced' = IF ep' = NULL THEN 0 ELSE produced + 1
      PROVE  /\ BangOK(blk, p, ep', i', produced')
             /\ result' = IF produced < size THEN Contents[produced + 1] ELSE None
  <2>1. /\ produced < size
             => \E n \in 1..Len(p) : ep' = p[n] /\ Place(blk, p, u, produced + 1, n, i' + 1)
        /\ produced >= size => ep' = NULL
    BY <1>1, <1>2, <1>8, BangGoes
  <2>2. CASE produced < size
    <3>1. PICK n \in 1..Len(p) : ep' = p[n] /\ Place(blk, p, u, produced + 1, n, i' + 1)
      BY <2>1, <2>2
    <3>3. PICK k : k = i' /\ k \in Nat /\ k + 1 - 1 = k
      BY <1>5
    <3>2. Contents[produced + 1] = Elem(blk[p[n]], i') /\ p[n] \in Block
      <4>1. PICK d, at : d = produced + 1 /\ at = k + 1 /\ at - 1 = k
        BY <3>3
      <4>2. Place(blk, p, u, d, n, at)
        BY <3>1, <3>3, <4>1
      <4>3. Flat(blk, p)[d] = Elem(blk[p[n]], at - 1) /\ p[n] \in Block
        BY <1>1, <1>2, <4>2, PlaceAt
      <4>4. QED
        BY <1>1, <3>3, <4>1, <4>3
    <3>4. ep' # NULL
      BY <3>1, <3>2 DEF Block, NULL
    <3>5. result' = Contents[produced + 1]
      BY <1>3, <3>1, <3>2, <3>4 DEF At
    <3>6. produced' = produced + 1 /\ produced + 1 \in Nat
      BY <1>3, <1>8, <3>4
    <3>7. BangOK(blk, p, ep', i', produced + 1)
      BY <1>2, <1>5, <3>1, <3>4, <3>6 DEF BangOK
    <3>8. QED
      BY <2>2, <3>5, <3>6, <3>7
  <2>3. CASE ~(produced < size)
    <3>1. ep' = NULL
      BY <1>1, <1>3, <2>1, <2>3
    <3>2. produced' = 0 /\ result' = None
      BY <1>3, <1>8, <3>1
    <3>3. QED
      BY <1>5, <2>3, <3>2, NoBang
  <2>4. QED
    BY <2>2, <2>3
<1>9. /\ BangOK(blk, p, ep', i', produced')
      /\ BangStart \/ produced > 0
           => result' = IF produced < size THEN Contents[produced + 1] ELSE None
  <2>1. CASE BangStart
    <3>1. ep = NULL /\ BangTo(p[1], 0) /\ produced' = IF ep' = NULL THEN 0 ELSE 1
      BY <1>1, <2>1 DEF BangStart, Idle
    <3>2. u[1 - 1] = 0
      BY <1>2 DEF IsUpto
    <3>3. produced = 0 /\ produced = u[1 - 1] + 0
      BY <1>3, <3>1, <3>2
    <3>4. 1 \in 1..Len(p) /\ 0 \in 0..blk[p[1]].nused
      <4>1. blk[p[1]].nused \in Nat
        BY <1>1, BlockFields DEF BlocksOK
      <4>2. QED
        BY <1>1, <4>1
    <3>5. produced' = IF ep' = NULL THEN 0 ELSE produced + 1
      BY <3>1, <3>3
    <3>6. QED
      BY <1>8, <3>1, <3>3, <3>4, <3>5
  <2>2. CASE BangResume /\ produced > 0
    <3>1. PICK m \in 1..Len(p) : ep = p[m] /\ Place(blk, p, u, produced, m, i + 1)
      BY <1>1, <1>2, <2>2 DEF BangOK
    <3>2. i + 1 \in 1..blk[p[m]].nused /\ produced = u[m - 1] + (i + 1)
      BY <3>1 DEF Place
    <3>3. i + 1 \in 0..blk[p[m]].nused
      BY <1>3, <3>2
    <3>4. BangTo(p[m], i + 1) /\ produced' = IF ep' = NULL THEN 0 ELSE produced + 1
      BY <2>2, <3>1, <1>3 DEF BangResume
    <3>5. QED
      BY <1>8, <3>2, <3>3, <3>4
  <2>3. CASE BangResume /\ produced = 0
    <3>1. produced' = 0
      BY <2>3 DEF BangResume
    <3>2. ~BangStart
      BY <2>3 DEF BangStart, BangResume
    <3>3. QED
      BY <1>5, <2>3, <3>1, <3>2, NoBang
  <2>4. QED
    BY <1>3, <2>1, <2>2, <2>3
<1>10. ListInv' /\ Contents' = Flat(blk, p)
  BY <1>1, <1>3, <1>7, <1>9, BangDone
<1>11. Sequence!Read
  BY <1>1, <1>7, <1>10 DEF Sequence!Read, Sequence!ToSet, ToSet
<1>12. QED
  BY <1>9, <1>10, <1>11

LEMMA AbandonStep ==
  ASSUME ListInv, BangAbandon
  PROVE  ListInv' /\ Sequence!Read
<1>1. PICK p : /\ Holds(blk, listhead, listtail, size, p) /\ Contents = Flat(blk, p)
  BY ListInvAt
<1>2. ep' = NULL /\ i' = 0 /\ produced' = 0 /\ result' = None
  BY DEF BangAbandon
<1>3. NULL \in Pointer /\ 0 \in Nat
  BY DEF Pointer
<1>4. BangOK(blk, p, ep', i', produced')
  BY <1>2, <1>3, NoBang
<1>5. ListInv' /\ Contents' = Flat(blk, p)
  BY <1>1, <1>2, <1>4, BangDone
<1>6. QED
  BY <1>1, <1>2, <1>5 DEF Sequence!Read

LEMMA ListInit ==
  ASSUME "lconcat" \notin MadeBy, Init
  PROVE  ListInv /\ Sequence!Init
<1> DEFINE Slots(n, op) == IF n = 0 /\ op = "list" THEN MinListSlots ELSE n
<1>0. \E n \in 0..MaxMade, op \in MadeBy, v \in Value :
           /\ size = n
           /\ blk = [b \in Block |->
                       IF b # 1 THEN Unused
                       ELSE [NewBlock(Slots(n, op)) EXCEPT
                               !.nused = n,
                               !.lslots = [s \in 1..Slots(n, op) |-> IF s <= n THEN v ELSE None]]]
  BY Zenon DEF Init
<1>1. PICK n \in 0..MaxMade, op \in MadeBy, v \in Value :
           /\ size = n
           /\ blk = [b \in Block |->
                       IF b # 1 THEN Unused
                       ELSE [NewBlock(Slots(n, op)) EXCEPT
                               !.nused = n,
                               !.lslots = [s \in 1..Slots(n, op) |-> IF s <= n THEN v ELSE None]]]
  BY <1>0, Zenon
<1> DEFINE N == Slots(n, op)
<1>2. n \in Nat /\ N \in Nat \ {0} /\ n \in 0..N
  <2>1. op = "list"
    BY <1>1, MadeByAssumption
  <2>2. n \in Nat
    <3>1. n \in 0..MaxMade
      BY <1>1, Zenon
    <3>2. MaxMade \in Nat
      BY BoundsAssumption
    <3>3. QED
      BY <3>1, <3>2
  <2>3. CASE n = 0
    <3>1. N = MinListSlots
      BY <2>1, <2>3
    <3>2. QED
      BY <2>3, <3>1, SlotsAssumption
  <2>4. CASE n # 0
    <3>1. N = n
      BY <2>4
    <3>2. QED
      BY <2>2, <2>4, <3>1
  <2>5. QED
    BY <2>3, <2>4
<1> HIDE DEF N
<1>3. PICK s : s = [m \in 1..N |-> IF m <= n THEN v ELSE None]
  OBVIOUS
<1>4. s \in Seq(Value \cup {None}) /\ Len(s) = N
  <2>1. s \in [1..N -> Value \cup {None}]
    BY <1>1, <1>3
  <2>2. QED
    BY <1>2, <1>3, <2>1
<1>5. \A m \in 1..n : s[m] \in Value
  <2>1. v \in Value
    BY <1>1, Zenon
  <2>2. QED
    BY <1>2, <1>3, <2>1
<1>6. PICK x : Filling(x, N, n, s)
  BY DEF Filling
<1>7. blk = [b \in Block |-> IF b # 1 THEN Unused ELSE x]
  BY <1>1, <1>3, <1>6 DEF Filling, N
<1>8. /\ BlockOK(x) /\ x.listprev = NULL /\ x.listnext = NULL /\ x.nslots = N
      /\ x.nused = n /\ Len(Elems(x)) = n /\ \A m \in 1..n : Elems(x)[m] = s[m]
  BY <1>2, <1>4, <1>5, <1>6, FilledBlock
<1>9. Holds(blk, 1, 1, x.nused, <<1>>)
  BY <1>2, <1>7, <1>8, OneBlock
<1>10. listhead = 1 /\ listtail = 1 /\ ep = NULL /\ i = 0 /\ produced = 0 /\ result = None
  BY DEF Init
<1>11. PICK p : p = <<1>>
  OBVIOUS
<1>12. Holds(blk, listhead, listtail, size, p)
  BY <1>1, <1>8, <1>9, <1>10, <1>11
<1>13. BangOK(blk, p, ep, i, produced)
  <2>1. NULL \in Pointer /\ 0 \in Nat
    BY DEF Pointer
  <2>2. QED
    BY <1>10, <2>1, NoBang
<1>14. From(listhead) = p /\ Contents \in Seq(Value)
  <2>1. Along(blk, listhead) = p /\ Elements(blk, listhead) \in Seq(Value)
    BY <1>12, HoldsAt
  <2>2. QED
    BY <2>1 DEF From, Contents
<1>15. ListInv
  BY <1>10, <1>12, <1>13, <1>14 DEF ListInv
<1>16. QED
  BY <1>10, <1>14, <1>15 DEF Sequence!Init

LEMMA ListStep ==
  ASSUME ListInv, [Next]_vars
  PROVE  /\ ListInv' /\ [Sequence!Next]_(Sequence!vars)
         /\ BangStart \/ (BangResume /\ produced > 0) =>
              result' = IF produced < size THEN Contents[produced + 1] ELSE None
<1>1. ASSUME BangStart \/ BangResume
      PROVE  /\ ListInv' /\ Sequence!Next
             /\ BangStart \/ produced > 0
                  => result' = IF produced < size THEN Contents[produced + 1] ELSE None
  BY <1>1, BangStep DEF Sequence!Next
<1>2. ListInv' /\ [Sequence!Next]_(Sequence!vars)
  <2>1. ASSUME NEW v \in Value, Push(v) PROVE ListInv' /\ Sequence!Next
    BY <2>1, PushStep DEF Sequence!Next
  <2>2. ASSUME NEW v \in Value, Put(v) PROVE ListInv' /\ Sequence!Next
    BY <2>2, PutStep DEF Sequence!Next
  <2>3. CASE Get
    BY <2>3, GetStep DEF Sequence!Next
  <2>4. CASE Pull
    BY <2>4, PullStep DEF Sequence!Next
  <2>5. ASSUME NEW k \in 1..MaxSize, NEW v \in Value, Assign(k, v)
        PROVE  ListInv' /\ Sequence!Next
    <3>1. k \in Nat \ {0}
      BY BoundsAssumption
    <3>2. ListInv' /\ k \in 1..Len(Contents) /\ Sequence!Assign(k, v)
      BY <2>5, <3>1, AssignStep
    <3>3. QED
      BY <3>2 DEF Sequence!Next
  <2>6. ASSUME NEW k \in 1..MaxSize + 1, NEW l \in 1..MaxSize + 1, Section(k, l)
        PROVE  ListInv' /\ Sequence!Next
    <3>1. k \in Nat \ {0} /\ l \in Nat \ {0}
      BY BoundsAssumption
    <3>2. /\ ListInv' /\ Sequence!Section(k, l)
          /\ k \in 1..Len(Contents) + 1 /\ l \in 1..Len(Contents) + 1 /\ k <= l
      BY <2>6, <3>1, SectionStep
    <3>3. QED
      BY <3>2 DEF Sequence!Next
  <2>7. CASE BangAbandon
    BY <2>7, AbandonStep DEF Sequence!Next
  <2>8. CASE UNCHANGED vars
    <3>1. UNCHANGED <<list, bang>> /\ result' = result
      BY <2>8 DEF vars
    <3>2. result \in Value \cup {None}
      BY ListInvAt
    <3>3. ListInv' /\ Contents' = Contents
      BY <3>1, <3>2, ListInvStays
    <3>4. QED
      BY <3>1, <3>3 DEF Sequence!vars
  <2>9. QED
    BY <1>1, <2>1, <2>2, <2>3, <2>4, <2>5, <2>6, <2>7, <2>8 DEF Next
<1>3. QED
  BY <1>1, <1>2

LEMMA ListInvSound ==
  ASSUME ListInv
  PROVE  BlocksSound
<1>1. PICK p : /\ Holds(blk, listhead, listtail, size, p) /\ From(listhead) = p
               /\ BangOK(blk, p, ep, i, produced) /\ result \in Value \cup {None}
  BY DEF ListInv
<1>2. /\ size \in Nat /\ BlocksOK(blk) /\ Chain(blk, p) /\ listhead \in Block
      /\ listtail \in Block /\ p[1] = listhead /\ p[Len(p)] = listtail
      /\ p \in Seq(Block) /\ Len(p) \in Nat \ {0}
  BY <1>1, HoldsAt DEF Holds, Chain
<1>3. TypeOK
  <2>1. ep \in Block \cup {NULL}
    BY <1>1 DEF BangOK, Pointer
  <2>2. ASSUME NEW b \in Block
        PROVE  LET x == blk[b] IN
               /\ {x.listprev, x.listnext} \subseteq Block \cup {NULL}
               /\ {x.nslots, x.nused} \subseteq Nat
               /\ x.first \in 0..x.nslots
               /\ x.nused <= x.nslots
               /\ x.lslots \in Seq(Value \cup {None}) /\ Len(x.lslots) = x.nslots
    <3>1. BlockOK(blk[b]) /\ blk[b] \in BlockType
      BY <1>2 DEF BlocksOK, BlockOK
    <3>2. QED
      BY <3>1 DEF BlockOK, BlockType, Pointer
  <2>3. QED
    BY <1>1, <1>2, <2>1, <2>2 DEF TypeOK
<1>4. EndsHoldElements
  <2> SUFFICES ASSUME size > 0, NEW b \in {HeadInUse, TailInUse}
               PROVE  b # NULL /\ blk[b].nused > 0
    BY DEF EndsHoldElements
  <2>1. /\ blk[listhead].nused \in Nat /\ blk[listtail].nused \in Nat
        /\ \A c \in Block : c # NULL
    BY <1>2, BlockFields DEF BlocksOK, Block, NULL
  <2>2. /\ blk[listhead].nused = 0 => blk[listhead].listnext \in Block
                                      /\ blk[blk[listhead].listnext].nused > 0
        /\ blk[listtail].nused = 0 => blk[listtail].listprev \in Block
                                      /\ blk[blk[listtail].listprev].nused > 0
    BY <1>1, Ends
  <2>3. CASE b = HeadInUse
    BY <1>2, <2>1, <2>2, <2>3 DEF HeadInUse
  <2>4. CASE b = TailInUse
    BY <1>2, <2>1, <2>2, <2>4 DEF TailInUse
  <2>5. QED
    BY <2>3, <2>4
<1>5. LinksAgree
  <2>1. Last(p) = listtail
    BY <1>2 DEF Last
  <2>2. blk[listhead].listprev = NULL /\ \A m \in 2..Len(p) : blk[p[m]].listprev = p[m - 1]
    BY <1>2, ChainAt
  <2>3. QED
    BY <1>1, <2>1, <2>2 DEF LinksAgree
<1>6. QED
  BY <1>3, <1>4, <1>5 DEF BlocksSound

-----------------------------------------------------------------------------
(* What holds of every list that [...], list() or a section has made.  The *)
(* block of an empty concatenation has no slot, and is treated by TLC.     *)

\* ListInv holds in every state.
THEOREM ListInvariant == ASSUME "lconcat" \notin MadeBy PROVE Spec => []ListInv
<1>1. Init => ListInv
  BY ListInit
<1>2. ListInv /\ [Next]_vars => ListInv'
  BY ListStep
<1>3. QED
  BY <1>1, <1>2, PTL DEF Spec

\* The blocks are what every operation supposes: the two chains agree, and get
\* and pull find an element in the block that they take from.
THEOREM ListsSound == ASSUME "lconcat" \notin MadeBy PROVE Spec => []BlocksSound
<1>1. ListInv => BlocksSound
  BY ListInvSound
<1>2. QED
  BY <1>1, ListInvariant, PTL

\* While only puts change the list, !L produces all its elements in order,
\* whatever the blocks are that it goes through.
THEOREM BangProducesAll == ASSUME "lconcat" \notin MadeBy PROVE Spec => BangInOrder
<1>1. Init => ListInv
  BY ListInit
<1>2. ListInv /\ [Next]_vars => ListInv'
  BY ListStep
<1>3. ListInv /\ [Next]_vars =>
        [BangStart \/ (BangResume /\ produced > 0) =>
           result' = IF produced < size THEN Contents[produced + 1] ELSE None]_vars
  BY ListStep
<1>4. QED
  BY <1>1, <1>2, <1>3, PTL DEF Spec, BangInOrder

\* Whatever blocks are added and dropped, the program sees a sequence that grows
\* and shrinks at its ends.
THEOREM ListsImplementDeque == ASSUME "lconcat" \notin MadeBy PROVE Spec => ImplementsDeque
<1>1. Init => ListInv /\ Sequence!Init
  BY ListInit
<1>2. ListInv /\ [Next]_vars => ListInv' /\ [Sequence!Next]_(Sequence!vars)
  BY ListStep
<1>3. QED
  BY <1>1, <1>2, PTL DEF Spec, ImplementsDeque, Sequence!Spec
=============================================================================
