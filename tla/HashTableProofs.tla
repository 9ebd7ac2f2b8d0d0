-------------------------- MODULE HashTableProofs --------------------------
(***************************************************************************)
(* Proofs about HashTable, for any keys, hash function, loading factors    *)
(* and number of segments.                                                 *)
(***************************************************************************)
EXTENDS HashTable, ProofLemmas, FiniteSetTheorems

-----------------------------------------------------------------------------
(* Remainders.                                                             *)

LEMMA DivMod ==
  ASSUME NEW h \in Nat, NEW n \in Nat \ {0}
  PROVE  /\ h \div n \in Nat /\ h % n \in 0..n - 1
         /\ h = (h \div n) * n + (h % n)
  OBVIOUS

LEMMA Multiple ==
  ASSUME NEW a \in Int, NEW n \in Nat, a >= 1
  PROVE  a * n >= n /\ a * n \in Int
  OBVIOUS

LEMMA DivModUnique ==
  ASSUME NEW n \in Nat \ {0}, NEW q \in Int, NEW p \in Int, NEW r \in 0..n - 1, NEW s \in 0..n - 1,
         q * n + r = p * n + s
  PROVE  q = p /\ r = s
<1>1. ~(q > p)
  <2> SUFFICES ASSUME q > p PROVE FALSE
    OBVIOUS
  <2>1. (q - p) * n >= n
    BY Multiple
  <2>2. (q - p) * n = q * n - p * n
    OBVIOUS
  <2>3. QED
    BY <2>1, <2>2
<1>2. ~(p > q)
  <2> SUFFICES ASSUME p > q PROVE FALSE
    OBVIOUS
  <2>1. (p - q) * n >= n
    BY Multiple
  <2>2. (p - q) * n = p * n - q * n
    OBVIOUS
  <2>3. QED
    BY <2>1, <2>2
<1>3. QED
  BY <1>1, <1>2

LEMMA DivModIs ==
  ASSUME NEW n \in Nat \ {0}, NEW h \in Nat, NEW q \in Nat, NEW r \in 0..n - 1, h = q * n + r
  PROVE  h % n = r /\ h \div n = q
  BY DivMod, DivModUnique

\* The slot after a split: Bit tells which of two it is.
LEMMA Split ==
  ASSUME NEW h \in Nat, NEW n \in Nat \ {0}
  PROVE  h % (2 * n) = Bit(h, n) * n + (h % n) /\ Bit(h, n) \in 0..1
<1>1. PICK q, r : q = h \div n /\ r = h % n
  OBVIOUS
<1>2. q \in Nat /\ r \in 0..n - 1 /\ h = q * n + r
  BY <1>1, DivMod
<1>3. PICK p, b : p = q \div 2 /\ b = q % 2
  OBVIOUS
<1>4. p \in Nat /\ b \in 0..1 /\ q = p * 2 + b
  BY <1>2, <1>3
<1>5. h = p * (2 * n) + (b * n + r)
  BY <1>2, <1>4
<1>6. b * n + r \in 0..2 * n - 1
  BY <1>2, <1>4
<1>7. 2 * n \in Nat \ {0}
  OBVIOUS
<1>8. h % (2 * n) = b * n + r
  BY <1>4, <1>5, <1>6, <1>7, DivModIs
<1>9. QED
  BY <1>1, <1>3, <1>4, <1>8 DEF Bit

\* s is the slot of h among 2n if it is that of a half, on the side of s.
LEMMA SplitSlot ==
  ASSUME NEW h \in Nat, NEW n \in Nat \ {0}, NEW s \in 0..2 * n - 1
  PROVE  /\ s % n \in 0..n - 1 /\ s \div n \in 0..1
         /\ h % (2 * n) = s <=> h % n = s % n /\ Bit(h, n) = s \div n
<1>1. PICK a, b, c, d : a = s \div n /\ b = s % n /\ c = Bit(h, n) /\ d = h % n
  OBVIOUS
<1>2. a \in Nat /\ b \in 0..n - 1 /\ s = a * n + b /\ d \in 0..n - 1
  <2>1. s \in Nat
    OBVIOUS
  <2>2. a \in Nat /\ b \in 0..n - 1 /\ s = a * n + b
    BY <1>1, <2>1, DivMod
  <2>3. d \in 0..n - 1
    BY <1>1, DivMod
  <2>4. QED
    BY <2>2, <2>3
<1>3. c \in 0..1 /\ h % (2 * n) = c * n + d
  BY <1>1, Split
<1>4. a \in 0..1
  <2>1. ~(a - 1 >= 1)
    <3> SUFFICES ASSUME a - 1 >= 1 PROVE FALSE
      OBVIOUS
    <3>1. (a - 1) * n >= n
      BY <1>2, Multiple
    <3>2. (a - 1) * n = a * n - n
      BY <1>2
    <3>3. QED
      BY <1>2, <3>1, <3>2
  <2>2. QED
    BY <1>2, <2>1
<1>5. c * n + d = a * n + b <=> c = a /\ d = b
  BY <1>2, <1>3, <1>4, DivModUnique
<1>6. QED
  BY <1>1, <1>2, <1>3, <1>4, <1>5

\* The slot of h among n is that among 2n, in the lower half.
LEMMA HalfSlot ==
  ASSUME NEW h \in Nat, NEW n \in Nat \ {0}
  PROVE  /\ h % n \in 0..n - 1
         /\ h % (2 * n) < n => h % n = h % (2 * n)
         /\ h % (2 * n) >= n => h % n = (h % (2 * n)) - n
<1>1. PICK b, r : b = Bit(h, n) /\ r = h % n
  OBVIOUS
<1>2. r \in 0..n - 1 /\ b \in 0..1 /\ h % (2 * n) = b * n + r
  BY <1>1, DivMod, Split
<1>3. b = 0 \/ b = 1
  BY <1>2
<1>4. QED
  BY <1>1, <1>2, <1>3

\* Slots among n times m, and among n.
LEMMA FactorSlot ==
  ASSUME NEW h \in Nat, NEW n \in Nat \ {0}, NEW m \in Nat \ {0}
  PROVE  (h % (m * n)) % n = h % n
<1>1. PICK M : M = m * n
  OBVIOUS
<1>2. PICK q, r, p, s : q = h \div M /\ r = h % M /\ p = r \div n /\ s = r % n
  OBVIOUS
<1>3. q \in Nat /\ r \in Nat /\ h = q * (m * n) + r
  <2>1. M \in Nat \ {0}
    BY <1>1
  <2>2. q \in Nat /\ r \in 0..M - 1 /\ h = q * M + r
    BY <1>2, <2>1, DivMod
  <2>3. QED
    BY <1>1, <2>1, <2>2
<1>4. p \in Nat /\ s \in 0..n - 1 /\ r = p * n + s
  BY <1>2, <1>3, DivMod
<1>5. h = (q * m + p) * n + s /\ q * m + p \in Nat
  <2>1. q * (m * n) = (q * m) * n
    BY <1>3
  <2>2. q * m \in Nat
    BY <1>3
  <2>3. (q * m + p) * n = (q * m) * n + p * n
    BY <1>4, <2>2
  <2>4. QED
    BY <1>3, <1>4, <2>1, <2>2, <2>3
<1>6. h % n = s
  BY <1>4, <1>5, DivModIs
<1>7. QED
  BY <1>1, <1>2, <1>6

-----------------------------------------------------------------------------
(* Recursive functions on 0..L.                                            *)

LEMMA Upwards ==
  ASSUME NEW L \in Nat, NEW T, 0 \in T, \A n \in 0..L : n \in T /\ n < L => n + 1 \in T
  PROVE  \A n \in 0..L : n \in T
<1> DEFINE S == {n \in Nat : n <= L => n \in T}
<1>1. 0 \in S /\ S \subseteq Nat
  OBVIOUS
<1>2. ASSUME NEW n \in S PROVE n + 1 \in S
  <2>1. n \in Nat /\ n + 1 \in Nat
    OBVIOUS
  <2>2. SUFFICES ASSUME n + 1 <= L PROVE n + 1 \in T
    BY <2>1
  <2>3. n \in 0..L /\ n < L /\ n \in T
    BY <2>1, <2>2
  <2>4. QED
    BY <2>3
<1> HIDE DEF S
<1>3. S = Nat
  BY <1>1, <1>2, Inductive
<1>4. QED
  BY <1>3 DEF S

\* f begins with x, and F says how it goes on.
Recursive(f, L, X, x, F) ==
  f \in [0..L -> X] /\ f[0] = x /\ \A n \in 1..L : f[n] = F[<<n, f[n - 1]>>]

LEMMA Recursion ==
  ASSUME NEW L \in Nat, NEW X, NEW x \in X, NEW F \in [(1..L) \X X -> X]
  PROVE  \E f : Recursive(f, L, X, x, F)
<1> DEFINE Part(f, k) == /\ f[0] = x
                         /\ \A n \in 1..k : f[n] = F[<<n, f[n - 1]>>]
                         /\ \A n \in 0..k : f[n] \in X
           T == {k \in Nat : \E f : Part(f, k)}
<1>1. 0 \in T
  <2>1. Part([n \in {0} |-> x], 0)
    OBVIOUS
  <2>2. QED
    BY <2>1
<1>2. ASSUME NEW k \in T, k < L PROVE k + 1 \in T
  <2>1. PICK f : Part(f, k)
    OBVIOUS
  <2>2. PICK g : g = [n \in 0..k + 1 |-> IF n = k + 1 THEN F[<<k + 1, f[k]>>] ELSE f[n]]
    OBVIOUS
  <2>3. k \in Nat /\ 0 \in 0..k + 1 /\ 0 # k + 1 /\ k + 1 \in 1..L /\ k \in 0..k
    BY <1>2
  <2>4. g[0] = x
    BY <2>1, <2>2, <2>3
  <2>5. ASSUME NEW n \in 1..k + 1 PROVE g[n] = F[<<n, g[n - 1]>>]
    <3>1. n \in 0..k + 1 /\ n - 1 \in 0..k + 1 /\ n - 1 # k + 1
      BY <2>3
    <3>2. g[n - 1] = f[n - 1]
      BY <2>2, <3>1
    <3>3. CASE n = k + 1
      <4>1. g[n] = F[<<k + 1, f[k]>>] /\ n - 1 = k
        BY <2>2, <2>3, <3>1, <3>3
      <4>2. QED
        BY <3>2, <3>3, <4>1
    <3>4. CASE n # k + 1
      <4>1. n \in 1..k
        BY <2>3, <3>4
      <4>2. g[n] = f[n]
        BY <2>2, <3>1, <3>4
      <4>3. f[n] = F[<<n, f[n - 1]>>]
        BY <2>1, <4>1
      <4>4. QED
        BY <3>2, <4>2, <4>3
    <3>5. QED
      BY <3>3, <3>4
  <2>6. ASSUME NEW n \in 0..k + 1 PROVE g[n] \in X
    <3>1. CASE n = k + 1
      <4>1. f[k] \in X
        BY <2>1, <2>3
      <4>2. F[<<k + 1, f[k]>>] \in X
        BY <2>3, <4>1
      <4>3. QED
        BY <2>2, <3>1, <4>2
    <3>2. CASE n # k + 1
      <4>1. n \in 0..k
        BY <2>3, <3>2
      <4>2. QED
        BY <2>1, <2>2, <3>2, <4>1
    <3>3. QED
      BY <3>1, <3>2
  <2>7. Part(g, k + 1)
    BY <2>4, <2>5, <2>6
  <2> HIDE DEF Part
  <2>8. QED
    BY <2>3, <2>7
<1>3. L \in T
  <2>1. \A n \in 0..L : n \in T /\ n < L => n + 1 \in T
    BY <1>2
  <2> HIDE DEF T
  <2>2. \A n \in 0..L : n \in T
    BY <1>1, <2>1, Upwards
  <2>3. QED
    BY <2>2
<1>4. PICK f : Part(f, L)
  BY <1>3
<1>5. PICK g : g = [n \in 0..L |-> f[n]]
  OBVIOUS
<1>6. \A n \in 0..L : g[n] = f[n]
  BY <1>5
<1>7. 0 \in 0..L /\ \A n \in 1..L : n \in 0..L /\ n - 1 \in 0..L
  OBVIOUS
<1>8. g \in [0..L -> X]
  BY <1>4, <1>5
<1>9. g[0] = x /\ \A n \in 1..L : g[n] = F[<<n, g[n - 1]>>]
  BY <1>4, <1>6, <1>7
<1>10. Recursive(g, L, X, x, F)
  BY <1>8, <1>9 DEF Recursive
<1>11. QED
  BY <1>10

-----------------------------------------------------------------------------
(* The numbers of slots that a structure may have.                         *)

Top == HSegs - 1

LEMMA SlotsIs ==
  /\ Top \in Nat /\ Slots[0] = HSlots
  /\ \A i \in 1..Top : Slots[i] = 2 * Slots[i - 1]
  /\ \A i \in 0..Top : Slots[i] \in Nat /\ Slots[i] >= 2
<1>1. PICK L : L = Top
  OBVIOUS
<1>2. L \in Nat /\ HSlots \in Nat /\ HSlots >= 2
  BY <1>1, SlotsAssumption DEF Top
<1> DEFINE Body(f) == [i \in 0..L |-> IF i = 0 THEN HSlots ELSE 2 * f[i - 1]]
<1>3. PICK X, F : X = Nat /\ F = [p \in (1..L) \X X |-> 2 * p[2]]
  OBVIOUS
<1>4. PICK f \in [0..L -> Nat] : f[0] = HSlots /\ \A n \in 1..L : f[n] = 2 * f[n - 1]
  <2>1. \A n \in 1..L : \A y \in X : F[<<n, y>>] = 2 * y
    BY <1>3
  <2>2. F \in [(1..L) \X X -> X]
    BY <1>3
  <2>3. HSlots \in X
    BY <1>2, <1>3
  <2>4. PICK f : Recursive(f, L, X, HSlots, F)
    BY <1>2, <2>2, <2>3, Recursion
  <2>5. \A n \in 1..L : n - 1 \in 0..L
    BY <1>2
  <2>6. /\ f \in [0..L -> Nat] /\ f[0] = HSlots
        /\ \A n \in 1..L : f[n] = 2 * f[n - 1]
    BY <1>3, <2>1, <2>4, <2>5 DEF Recursive
  <2>7. QED
    BY <2>6
<1>5. f = Body(f)
  <2>1. \A n \in 0..L : n # 0 => n \in 1..L /\ n - 1 \in 0..L
    BY <1>2
  <2>2. \A n \in 0..L : f[n] = IF n = 0 THEN HSlots ELSE 2 * f[n - 1]
    BY <1>4, <2>1
  <2>3. QED
    BY <1>4, <2>2
<1>6. Slots = CHOOSE h : h = Body(h)
  BY <1>1 DEF Slots, Top
<1>7. Slots = Body(Slots)
  <2> HIDE DEF Body
  <2>1. \E h : h = Body(h)
    BY <1>5
  <2>2. QED
    BY <1>6, <2>1
<1>8. Slots[0] = HSlots /\ \A i \in 1..L : Slots[i] = 2 * Slots[i - 1]
  <2>1. 0 \in 0..L /\ \A i \in 1..L : i \in 0..L /\ i # 0
    BY <1>2
  <2>2. QED
    BY <1>7, <2>1
<1> DEFINE T == {i \in 0..L : Slots[i] \in Nat /\ Slots[i] >= 2}
<1>9. 0 \in T
  BY <1>2, <1>8
<1>10. ASSUME NEW n \in 0..L, n \in T, n < L PROVE n + 1 \in T
  <2>1. n + 1 \in 1..L /\ n + 1 \in 0..L /\ n + 1 - 1 = n
    BY <1>2, <1>10
  <2>2. Slots[n + 1] = 2 * Slots[n]
    BY <1>8, <2>1
  <2>3. QED
    BY <1>10, <2>1, <2>2
<1> HIDE DEF T
<1>11. \A n \in 0..L : n \in T
  BY <1>2, <1>9, <1>10, Upwards
<1>12. QED
  BY <1>1, <1>2, <1>8, <1>11 DEF T

\* Each is a multiple of those before it.
LEMMA SlotsFactor ==
  ASSUME NEW i \in 0..Top, NEW j \in 0..Top, i <= j
  PROVE  \E m \in Nat \ {0} : Slots[j] = m * Slots[i] /\ (i < j => m >= 2)
<1> DEFINE T == {n \in 0..Top : n >= i => \E m \in Nat \ {0} : Slots[n] = m * Slots[i]
                                                      /\ (i < n => m >= 2)}
<1>1. Top \in Nat
  BY SlotsIs
<1>2. ASSUME NEW n \in 0..Top, n = i PROVE n \in T
  <2>1. Slots[n] = 1 * Slots[i] /\ ~(i < n) /\ 1 \in Nat \ {0}
    BY <1>2, SlotsIs
  <2>2. \E m \in Nat \ {0} : Slots[n] = m * Slots[i] /\ (i < n => m >= 2)
    BY <2>1
  <2>3. QED
    BY <2>2
<1>3. 0 \in T
  <2>1. CASE i = 0
    BY <1>1, <1>2, <2>1
  <2>2. CASE i # 0
    <3>1. 0 \in 0..Top /\ ~(0 >= i)
      BY <1>1, <2>2
    <3>2. QED
      BY <3>1
  <2>3. QED
    BY <2>1, <2>2
<1>4. ASSUME NEW n \in 0..Top, n \in T, n < Top PROVE n + 1 \in T
  <2>1. n + 1 \in 1..Top /\ n + 1 \in 0..Top /\ n + 1 - 1 = n
    BY <1>1, <1>4
  <2>2. CASE n + 1 = i
    BY <1>2, <2>1, <2>2
  <2>3. CASE n + 1 # i
    <3>1. SUFFICES ASSUME n + 1 >= i
                   PROVE  \E m \in Nat \ {0} : Slots[n + 1] = m * Slots[i] /\ (i < n + 1 => m >= 2)
      BY <2>1
    <3>2. n >= i
      BY <2>3, <3>1
    <3>3. PICK m \in Nat \ {0} : Slots[n] = m * Slots[i]
      BY <1>4, <3>2
    <3>4. Slots[n + 1] = 2 * (m * Slots[i]) /\ Slots[i] \in Nat
      BY <2>1, <3>3, SlotsIs
    <3>5. 2 * (m * Slots[i]) = (2 * m) * Slots[i] /\ 2 * m \in Nat \ {0} /\ 2 * m >= 2
      BY <3>4
    <3>6. QED
      BY <3>4, <3>5
  <2>4. QED
    BY <2>2, <2>3
<1> HIDE DEF T
<1>5. \A n \in 0..Top : n \in T
  BY <1>1, <1>3, <1>4, Upwards
<1>6. QED
  BY <1>5 DEF T

LEMMA SlotsGrow ==
  ASSUME NEW i \in 0..Top, NEW j \in 0..Top
  PROVE  i < j <=> Slots[i] < Slots[j]
<1>1. ASSUME NEW a \in 0..Top, NEW b \in 0..Top, a < b PROVE Slots[a] < Slots[b]
  <2>1. PICK m \in Nat \ {0} : Slots[b] = m * Slots[a] /\ m >= 2
    BY <1>1, SlotsFactor
  <2>2. PICK n, s : n = m - 1 /\ s = Slots[a]
    OBVIOUS
  <2>3. n \in Int /\ n >= 1 /\ s \in Nat /\ s >= 2
    BY <2>1, <2>2, SlotsIs
  <2>4. n * s >= s
    BY <2>3, Multiple
  <2>5. m * s = n * s + s
    BY <2>2, <2>3
  <2>6. QED
    BY <2>1, <2>2, <2>3, <2>4, <2>5
<1>2. i \in Int /\ j \in Int
  OBVIOUS
<1>3. Slots[i] \in Nat /\ Slots[j] \in Nat
  BY SlotsIs
<1>4. CASE i < j
  BY <1>1, <1>4
<1>5. CASE j < i
  <2>1. Slots[j] < Slots[i]
    BY <1>1, <1>5
  <2>2. QED
    BY <1>2, <1>3, <1>5, <2>1
<1>6. CASE i = j
  BY <1>2, <1>3, <1>6
<1>7. QED
  BY <1>2, <1>4, <1>5, <1>6

\* The slot among more slots tells the one among fewer.
LEMMA SlotsRest ==
  ASSUME NEW h \in Nat, NEW i \in 0..Top, NEW j \in 0..Top, i <= j
  PROVE  /\ (h % Slots[j]) % Slots[i] = h % Slots[i]
         /\ h >= Slots[j] => (h - Slots[j]) % Slots[i] = h % Slots[i]
<1>1. PICK m \in Nat \ {0} : Slots[j] = m * Slots[i]
  BY SlotsFactor
<1>2. PICK n : n = Slots[i]
  OBVIOUS
<1>3. n \in Nat \ {0} /\ Slots[j] = m * n
  BY <1>1, <1>2, SlotsIs
<1>4. (h % (m * n)) % n = h % n
  BY <1>3, FactorSlot
<1>5. ASSUME h >= m * n PROVE (h - m * n) % n = h % n
  <2>1. PICK k : k = h - m * n
    OBVIOUS
  <2>2. m * n \in Nat
    BY <1>3
  <2>3. k \in Nat /\ h = k + m * n
    BY <1>5, <2>1, <2>2
  <2>4. PICK q, r : q = k \div n /\ r = k % n
    OBVIOUS
  <2>5. q \in Nat /\ r \in 0..n - 1 /\ k = q * n + r
    BY <1>3, <2>3, <2>4, DivMod
  <2>6. (q + m) * n = q * n + m * n /\ q + m \in Nat
    BY <1>3, <2>5
  <2>7. h = (q + m) * n + r
    <3>1. PICK a, b, c : a = q * n /\ b = m * n /\ c = (q + m) * n
      OBVIOUS
    <3>2. a \in Nat /\ b \in Nat /\ c = a + b /\ h = k + b /\ k = a + r
      BY <1>3, <2>2, <2>3, <2>5, <2>6, <3>1
    <3>3. h = c + r
      BY <2>5, <3>2
    <3>4. QED
      BY <3>1, <3>3
  <2>8. h % n = r
    <3>1. PICK p : p = q + m
      OBVIOUS
    <3>2. p \in Nat /\ h = p * n + r
      BY <2>6, <2>7, <3>1
    <3>3. QED
      BY <1>3, <2>5, <3>2, DivModIs
  <2>9. QED
    BY <2>1, <2>4, <2>8
<1>6. QED
  BY <1>2, <1>3, <1>4, <1>5

-----------------------------------------------------------------------------
(* Chains.                                                                 *)

Within(c, b) == \E i \in 1..Len(c) : c[i] = b
Comes(c, a, b) == \E i, j \in 1..Len(c) : i < j /\ c[i] = a /\ c[j] = b
ChainOK(c) ==
  /\ c \in Seq(Block)
  /\ \A i, j \in 1..Len(c) : i < j => Hash(c[i]) <= Hash(c[j]) /\ c[i][1] # c[j][1]

LEMMA HashIs ==
  ASSUME NEW b \in Block
  PROVE  b[1] \in Key /\ Hash(b) \in Nat /\ Hash(b) = HashOf[b[1]] /\ b # NULL
<1>1. PICK k \in Key, i \in 1..MaxCopies : b = <<k, i>>
  BY DEF Block
<1>2. b[1] = k /\ Len(b) = 2
  BY <1>1
<1>3. b # NULL
  BY <1>2 DEF NULL
<1>4. QED
  BY <1>2, <1>3, KeyAssumption DEF Hash

\* d is c with b put in at p, or with what is at p taken out.
PutIn(d, c, p, b) ==
  /\ Len(d) = Len(c) + 1
  /\ \A i \in 1..p - 1 : i \in 1..Len(c) /\ d[i] = c[i]
  /\ d[p] = b
  /\ \A i \in p + 1..Len(c) + 1 : i - 1 \in 1..Len(c) /\ d[i] = c[i - 1]
TakenOut(d, c, p) ==
  /\ Len(d) = Len(c) - 1
  /\ \A i \in 1..p - 1 : i \in 1..Len(c) - 1 /\ d[i] = c[i]
  /\ \A i \in p..Len(c) - 1 : i + 1 \in 1..Len(c) /\ d[i] = c[i + 1]

LEMMA Inserted ==
  ASSUME NEW S, NEW c \in Seq(S), NEW p \in 1..Len(c) + 1, NEW b \in S, NEW d, d = InsertAt(c, p, b)
  PROVE  d \in Seq(S) /\ PutIn(d, c, p, b)
<1>1. PICK L, u, v, w : L = Len(c) /\ u = SubSeq(c, 1, p - 1) /\ v = SubSeq(c, p, L) /\ w = u \o <<b>>
  OBVIOUS
<1>2. /\ u \in Seq(S) /\ Len(u) = p - 1 /\ \A i \in 1..p - 1 : u[i] = c[i]
      /\ L \in Nat /\ p \in 1..L + 1
  BY <1>1
<1>3. v \in Seq(S) /\ Len(v) = L - p + 1 /\ \A i \in 1..L - p + 1 : v[i] = c[p + i - 1]
  BY <1>1, <1>2
<1>4. w \in Seq(S) /\ Len(w) = p /\ w[p] = b /\ \A i \in 1..p - 1 : w[i] = c[i]
  BY <1>1, <1>2
<1>5. d = w \o v
  BY <1>1 DEF InsertAt
<1>6. d \in Seq(S) /\ Len(d) = L + 1
  BY <1>2, <1>3, <1>4, <1>5
<1>7. \A i \in 1..p : d[i] = w[i]
  BY <1>3, <1>4, <1>5
<1>8. \A i \in p + 1..L + 1 : d[i] = c[i - 1]
  <2> TAKE i \in p + 1..L + 1
  <2>1. PICK j : j = i - p
    OBVIOUS
  <2>2. j \in 1..L - p + 1 /\ i = p + j /\ p + j - 1 = i - 1
    BY <1>2, <2>1
  <2>3. d[p + j] = v[j]
    BY <1>3, <1>4, <1>5, <2>2
  <2>4. QED
    BY <1>3, <2>2, <2>3
<1>9. \A i \in 1..p - 1 : i \in 1..L /\ i \in 1..p
  BY <1>2
<1>10. p \in 1..p /\ \A i \in p + 1..L + 1 : i - 1 \in 1..L
  BY <1>2
<1>11. QED
  BY <1>1, <1>4, <1>6, <1>7, <1>8, <1>9, <1>10 DEF PutIn

LEMMA Removed ==
  ASSUME NEW S, NEW c \in Seq(S), NEW p \in 1..Len(c), NEW d, d = RemoveAt(c, p)
  PROVE  d \in Seq(S) /\ TakenOut(d, c, p)
<1>1. PICK L, u, v : L = Len(c) /\ u = SubSeq(c, 1, p - 1) /\ v = SubSeq(c, p + 1, L)
  OBVIOUS
<1>2. /\ u \in Seq(S) /\ Len(u) = p - 1 /\ \A i \in 1..p - 1 : u[i] = c[i]
      /\ L \in Nat /\ p \in 1..L
  BY <1>1
<1>3. v \in Seq(S) /\ Len(v) = L - p /\ \A i \in 1..L - p : v[i] = c[p + i]
  BY <1>1, <1>2
<1>4. d = u \o v
  BY <1>1 DEF RemoveAt
<1>5. d \in Seq(S) /\ Len(d) = L - 1
  <2>1. Len(u) + Len(v) = L - 1
    BY <1>2, <1>3
  <2>2. d \in Seq(S) /\ Len(d) = Len(u) + Len(v)
    <3>1. u \in Seq(S) /\ v \in Seq(S)
      BY <1>2, <1>3
    <3>2. QED
      BY <1>4, <3>1
  <2>3. QED
    BY <2>1, <2>2
<1>6. \A i \in 1..p - 1 : d[i] = c[i] /\ i \in 1..L - 1
  BY <1>2, <1>3, <1>4
<1>7. \A i \in p..L - 1 : d[i] = c[i + 1] /\ i + 1 \in 1..L
  <2> TAKE i \in p..L - 1
  <2>1. PICK j : j = i - p + 1
    OBVIOUS
  <2>2. j \in 1..L - p /\ i = (p - 1) + j /\ p + j = i + 1 /\ i + 1 \in 1..L
    BY <1>2, <2>1
  <2>3. d[Len(u) + j] = v[j]
    <3>1. j \in 1..Len(v)
      BY <1>3, <2>2
    <3>2. QED
      BY <1>2, <1>3, <1>4, <3>1
  <2>4. Len(u) + j = i
    BY <1>2, <2>2
  <2>5. d[i] = v[j] /\ v[j] = c[p + j]
    BY <1>3, <2>2, <2>3, <2>4
  <2>6. QED
    BY <2>2, <2>5
<1>8. QED
  BY <1>1, <1>5, <1>6, <1>7 DEF TakenOut

\* What an insertion at the right place keeps.
LEMMA InsertKeeps ==
  ASSUME NEW c, ChainOK(c), NEW p \in 1..Len(c) + 1, NEW b \in Block,
         \A i \in 1..Len(c) : /\ c[i][1] # b[1]
                              /\ i < p => Hash(c[i]) <= Hash(b)
                              /\ i >= p => Hash(b) <= Hash(c[i]),
         NEW d, d = InsertAt(c, p, b)
  PROVE  /\ ChainOK(d)
         /\ \A x : Within(d, x) <=> Within(c, x) \/ x = b
         /\ \A x, y : Comes(c, x, y) => Comes(d, x, y)
         /\ \A x, y : Comes(d, x, y) /\ x # b /\ y # b => Comes(c, x, y)
<1>1. PICK L : L = Len(c)
  OBVIOUS
<1>2. L \in Nat /\ p \in 1..L + 1 /\ c \in Seq(Block)
  BY <1>1 DEF ChainOK
<1>3. /\ d \in Seq(Block) /\ Len(d) = L + 1 /\ d[p] = b
      /\ \A i \in 1..p - 1 : i \in 1..L /\ d[i] = c[i]
      /\ \A i \in p + 1..L + 1 : i - 1 \in 1..L /\ d[i] = c[i - 1]
  <2>1. p \in 1..Len(c) + 1
    OBVIOUS
  <2>2. d \in Seq(Block) /\ PutIn(d, c, p, b)
    BY <1>2, <2>1, Inserted
  <2>3. QED
    BY <1>1, <2>2 DEF PutIn
<1>4. PICK up : up = [i \in 1..L |-> IF i < p THEN i ELSE i + 1]
  OBVIOUS
<1>5. \A i \in 1..L : /\ up[i] \in 1..L + 1 /\ up[i] # p /\ d[up[i]] = c[i]
                      /\ (i < p <=> up[i] < p)
  <2> TAKE i \in 1..L
  <2>1. CASE i < p
    <3>1. up[i] = i /\ i \in 1..p - 1 /\ i \in 1..L + 1 /\ i # p
      BY <1>2, <1>4, <2>1
    <3>2. QED
      BY <1>3, <2>1, <3>1
  <2>2. CASE ~(i < p)
    <3>1. up[i] = i + 1 /\ i + 1 \in p + 1..L + 1 /\ i + 1 - 1 = i /\ i + 1 # p /\ ~(i + 1 < p)
          /\ i + 1 \in 1..L + 1
      BY <1>2, <1>4, <2>2
    <3>2. QED
      BY <1>3, <2>2, <3>1
  <2>3. QED
    BY <2>1, <2>2
<1>6. \A i, j \in 1..L : i < j => up[i] < up[j]
  BY <1>2, <1>4
<1>7. PICK down : down = [k \in 1..L + 1 |-> IF k < p THEN k ELSE k - 1]
  OBVIOUS
<1>8. \A k \in 1..L + 1 : k # p => /\ down[k] \in 1..L /\ d[k] = c[down[k]]
                                   /\ (k < p <=> down[k] < p)
  <2> SUFFICES ASSUME NEW k \in 1..L + 1, k # p
               PROVE  down[k] \in 1..L /\ d[k] = c[down[k]] /\ (k < p <=> down[k] < p)
    OBVIOUS
  <2>1. CASE k < p
    <3>1. down[k] = k /\ k \in 1..p - 1
      BY <1>2, <1>7, <2>1
    <3>2. QED
      BY <1>3, <2>1, <3>1
  <2>2. CASE ~(k < p)
    <3>1. down[k] = k - 1 /\ k \in p + 1..L + 1 /\ ~(k - 1 < p)
      BY <1>2, <1>7, <2>2
    <3>2. QED
      BY <1>3, <2>2, <3>1
  <2>3. QED
    BY <2>1, <2>2
<1>9. \A k, l \in 1..L + 1 : k # p /\ l # p /\ k < l => down[k] < down[l]
  BY <1>2, <1>7
<1>10. p \in 1..L + 1 /\ \A i \in 1..L : i \in Int /\ (i < p \/ i >= p)
  BY <1>2
<1>11. \A i, j \in 1..L + 1 : i < j => Hash(d[i]) <= Hash(d[j]) /\ d[i][1] # d[j][1]
  <2> SUFFICES ASSUME NEW i \in 1..L + 1, NEW j \in 1..L + 1, i < j
               PROVE  Hash(d[i]) <= Hash(d[j]) /\ d[i][1] # d[j][1]
    OBVIOUS
  <2>1. CASE i = p
    <3>1. j # p /\ ~(j < p)
      BY <1>2, <2>1
    <3>2. down[j] \in 1..L /\ d[j] = c[down[j]] /\ ~(down[j] < p)
      BY <1>8, <3>1
    <3>3. down[j] >= p
      BY <1>10, <3>2
    <3>4. Hash(b) <= Hash(c[down[j]]) /\ c[down[j]][1] # b[1]
      BY <1>1, <3>2, <3>3
    <3>5. QED
      BY <1>3, <2>1, <3>2, <3>4
  <2>2. CASE j = p
    <3>1. i # p /\ i < p
      BY <1>2, <2>2
    <3>2. down[i] \in 1..L /\ d[i] = c[down[i]] /\ down[i] < p
      BY <1>8, <3>1
    <3>3. QED
      BY <1>1, <1>3, <2>2, <3>2
  <2>3. CASE i # p /\ j # p
    <3>1. /\ down[i] \in 1..L /\ down[j] \in 1..L /\ down[i] < down[j]
          /\ d[i] = c[down[i]] /\ d[j] = c[down[j]]
      BY <1>8, <1>9, <2>3
    <3>2. QED
      BY <1>1, <3>1 DEF ChainOK
  <2>4. QED
    BY <2>1, <2>2, <2>3
<1>12. ChainOK(d)
  BY <1>3, <1>11 DEF ChainOK
<1>13. ASSUME NEW x PROVE Within(d, x) <=> Within(c, x) \/ x = b
  <2>1. Within(c, x) => Within(d, x)
    BY <1>1, <1>3, <1>5 DEF Within
  <2>2. x = b => Within(d, x)
    BY <1>3, <1>10 DEF Within
  <2>3. Within(d, x) => Within(c, x) \/ x = b
    BY <1>1, <1>3, <1>8 DEF Within
  <2>4. QED
    BY <2>1, <2>2, <2>3
<1>14. ASSUME NEW x, NEW y, Comes(c, x, y) PROVE Comes(d, x, y)
  BY <1>1, <1>3, <1>5, <1>6, <1>14 DEF Comes
<1>15. ASSUME NEW x, NEW y, Comes(d, x, y), x # b, y # b PROVE Comes(c, x, y)
  <2>1. PICK i \in 1..L + 1, j \in 1..L + 1 : i < j /\ d[i] = x /\ d[j] = y
    BY <1>3, <1>15 DEF Comes
  <2>2. i # p /\ j # p
    BY <1>3, <1>15, <2>1
  <2>3. QED
    BY <1>1, <1>8, <1>9, <2>1, <2>2 DEF Comes
<1>16. QED
  BY <1>12, <1>13, <1>14, <1>15

LEMMA ChainFacts ==
  ASSUME NEW c, ChainOK(c)
  PROVE  /\ \A x : Within(c, x) => x \in Block
         /\ \A x, y : Comes(c, x, y) => /\ Within(c, x) /\ Within(c, y) /\ x[1] # y[1]
                                        /\ Hash(x) <= Hash(y)
         /\ \A x, y : Comes(c, x, y) => ~Comes(c, y, x)
         /\ \A x, y : Within(c, x) /\ Within(c, y) => x[1] # y[1] \/ x = y
         /\ \A x, y : Within(c, x) /\ Within(c, y) /\ x # y => Comes(c, x, y) \/ Comes(c, y, x)
         /\ \A x, y, z : Comes(c, x, y) /\ Comes(c, y, z) => Comes(c, x, z)
         /\ \A i, j \in 1..Len(c) : c[i][1] = c[j][1] => i = j
<1>1. c \in Seq(Block) /\ \A i, j \in 1..Len(c) : i < j => Hash(c[i]) <= Hash(c[j]) /\ c[i][1] # c[j][1]
  BY DEF ChainOK
<1>2. PICK L : L = Len(c)
  OBVIOUS
<1>3. L \in Nat /\ \A i \in 1..L : c[i] \in Block /\ i \in Int
  BY <1>1, <1>2
<1>4. \A i, j \in 1..L : c[i][1] = c[j][1] => i = j
  <2> SUFFICES ASSUME NEW i \in 1..L, NEW j \in 1..L, c[i][1] = c[j][1], i # j PROVE FALSE
    OBVIOUS
  <2>1. i < j \/ j < i
    OBVIOUS
  <2>2. QED
    BY <1>1, <1>2, <2>1
<1>5. \A x : Within(c, x) => x \in Block
  BY <1>2, <1>3 DEF Within
<1>6. \A x, y : Comes(c, x, y) => /\ Within(c, x) /\ Within(c, y) /\ x[1] # y[1]
                                  /\ Hash(x) <= Hash(y)
  BY <1>1 DEF Within, Comes
<1>7. ASSUME NEW x, NEW y, Comes(c, x, y), Comes(c, y, x) PROVE FALSE
  <2>1. PICK i, j \in 1..L : i < j /\ c[i] = x /\ c[j] = y
    BY <1>2, <1>7 DEF Comes
  <2>2. PICK k, l \in 1..L : k < l /\ c[k] = y /\ c[l] = x
    BY <1>2, <1>7 DEF Comes
  <2>3. i = l /\ j = k
    BY <1>4, <2>1, <2>2
  <2>4. QED
    BY <2>1, <2>2, <2>3
<1>8. \A x, y : Within(c, x) /\ Within(c, y) => x[1] # y[1] \/ x = y
  BY <1>2, <1>4 DEF Within
<1>9. ASSUME NEW x, NEW y, Within(c, x), Within(c, y), x # y
      PROVE  Comes(c, x, y) \/ Comes(c, y, x)
  <2>1. PICK i, j \in 1..L : c[i] = x /\ c[j] = y
    BY <1>2, <1>9 DEF Within
  <2>2. i < j \/ j < i
    BY <1>9, <2>1
  <2>3. QED
    BY <1>2, <2>1, <2>2 DEF Comes
<1>10. ASSUME NEW x, NEW y, NEW z, Comes(c, x, y), Comes(c, y, z) PROVE Comes(c, x, z)
  <2>1. PICK i, j \in 1..L : i < j /\ c[i] = x /\ c[j] = y
    BY <1>2, <1>10 DEF Comes
  <2>2. PICK k, l \in 1..L : k < l /\ c[k] = y /\ c[l] = z
    BY <1>2, <1>10 DEF Comes
  <2>3. j = k
    BY <1>4, <2>1, <2>2
  <2>4. i < l
    BY <2>1, <2>2, <2>3
  <2>5. QED
    BY <1>2, <2>1, <2>2, <2>4 DEF Comes
<1>11. QED
  BY <1>2, <1>4, <1>5, <1>6, <1>7, <1>8, <1>9, <1>10

LEMMA RemoveKeeps ==
  ASSUME NEW c, ChainOK(c), NEW p \in 1..Len(c), NEW d, d = RemoveAt(c, p)
  PROVE  /\ ChainOK(d)
         /\ \A x : Within(d, x) <=> Within(c, x) /\ x # c[p]
         /\ \A x, y : Comes(d, x, y) <=> Comes(c, x, y) /\ x # c[p] /\ y # c[p]
<1>1. PICK L : L = Len(c)
  OBVIOUS
<1>2. L \in Nat /\ p \in 1..L /\ c \in Seq(Block)
  BY <1>1 DEF ChainOK
<1>3. /\ d \in Seq(Block) /\ Len(d) = L - 1
      /\ \A i \in 1..p - 1 : i \in 1..L - 1 /\ d[i] = c[i]
      /\ \A i \in p..L - 1 : i + 1 \in 1..L /\ d[i] = c[i + 1]
  <2>1. d \in Seq(Block) /\ TakenOut(d, c, p)
    BY <1>2, Removed
  <2>2. QED
    BY <1>1, <2>1 DEF TakenOut
<1>4. PICK up : up = [i \in 1..L - 1 |-> IF i < p THEN i ELSE i + 1]
  OBVIOUS
<1>5. \A i \in 1..L - 1 : up[i] \in 1..L /\ up[i] # p /\ d[i] = c[up[i]]
  <2> TAKE i \in 1..L - 1
  <2>1. CASE i < p
    <3>1. up[i] = i /\ i \in 1..p - 1 /\ i \in 1..L /\ i # p
      BY <1>2, <1>4, <2>1
    <3>2. QED
      BY <1>3, <3>1
  <2>2. CASE ~(i < p)
    <3>1. up[i] = i + 1 /\ i \in p..L - 1 /\ i + 1 \in 1..L /\ i + 1 # p
      BY <1>2, <1>4, <2>2
    <3>2. QED
      BY <1>3, <3>1
  <2>3. QED
    BY <2>1, <2>2
<1>6. \A i, j \in 1..L - 1 : i < j => up[i] < up[j]
  BY <1>2, <1>4
<1>7. PICK down : down = [k \in 1..L |-> IF k < p THEN k ELSE k - 1]
  OBVIOUS
<1>8. \A k \in 1..L : k # p => down[k] \in 1..L - 1 /\ d[down[k]] = c[k]
  <2> SUFFICES ASSUME NEW k \in 1..L, k # p PROVE down[k] \in 1..L - 1 /\ d[down[k]] = c[k]
    OBVIOUS
  <2>1. CASE k < p
    <3>1. down[k] = k /\ k \in 1..p - 1
      BY <1>2, <1>7, <2>1
    <3>2. QED
      BY <1>3, <3>1
  <2>2. CASE ~(k < p)
    <3>1. down[k] = k - 1 /\ k - 1 \in p..L - 1 /\ (k - 1) + 1 = k /\ k - 1 \in 1..L - 1
      BY <1>2, <1>7, <2>2
    <3>2. QED
      BY <1>3, <3>1
  <2>3. QED
    BY <2>1, <2>2
<1>9. \A k, l \in 1..L : k # p /\ l # p /\ k < l => down[k] < down[l]
  BY <1>2, <1>7
<1>10. \A i, j \in 1..L : c[i] = c[j] => i = j
  BY <1>1, ChainFacts
<1>11. ChainOK(d)
  <2>1. \A i, j \in 1..L : i < j => Hash(c[i]) <= Hash(c[j]) /\ c[i][1] # c[j][1]
    BY <1>1 DEF ChainOK
  <2>2. \A i, j \in 1..L - 1 : i < j => Hash(d[i]) <= Hash(d[j]) /\ d[i][1] # d[j][1]
    BY <1>5, <1>6, <2>1
  <2>3. QED
    BY <1>3, <2>2 DEF ChainOK
<1>12. ASSUME NEW x PROVE Within(d, x) <=> Within(c, x) /\ x # c[p]
  <2>1. Within(d, x) => Within(c, x) /\ x # c[p]
    <3> SUFFICES ASSUME Within(d, x) PROVE Within(c, x) /\ x # c[p]
      OBVIOUS
    <3>1. PICK i \in 1..L - 1 : d[i] = x
      BY <1>3 DEF Within
    <3>2. up[i] \in 1..L /\ c[up[i]] = x /\ up[i] # p
      BY <1>5, <3>1
    <3>3. QED
      BY <1>1, <1>2, <1>10, <3>2 DEF Within
  <2>2. Within(c, x) /\ x # c[p] => Within(d, x)
    <3> SUFFICES ASSUME Within(c, x), x # c[p] PROVE Within(d, x)
      OBVIOUS
    <3>1. PICK i \in 1..L : c[i] = x
      BY <1>1 DEF Within
    <3>2. i # p
      BY <3>1
    <3>3. QED
      BY <1>3, <1>8, <3>1, <3>2 DEF Within
  <2>3. QED
    BY <2>1, <2>2
<1>13. ASSUME NEW x, NEW y PROVE Comes(d, x, y) <=> Comes(c, x, y) /\ x # c[p] /\ y # c[p]
  <2>1. Comes(d, x, y) => Comes(c, x, y) /\ x # c[p] /\ y # c[p]
    <3> SUFFICES ASSUME Comes(d, x, y) PROVE Comes(c, x, y) /\ x # c[p] /\ y # c[p]
      OBVIOUS
    <3>1. PICK i, j \in 1..L - 1 : i < j /\ d[i] = x /\ d[j] = y
      BY <1>3 DEF Comes
    <3>2. /\ up[i] \in 1..L /\ c[up[i]] = x /\ up[i] # p
          /\ up[j] \in 1..L /\ c[up[j]] = y /\ up[j] # p /\ up[i] < up[j]
      BY <1>5, <1>6, <3>1
    <3>3. x # c[p] /\ y # c[p]
      BY <1>2, <1>10, <3>2
    <3>4. QED
      BY <1>1, <3>2, <3>3 DEF Comes
  <2>2. Comes(c, x, y) /\ x # c[p] /\ y # c[p] => Comes(d, x, y)
    <3> SUFFICES ASSUME Comes(c, x, y), x # c[p], y # c[p] PROVE Comes(d, x, y)
      OBVIOUS
    <3>1. PICK i, j \in 1..L : i < j /\ c[i] = x /\ c[j] = y
      BY <1>1 DEF Comes
    <3>2. i # p /\ j # p
      BY <3>1
    <3>3. /\ down[i] \in 1..L - 1 /\ d[down[i]] = x /\ down[j] \in 1..L - 1 /\ d[down[j]] = y
          /\ down[i] < down[j]
      BY <1>8, <1>9, <3>1, <3>2
    <3>4. QED
      BY <1>3, <3>3 DEF Comes
  <2>3. QED
    BY <2>1, <2>2
<1>14. QED
  BY <1>11, <1>12, <1>13

LEMMA AppendKeeps ==
  ASSUME NEW c, ChainOK(c), NEW b \in Block, NEW d, d = Append(c, b),
         \A x : Within(c, x) => x[1] # b[1] /\ Hash(x) <= Hash(b)
  PROVE  /\ ChainOK(d)
         /\ \A x : Within(d, x) <=> Within(c, x) \/ x = b
         /\ \A x, y : Comes(d, x, y) <=> Comes(c, x, y) \/ (Within(c, x) /\ y = b)
<1>1. PICK L : L = Len(c)
  OBVIOUS
<1>2. L \in Nat /\ c \in Seq(Block)
  BY <1>1 DEF ChainOK
<1>3. d \in Seq(Block) /\ Len(d) = L + 1 /\ d[L + 1] = b /\ \A i \in 1..L : d[i] = c[i]
  BY <1>1, <1>2
<1>4. \A i \in 1..L + 1 : i \in Int /\ (i \in 1..L \/ i = L + 1)
  BY <1>2
<1>5. L + 1 \in 1..L + 1 /\ \A i \in 1..L : i \in 1..L + 1 /\ i < L + 1
  BY <1>2
<1>6. ASSUME NEW x PROVE Within(d, x) <=> Within(c, x) \/ x = b
  BY <1>1, <1>3, <1>4, <1>5 DEF Within
<1>7. ASSUME NEW x, NEW y PROVE Comes(d, x, y) <=> Comes(c, x, y) \/ (Within(c, x) /\ y = b)
  <2>1. ASSUME Comes(d, x, y) PROVE Comes(c, x, y) \/ (Within(c, x) /\ y = b)
    <3>1. PICK i, j \in 1..L + 1 : i < j /\ d[i] = x /\ d[j] = y
      BY <1>3, <2>1 DEF Comes
    <3>2. i \in 1..L
      BY <1>2, <3>1
    <3>3. CASE j \in 1..L
      BY <1>1, <1>3, <3>1, <3>2, <3>3 DEF Comes
    <3>4. CASE j = L + 1
      BY <1>1, <1>3, <3>1, <3>2, <3>4 DEF Within
    <3>5. QED
      BY <1>4, <3>3, <3>4
  <2>2. Comes(c, x, y) => Comes(d, x, y)
    BY <1>1, <1>3, <1>5 DEF Comes
  <2>3. Within(c, x) /\ y = b => Comes(d, x, y)
    BY <1>1, <1>3, <1>5 DEF Comes, Within
  <2>4. QED
    BY <2>1, <2>2, <2>3
<1>8. ChainOK(d)
  <2>1. \A i \in 1..L : c[i][1] # b[1] /\ Hash(c[i]) <= Hash(b)
    BY <1>1 DEF Within
  <2>2. \A i, j \in 1..L : i < j => Hash(c[i]) <= Hash(c[j]) /\ c[i][1] # c[j][1]
    BY <1>1 DEF ChainOK
  <2>3. ASSUME NEW i \in 1..L + 1, NEW j \in 1..L + 1, i < j
        PROVE  Hash(d[i]) <= Hash(d[j]) /\ d[i][1] # d[j][1]
    <3>1. i \in 1..L
      BY <1>2, <2>3
    <3>2. CASE j \in 1..L
      BY <1>3, <2>2, <2>3, <3>1, <3>2
    <3>3. CASE j = L + 1
      BY <1>3, <2>1, <3>1, <3>3
    <3>4. QED
      BY <1>4, <3>2, <3>3
  <2>4. QED
    BY <1>3, <2>3 DEF ChainOK
<1>9. QED
  BY <1>6, <1>7, <1>8

LEMMA Head1Sub ==
  ASSUME NEW c \in Seq(Block), NEW p \in 1..Len(c) + 1
  PROVE  /\ p <= Len(c) => Head1(SubSeq(c, p, Len(c))) = c[p]
         /\ p > Len(c) => Head1(SubSeq(c, p, Len(c))) = NULL
<1>1. PICK L, v : L = Len(c) /\ v = SubSeq(c, p, L)
  OBVIOUS
<1>2. v \in Seq(Block) /\ Len(v) = L - p + 1 /\ \A i \in 1..L - p + 1 : v[i] = c[p + i - 1]
  BY <1>1
<1>3. L \in Nat /\ p \in 1..L + 1
  BY <1>1
<1>4. ASSUME p <= L PROVE Head1(v) = c[p]
  <2>1. 1 \in 1..L - p + 1 /\ p + 1 - 1 = p
    BY <1>3, <1>4
  <2>2. v[1] = c[p]
    BY <1>2, <2>1
  <2>3. v # <<>>
    BY <1>2, <2>1
  <2>4. QED
    BY <2>2, <2>3 DEF Head1
<1>5. ASSUME p > L PROVE Head1(v) = NULL
  <2>1. Len(v) = 0
    BY <1>2, <1>3, <1>5
  <2>2. v = <<>>
    BY <1>2, <2>1
  <2>3. QED
    BY <2>2 DEF Head1, NULL
<1>6. QED
  BY <1>1, <1>4, <1>5

\* What is first in a chain, and what is first of a hash number above hn.
FirstOf(c, r) ==
  /\ r = NULL => \A x : ~Within(c, x)
  /\ r # NULL => Within(c, r) /\ \A x : Within(c, x) /\ x # r => Comes(c, r, x)
FirstPast(c, hn, r) ==
  /\ r = NULL => \A x : Within(c, x) => Hash(x) <= hn
  /\ r # NULL => /\ Within(c, r) /\ Hash(r) > hn
                 /\ \A x : Within(c, x) /\ Hash(x) > hn /\ x # r => Comes(c, r, x)

LEMMA Head1Is ==
  ASSUME NEW c, ChainOK(c)
  PROVE  FirstOf(c, Head1(c))
<1>1. c \in Seq(Block)
  BY DEF ChainOK
<1>2. CASE c = <<>>
  <2>1. Len(c) = 0 /\ Head1(c) = NULL
    BY <1>2 DEF Head1, NULL
  <2>2. \A x : ~Within(c, x)
    BY <2>1 DEF Within
  <2>3. QED
    BY <2>1, <2>2 DEF FirstOf
<1>3. CASE c # <<>>
  <2>1. Head1(c) = c[1] /\ 1 \in 1..Len(c)
    BY <1>1, <1>3 DEF Head1
  <2>2. c[1] \in Block
    BY <1>1, <2>1
  <2>3. Head1(c) # NULL /\ Within(c, c[1])
    BY <2>1, <2>2, HashIs DEF Within
  <2>4. ASSUME NEW x, Within(c, x), x # c[1] PROVE Comes(c, c[1], x)
    <3>1. PICK i \in 1..Len(c) : c[i] = x
      BY <2>4 DEF Within
    <3>2. 1 < i
      BY <2>4, <3>1
    <3>3. QED
      BY <2>1, <3>1, <3>2 DEF Comes
  <2>5. QED
    BY <2>1, <2>3, <2>4 DEF FirstOf
<1>4. QED
  BY <1>2, <1>3

LEMMA AboveIs ==
  ASSUME NEW c, ChainOK(c), NEW hn \in Nat
  PROVE  /\ Above(c, hn) \in 1..Len(c) + 1
         /\ \A i \in 1..Len(c) : Hash(c[i]) > hn <=> i >= Above(c, hn)
<1>1. PICK L, A : L = Len(c) /\ A = {i \in 1..L : Hash(c[i]) > hn}
  OBVIOUS
<1>2. c \in Seq(Block) /\ \A i, j \in 1..L : i < j => Hash(c[i]) <= Hash(c[j])
  BY <1>1 DEF ChainOK
<1>3. L \in Nat /\ \A i \in 1..L : c[i] \in Block
  BY <1>1, <1>2
<1>4. \A i \in 1..L : Hash(c[i]) \in Nat
  BY <1>3, HashIs
<1>5. CASE A = {}
  <2>1. Above(c, hn) = L + 1
    BY <1>1, <1>5 DEF Above
  <2>2. \A i \in 1..L : ~(Hash(c[i]) > hn)
    BY <1>1, <1>5
  <2>3. L + 1 \in 1..L + 1 /\ \A i \in 1..L : ~(i >= L + 1)
    BY <1>3
  <2>4. QED
    BY <1>1, <2>1, <2>2, <2>3
<1>6. CASE A # {}
  <2>1. Above(c, hn) = Min(A)
    BY <1>1, <1>6 DEF Above
  <2>2. A \subseteq Nat
    BY <1>1
  <2>3. PICK p : p = Min(A)
    OBVIOUS
  <2>4. p \in A /\ \A i \in A : p <= i
    BY <1>6, <2>2, <2>3, MinIn
  <2>5. p \in 1..L /\ Hash(c[p]) > hn
    BY <1>1, <2>4
  <2>6. ASSUME NEW i \in 1..L PROVE Hash(c[i]) > hn <=> i >= p
    <3>1. ASSUME Hash(c[i]) > hn PROVE i >= p
      <4>1. i \in A
        BY <1>1, <3>1
      <4>2. QED
        BY <2>4, <2>5, <4>1
    <3>2. ASSUME i >= p PROVE Hash(c[i]) > hn
      <4>1. i = p \/ p < i
        BY <2>5, <3>2
      <4>2. Hash(c[p]) <= Hash(c[i])
        BY <1>2, <1>4, <2>5, <4>1
      <4>3. QED
        BY <1>4, <2>5, <4>2
    <3>3. QED
      BY <3>1, <3>2
  <2>7. p \in 1..L + 1
    BY <1>3, <2>5
  <2>8. QED
    BY <1>1, <2>1, <2>3, <2>6, <2>7
<1>7. QED
  BY <1>5, <1>6

LEMMA FirstAboveIs ==
  ASSUME NEW c, ChainOK(c), NEW hn \in Nat
  PROVE  FirstPast(c, hn, FirstAbove(c, hn))
<1>1. PICK L, p, r : L = Len(c) /\ p = Above(c, hn) /\ r = FirstAbove(c, hn)
  OBVIOUS
<1>2. c \in Seq(Block) /\ L \in Nat /\ p \in 1..L + 1 /\ \A i \in 1..L : Hash(c[i]) > hn <=> i >= p
  <2>1. c \in Seq(Block)
    BY DEF ChainOK
  <2>2. /\ Above(c, hn) \in 1..Len(c) + 1
        /\ \A i \in 1..Len(c) : Hash(c[i]) > hn <=> i >= Above(c, hn)
    BY AboveIs
  <2>3. QED
    BY <1>1, <2>1, <2>2
<1>3. (p <= L => r = c[p]) /\ (p > L => r = NULL)
  <2>1. c \in Seq(Block) /\ p \in 1..Len(c) + 1
    BY <1>1, <1>2
  <2>2. QED
    BY <1>1, <2>1, Head1Sub DEF FirstAbove
<1>4. CASE p <= L
  <2>1. p \in 1..L /\ c[p] \in Block
    BY <1>1, <1>2, <1>4
  <2>2. r = c[p] /\ r # NULL /\ Within(c, r) /\ Hash(r) > hn
    BY <1>1, <1>2, <1>3, <1>4, <2>1, HashIs DEF Within
  <2>3. ASSUME NEW x, Within(c, x), Hash(x) > hn, x # r PROVE Comes(c, r, x)
    <3>1. PICK i \in 1..L : c[i] = x
      BY <1>1, <2>3 DEF Within
    <3>2. i >= p /\ i # p
      BY <1>2, <2>2, <2>3, <3>1
    <3>3. p < i
      BY <2>1, <3>2
    <3>4. QED
      BY <1>1, <2>1, <2>2, <3>1, <3>3 DEF Comes
  <2>4. QED
    BY <1>1, <2>2, <2>3 DEF FirstPast
<1>5. CASE ~(p <= L)
  <2>1. r = NULL
    BY <1>2, <1>3, <1>5
  <2>2. \A i \in 1..L : ~(i >= p)
    BY <1>2, <1>5
  <2>3. ASSUME NEW x, Within(c, x) PROVE Hash(x) <= hn
    <3>1. PICK i \in 1..L : c[i] = x
      BY <1>1, <2>3 DEF Within
    <3>2. ~(Hash(x) > hn) /\ Hash(x) \in Nat
      BY <1>1, <1>2, <2>2, <3>1, HashIs
    <3>3. QED
      BY <3>2
  <2>4. QED
    BY <1>1, <2>1, <2>3 DEF FirstPast
<1>6. QED
  BY <1>4, <1>5

LEMMA MembIs ==
  ASSUME NEW t, NEW k \in Key, NEW c, c = t.chains[Hchain(t, HashOf[k])], ChainOK(c)
  PROVE  /\ Memb(t, k) \in 1..Len(c) + 1
         /\ Found(t, k) <=> \E x : Within(c, x) /\ x[1] = k
         /\ Found(t, k) => Memb(t, k) \in 1..Len(c) /\ c[Memb(t, k)][1] = k
         /\ ~Found(t, k) => \A i \in 1..Len(c) :
              /\ c[i][1] # k
              /\ i < Memb(t, k) => Hash(c[i]) <= HashOf[k]
              /\ i >= Memb(t, k) => HashOf[k] <= Hash(c[i])
<1>1. PICK L, A : L = Len(c) /\ A = {i \in 1..L : c[i][1] = k \/ Hash(c[i]) > HashOf[k]}
  OBVIOUS
<1>2. PICK p : p = Memb(t, k)
  OBVIOUS
<1>3. p = IF A = {} THEN L + 1 ELSE Min(A)
  BY <1>1, <1>2 DEF Memb
<1>4. Found(t, k) <=> p <= L /\ c[p][1] = k
  BY <1>1, <1>2 DEF Found
<1>5. /\ c \in Seq(Block)
      /\ \A i, j \in 1..L : i < j => Hash(c[i]) <= Hash(c[j]) /\ c[i][1] # c[j][1]
  BY <1>1 DEF ChainOK
<1>6. L \in Nat /\ HashOf[k] \in Nat /\ \A i \in 1..L : c[i] \in Block /\ i \in Nat
  BY <1>1, <1>5, KeyAssumption
<1>7. \A i \in 1..L : Hash(c[i]) \in Nat /\ (c[i][1] = k => Hash(c[i]) = HashOf[k])
  BY <1>6, HashIs
<1>8. /\ p \in 1..L + 1 /\ \A i \in A : p <= i
      /\ p <= L => p \in A
  <2>1. CASE A = {}
    BY <1>3, <1>6, <2>1
  <2>2. CASE A # {}
    <3>1. A \subseteq Nat
      BY <1>1
    <3>2. p = Min(A)
      BY <1>3, <2>2
    <3>3. p \in A /\ \A i \in A : p <= i
      BY <2>2, <3>1, <3>2, MinIn
    <3>4. p \in 1..L
      BY <1>1, <3>3
    <3>5. QED
      BY <1>6, <3>3, <3>4
  <2>3. QED
    BY <2>1, <2>2
<1>9. ASSUME NEW i \in 1..L, c[i][1] = k PROVE p = i
  <2>1. i \in A
    BY <1>1, <1>9
  <2>2. p <= i /\ p \in 1..L
    BY <1>6, <1>8, <2>1
  <2>3. p \in A
    BY <1>8, <2>2
  <2>4. c[p][1] = k \/ Hash(c[p]) > HashOf[k]
    BY <1>1, <2>3
  <2>5. ~(p < i)
    <3> SUFFICES ASSUME p < i PROVE FALSE
      OBVIOUS
    <3>1. Hash(c[p]) <= Hash(c[i]) /\ c[p][1] # c[i][1]
      BY <1>5, <2>2
    <3>2. QED
      BY <1>6, <1>7, <1>9, <2>2, <2>4, <3>1
  <2>6. QED
    BY <2>2, <2>5
<1>10. Found(t, k) <=> \E x : Within(c, x) /\ x[1] = k
  <2>1. ASSUME Found(t, k) PROVE \E x : Within(c, x) /\ x[1] = k
    <3>1. p \in 1..L /\ c[p][1] = k
      BY <1>4, <1>6, <1>8, <2>1
    <3>2. QED
      BY <1>1, <3>1 DEF Within
  <2>2. ASSUME NEW x, Within(c, x), x[1] = k PROVE Found(t, k)
    <3>1. PICK i \in 1..L : c[i] = x
      BY <1>1, <2>2 DEF Within
    <3>2. p = i
      BY <1>9, <2>2, <3>1
    <3>3. QED
      BY <1>4, <1>6, <2>2, <3>1, <3>2
  <2>3. QED
    BY <2>1, <2>2
<1>11. ASSUME ~Found(t, k), NEW i \in 1..L
       PROVE  /\ c[i][1] # k
              /\ i < p => Hash(c[i]) <= HashOf[k]
              /\ i >= p => HashOf[k] <= Hash(c[i])
  <2>1. c[i][1] # k
    BY <1>1, <1>10, <1>11 DEF Within
  <2>2. ASSUME i < p PROVE Hash(c[i]) <= HashOf[k]
    <3>1. i \notin A
      BY <1>8, <2>2
    <3>2. QED
      BY <1>1, <1>6, <1>7, <3>1
  <2>3. ASSUME i >= p PROVE HashOf[k] <= Hash(c[i])
    <3>1. p \in 1..L
      BY <1>6, <1>8, <2>3
    <3>2. p \in A
      BY <1>8, <3>1
    <3>3. Hash(c[p]) > HashOf[k]
      BY <1>1, <1>4, <1>11, <3>1, <3>2
    <3>4. p = i \/ p < i
      BY <2>3, <3>1
    <3>5. Hash(c[p]) <= Hash(c[i])
      BY <1>5, <1>7, <3>1, <3>4
    <3>6. QED
      BY <1>6, <1>7, <3>1, <3>3, <3>5
  <2>4. QED
    BY <2>1, <2>2, <2>3
<1>12. Found(t, k) => p \in 1..L /\ c[p][1] = k
  BY <1>4, <1>8
<1>13. QED
  BY <1>1, <1>2, <1>8, <1>10, <1>11, <1>12

\* Within and Comes, for the first n of a chain.
Upto(c, n, x) == \E i \in 1..n : c[i] = x
ComesUpto(c, n, x, y) == \E i, j \in 1..n : i < j /\ c[i] = x /\ c[j] = y

LEMMA UptoNext ==
  ASSUME NEW c, NEW n \in Nat \ {0}
  PROVE  /\ \A x : Upto(c, n, x) <=> Upto(c, n - 1, x) \/ x = c[n]
         /\ \A x, y : ComesUpto(c, n, x, y) <=>
              ComesUpto(c, n - 1, x, y) \/ (Upto(c, n - 1, x) /\ y = c[n])
<1>1. \A i \in 1..n : i \in Int /\ (i \in 1..n - 1 \/ i = n)
  OBVIOUS
<1>2. n \in 1..n /\ \A i \in 1..n - 1 : i \in 1..n /\ i < n
  OBVIOUS
<1>3. ASSUME NEW x PROVE Upto(c, n, x) <=> Upto(c, n - 1, x) \/ x = c[n]
  BY <1>1, <1>2 DEF Upto
<1>4. ASSUME NEW x, NEW y
      PROVE  ComesUpto(c, n, x, y) <=>
               ComesUpto(c, n - 1, x, y) \/ (Upto(c, n - 1, x) /\ y = c[n])
  <2>1. ASSUME ComesUpto(c, n, x, y)
        PROVE  ComesUpto(c, n - 1, x, y) \/ (Upto(c, n - 1, x) /\ y = c[n])
    <3>1. PICK i, j \in 1..n : i < j /\ c[i] = x /\ c[j] = y
      BY <2>1 DEF ComesUpto
    <3>2. i \in 1..n - 1
      BY <3>1
    <3>3. CASE j \in 1..n - 1
      BY <3>1, <3>2, <3>3 DEF ComesUpto
    <3>4. CASE j = n
      BY <3>1, <3>2, <3>4 DEF Upto
    <3>5. QED
      BY <1>1, <3>3, <3>4
  <2>2. ComesUpto(c, n - 1, x, y) => ComesUpto(c, n, x, y)
    BY <1>2 DEF ComesUpto
  <2>3. Upto(c, n - 1, x) /\ y = c[n] => ComesUpto(c, n, x, y)
    BY <1>2 DEF ComesUpto, Upto
  <2>4. QED
    BY <2>1, <2>2, <2>3
<1>5. QED
  BY <1>3, <1>4

\* The part d of the first i of c that is on the side of bit.
SideOf(d, c, i, n, bit) ==
  /\ ChainOK(d)
  /\ \A x : Within(d, x) <=> Upto(c, i, x) /\ Bit(Hash(x), n) = bit
  /\ \A x, y : Comes(d, x, y) <=> /\ ComesUpto(c, i, x, y)
                                  /\ Bit(Hash(x), n) = bit /\ Bit(Hash(y), n) = bit

LEMMA NilIs == ChainOK(<<>>) /\ \A x, y : ~Within(<<>>, x) /\ ~Comes(<<>>, x, y)
  BY DEF ChainOK, Within, Comes

LEMMA SideIs ==
  ASSUME NEW c, ChainOK(c), NEW n, NEW bit
  PROVE  SideOf(Side(c, n, bit), c, Len(c), n, bit)
<1>1. PICK L : L = Len(c)
  OBVIOUS
<1>2. /\ c \in Seq(Block) /\ L \in Nat /\ \A i \in 1..L : c[i] \in Block
      /\ \A i, j \in 1..L : i < j => Hash(c[i]) <= Hash(c[j]) /\ c[i][1] # c[j][1]
  <2>1. c \in Seq(Block) /\ \A i, j \in 1..L : i < j => Hash(c[i]) <= Hash(c[j]) /\ c[i][1] # c[j][1]
    BY <1>1 DEF ChainOK
  <2>2. QED
    BY <1>1, <2>1
<1> DEFINE Go(i, s) == IF Bit(Hash(c[i]), n) = bit THEN Append(s, c[i]) ELSE s
           Body(f) == [i \in 0..L |-> IF i = 0 THEN <<>> ELSE Go(i, f[i - 1])]
<1>3. PICK X, F : X = Seq(Block) /\ F = [p \in (1..L) \X X |-> Go(p[1], p[2])]
  OBVIOUS
<1>4. \A i \in 1..L : \A s \in X : F[<<i, s>>] = Go(i, s) /\ Go(i, s) \in X
  BY <1>2, <1>3
<1> HIDE DEF Go
<1>5. PICK f : Recursive(f, L, X, <<>>, F)
  <2>1. F \in [(1..L) \X X -> X]
    <3>1. \A p \in (1..L) \X X : p[1] \in 1..L /\ p[2] \in X /\ p = <<p[1], p[2]>>
      OBVIOUS
    <3>2. \A p \in (1..L) \X X : Go(p[1], p[2]) \in X
      BY <1>4, <3>1
    <3>3. QED
      BY <1>3, <3>2
  <2>2. <<>> \in X
    BY <1>3
  <2>3. QED
    BY <1>2, <2>1, <2>2, Recursion
<1>6. f \in [0..L -> X] /\ f[0] = <<>> /\ \A i \in 1..L : f[i] = Go(i, f[i - 1])
  <2>1. \A i \in 1..L : i - 1 \in 0..L
    BY <1>2
  <2>2. QED
    BY <1>4, <1>5, <2>1 DEF Recursive
<1>7. f = Body(f)
  <2>1. \A i \in 0..L : i # 0 => i \in 1..L
    BY <1>2
  <2>2. QED
    BY <1>6, <2>1
<1>8. PICK g : g = CHOOSE h : h = Body(h)
  OBVIOUS
<1>9. g = Body(g)
  <2> HIDE DEF Body
  <2>1. \E h : h = Body(h)
    BY <1>7
  <2>2. QED
    BY <1>8, <2>1
<1>10. Side(c, n, bit) = g[L]
  BY <1>1, <1>8 DEF Side, Go
<1>11. g[0] = <<>> /\ \A i \in 1..L : g[i] = Go(i, g[i - 1])
  <2>1. 0 \in 0..L /\ \A i \in 1..L : i \in 0..L /\ i # 0
    BY <1>2
  <2>2. QED
    BY <1>9, <2>1
<1> DEFINE T == {i \in 0..L : SideOf(g[i], c, i, n, bit)}
<1>12. 0 \in T
  <2>1. 0 \in 0..L /\ \A x, y : ~Upto(c, 0, x) /\ ~ComesUpto(c, 0, x, y)
    BY <1>2 DEF Upto, ComesUpto
  <2>2. QED
    BY <1>11, <2>1, NilIs DEF SideOf
<1>13. ASSUME NEW i \in 0..L, i \in T, i < L PROVE i + 1 \in T
  <2>1. PICK j, s, d : j = i + 1 /\ s = g[i] /\ d = g[j]
    OBVIOUS
  <2>2. j \in 1..L /\ j \in 0..L /\ j - 1 = i /\ j \in Nat \ {0}
    BY <1>2, <1>13, <2>1
  <2>3. d = Go(j, s) /\ SideOf(s, c, i, n, bit) /\ c[j] \in Block
    BY <1>2, <1>11, <1>13, <2>1, <2>2
  <2>4. /\ \A x : Upto(c, j, x) <=> Upto(c, i, x) \/ x = c[j]
        /\ \A x, y : ComesUpto(c, j, x, y) <=>
              ComesUpto(c, i, x, y) \/ (Upto(c, i, x) /\ y = c[j])
    BY <2>2, UptoNext
  <2>5. CASE Bit(Hash(c[j]), n) = bit
    <3>1. d = Append(s, c[j])
      BY <2>3, <2>5 DEF Go
    <3>2. ASSUME NEW x, Within(s, x) PROVE x[1] # c[j][1] /\ Hash(x) <= Hash(c[j])
      <4>1. Upto(c, i, x)
        BY <2>3, <3>2 DEF SideOf
      <4>2. PICK l \in 1..i : c[l] = x
        BY <4>1 DEF Upto
      <4>3. l \in 1..L /\ l < j
        BY <1>2, <2>2, <4>2
      <4>4. QED
        BY <1>2, <2>2, <4>2, <4>3
    <3>3. /\ ChainOK(d)
          /\ \A x : Within(d, x) <=> Within(s, x) \/ x = c[j]
          /\ \A x, y : Comes(d, x, y) <=> Comes(s, x, y) \/ (Within(s, x) /\ y = c[j])
      <4>1. ChainOK(s)
        BY <2>3 DEF SideOf
      <4>2. QED
        BY <2>3, <3>1, <3>2, <4>1, AppendKeeps
    <3>4. SideOf(d, c, j, n, bit)
      BY <2>3, <2>4, <2>5, <3>3 DEF SideOf
    <3>5. QED
      BY <2>1, <2>2, <3>4
  <2>6. CASE Bit(Hash(c[j]), n) # bit
    <3>1. d = s
      BY <2>3, <2>6 DEF Go
    <3>2. SideOf(d, c, j, n, bit)
      BY <2>3, <2>4, <2>6, <3>1 DEF SideOf
    <3>3. QED
      BY <2>1, <2>2, <3>2
  <2>7. QED
    BY <2>5, <2>6
<1> HIDE DEF T
<1>14. \A i \in 0..L : i \in T
  BY <1>2, <1>12, <1>13, Upwards
<1>15. QED
  BY <1>1, <1>2, <1>10, <1>14 DEF T

LEMMA SideKeeps ==
  ASSUME NEW c, ChainOK(c), NEW n, NEW bit, NEW d, d = Side(c, n, bit)
  PROVE  /\ ChainOK(d)
         /\ \A x : Within(d, x) <=> Within(c, x) /\ Bit(Hash(x), n) = bit
         /\ \A x, y : Comes(d, x, y) <=> /\ Comes(c, x, y)
                                         /\ Bit(Hash(x), n) = bit /\ Bit(Hash(y), n) = bit
<1>1. SideOf(d, c, Len(c), n, bit)
  BY SideIs
<1>2. /\ \A x : Upto(c, Len(c), x) <=> Within(c, x)
      /\ \A x, y : ComesUpto(c, Len(c), x, y) <=> Comes(c, x, y)
  BY DEF Upto, ComesUpto, Within, Comes
<1>3. QED
  BY <1>1, <1>2 DEF SideOf

\* a merged with the first i of c
MergedTo(d, a, c, i) ==
  ChainOK(d) /\ \A x : Within(d, x) <=> Within(a, x) \/ Upto(c, i, x)

LEMMA MergedIs ==
  ASSUME NEW a, NEW c, ChainOK(a), ChainOK(c),
         \A x, y : Within(a, x) /\ Within(c, y) => x[1] # y[1]
  PROVE  MergedTo(Merged(a, c), a, c, Len(c))
<1>1. PICK L : L = Len(c)
  OBVIOUS
<1>2. /\ c \in Seq(Block) /\ L \in Nat /\ \A i \in 1..L : c[i] \in Block /\ Within(c, c[i])
      /\ \A i, j \in 1..L : i < j => c[i][1] # c[j][1]
      /\ a \in Seq(Block)
  <2>1. c \in Seq(Block) /\ \A i, j \in 1..L : i < j => c[i][1] # c[j][1]
    BY <1>1 DEF ChainOK
  <2>2. a \in Seq(Block)
    BY DEF ChainOK
  <2>3. QED
    BY <1>1, <2>1, <2>2 DEF Within
<1> DEFINE Go(i, s) == InsertAt(s, Above(s, Hash(c[i])), c[i])
           Body(f) == [i \in 0..L |-> IF i = 0 THEN a ELSE Go(i, f[i - 1])]
           OK(s, i) == MergedTo(s, a, c, i)
<1>3. ASSUME NEW s, ChainOK(s), NEW i \in 1..L, \A x : Within(s, x) => x[1] # c[i][1]
      PROVE  ChainOK(Go(i, s)) /\ \A x : Within(Go(i, s), x) <=> Within(s, x) \/ x = c[i]
  <2>1. PICK b, hn, p, d : b = c[i] /\ hn = Hash(b) /\ p = Above(s, hn) /\ d = InsertAt(s, p, b)
    OBVIOUS
  <2>2. b \in Block /\ hn \in Nat
    BY <1>2, <2>1, HashIs
  <2>3. p \in 1..Len(s) + 1 /\ \A l \in 1..Len(s) : Hash(s[l]) > hn <=> l >= p
    BY <1>3, <2>1, <2>2, AboveIs
  <2>4. s \in Seq(Block)
    BY <1>3 DEF ChainOK
  <2>5. ASSUME NEW l \in 1..Len(s)
        PROVE  /\ s[l][1] # b[1]
               /\ l < p => Hash(s[l]) <= Hash(b)
               /\ l >= p => Hash(b) <= Hash(s[l])
    <3>1. s[l] \in Block /\ Within(s, s[l])
      BY <2>4 DEF Within
    <3>2. Hash(s[l]) \in Nat /\ s[l][1] # b[1]
      BY <1>3, <2>1, <3>1, HashIs
    <3>3. l \in Int /\ p \in Int
      BY <2>3
    <3>4. Hash(s[l]) > hn <=> l >= p
      BY <2>3
    <3>5. QED
      BY <2>1, <2>2, <3>2, <3>3, <3>4
  <2>6. /\ ChainOK(d)
        /\ \A x : Within(d, x) <=> Within(s, x) \/ x = b
    BY <1>3, <2>1, <2>2, <2>3, <2>5, InsertKeeps
  <2>7. QED
    BY <2>1, <2>6
<1> DEFINE Next1(i, s) == IF ChainOK(s) /\ \A x : Within(s, x) => x[1] # c[i][1]
                            THEN Go(i, s) ELSE a
<1>4. PICK X, F : X = Seq(Block) /\ F = [p \in (1..L) \X X |-> Next1(p[1], p[2])]
  OBVIOUS
<1>5. \A i \in 1..L : \A s \in X : F[<<i, s>>] = Next1(i, s) /\ Next1(i, s) \in X
  <2>1. \A i \in 1..L : \A s \in X : Next1(i, s) \in X
    <3> SUFFICES ASSUME NEW i \in 1..L, NEW s \in X PROVE Next1(i, s) \in X
      OBVIOUS
    <3> HIDE DEF Go
    <3>1. ASSUME ChainOK(s), \A x : Within(s, x) => x[1] # c[i][1] PROVE Go(i, s) \in X
      <4>1. ChainOK(Go(i, s))
        BY <1>3, <3>1
      <4>2. QED
        BY <1>4, <4>1 DEF ChainOK
    <3>2. a \in X
      BY <1>2, <1>4
    <3>3. QED
      BY <3>1, <3>2
  <2> HIDE DEF Next1
  <2>2. \A i \in 1..L : \A s \in X : <<i, s>> \in (1..L) \X X /\ <<i, s>>[1] = i /\ <<i, s>>[2] = s
    OBVIOUS
  <2>3. QED
    BY <1>4, <2>1, <2>2
<1> HIDE DEF Go, Next1
<1>6. PICK f : Recursive(f, L, X, a, F)
  <2>1. F \in [(1..L) \X X -> X]
    <3>1. \A p \in (1..L) \X X : p[1] \in 1..L /\ p[2] \in X /\ p = <<p[1], p[2]>>
      OBVIOUS
    <3>2. \A p \in (1..L) \X X : Next1(p[1], p[2]) \in X
      BY <1>5, <3>1
    <3>3. QED
      BY <1>4, <3>2
  <2>2. a \in X
    BY <1>2, <1>4
  <2>3. QED
    BY <1>2, <2>1, <2>2, Recursion
<1>7. f \in [0..L -> X] /\ f[0] = a /\ \A i \in 1..L : f[i] = Next1(i, f[i - 1])
  <2>1. \A i \in 1..L : i - 1 \in 0..L
    BY <1>2
  <2>2. QED
    BY <1>5, <1>6, <2>1 DEF Recursive
<1>8. ASSUME NEW i \in 1..L, NEW s, OK(s, i - 1)
      PROVE  Next1(i, s) = Go(i, s) /\ OK(Go(i, s), i)
  <2>1. i \in Nat \ {0} /\ ChainOK(s) /\ \A x : Within(s, x) <=> Within(a, x) \/ Upto(c, i - 1, x)
    BY <1>8 DEF MergedTo
  <2>2. ASSUME NEW x, Within(s, x) PROVE x[1] # c[i][1]
    <3>1. CASE Within(a, x)
      BY <1>2, <3>1
    <3>2. CASE Upto(c, i - 1, x)
      <4>1. PICK l \in 1..i - 1 : c[l] = x
        BY <3>2 DEF Upto
      <4>2. l \in 1..L /\ l < i
        BY <1>2, <4>1
      <4>3. QED
        BY <1>2, <4>1, <4>2
    <3>3. QED
      BY <2>1, <2>2, <3>1, <3>2
  <2>3. Next1(i, s) = Go(i, s)
    BY <2>1, <2>2 DEF Next1
  <2>4. ChainOK(Go(i, s)) /\ \A x : Within(Go(i, s), x) <=> Within(s, x) \/ x = c[i]
    BY <1>3, <2>1, <2>2
  <2>5. \A x : Upto(c, i, x) <=> Upto(c, i - 1, x) \/ x = c[i]
    BY <2>1, UptoNext
  <2>6. QED
    BY <2>1, <2>3, <2>4, <2>5 DEF MergedTo
<1>9. OK(a, 0)
  BY DEF MergedTo, Upto
<1> DEFINE T == {i \in 0..L : OK(f[i], i)}
<1>10. \A i \in 0..L : i \in T
  <2>1. 0 \in T
    BY <1>2, <1>7, <1>9
  <2>2. ASSUME NEW i \in 0..L, i \in T, i < L PROVE i + 1 \in T
    <3>1. PICK j, s : j = i + 1 /\ s = f[i]
      OBVIOUS
    <3>2. j \in 1..L /\ j \in 0..L /\ j - 1 = i /\ OK(s, j - 1)
      BY <1>2, <2>2, <3>1
    <3> HIDE DEF OK
    <3>3. f[j] = Go(j, s) /\ OK(Go(j, s), j)
      BY <1>7, <1>8, <3>1, <3>2
    <3>4. QED
      BY <3>1, <3>2, <3>3
  <2> HIDE DEF T
  <2>3. QED
    BY <1>2, <2>1, <2>2, Upwards
<1>11. f = Body(f)
  <2>1. ASSUME NEW i \in 0..L, i # 0 PROVE f[i] = Go(i, f[i - 1])
    <3>1. i \in 1..L /\ i - 1 \in 0..L
      BY <1>2, <2>1
    <3>2. i - 1 \in T
      BY <1>10, <3>1
    <3>3. OK(f[i - 1], i - 1)
      BY <3>2
    <3> HIDE DEF OK, T
    <3>4. Next1(i, f[i - 1]) = Go(i, f[i - 1])
      BY <1>8, <3>1, <3>3
    <3>5. QED
      BY <1>7, <3>1, <3>4
  <2> HIDE DEF T
  <2>2. QED
    BY <1>7, <2>1
<1>12. PICK g : g = CHOOSE h : h = Body(h)
  OBVIOUS
<1>13. g = Body(g)
  <2> HIDE DEF Body
  <2>1. \E h : h = Body(h)
    BY <1>11
  <2>2. QED
    BY <1>12, <2>1
<1>14. g[0] = a /\ \A i \in 1..L : g[i] = Go(i, g[i - 1])
  <2>1. 0 \in 0..L /\ \A i \in 1..L : i \in 0..L /\ i # 0
    BY <1>2
  <2>2. QED
    BY <1>13, <2>1
<1> DEFINE U == {i \in 0..L : g[i] = f[i]}
<1>15. \A i \in 0..L : i \in U
  <2>1. 0 \in U
    BY <1>2, <1>7, <1>14
  <2>2. ASSUME NEW i \in 0..L, i \in U, i < L PROVE i + 1 \in U
    <3>1. i + 1 \in 1..L /\ i + 1 \in 0..L /\ (i + 1) - 1 = i /\ i + 1 # 0
      BY <1>2, <2>2
    <3>2. g[i + 1] = Go(i + 1, g[i])
      BY <1>14, <3>1
    <3>3. f[i + 1] = Go(i + 1, f[i])
      BY <1>11, <3>1
    <3>4. QED
      BY <2>2, <3>1, <3>2, <3>3
  <2> HIDE DEF U
  <2>3. QED
    BY <1>2, <2>1, <2>2, Upwards
<1>16. g[L] = f[L] /\ L \in T
  <2>1. L \in 0..L
    BY <1>2
  <2>2. L \in T /\ L \in U
    BY <1>10, <1>15, <2>1
  <2>3. QED
    BY <2>2
<1>17. Merged(a, c) = g[L]
  BY <1>1, <1>12 DEF Merged, Go
<1>18. QED
  BY <1>1, <1>16, <1>17

-----------------------------------------------------------------------------
(* Structures.                                                             *)

In(t, b) == \E s \in 0..t.mask : Within(t.chains[s], b)
Before(t, a, b) == \E s \in 0..t.mask : Comes(t.chains[s], a, b)

\* How many slots there are.
Size(t) == t.mask + 1
IsSize(n) == \E k \in 0..Top : n = Slots[k]

\* The structure is one of such a form, and every block is where its hash
\* number puts it.
Shape(t) ==
  /\ t = [size |-> t.size, mask |-> t.mask, chains |-> t.chains, stale |-> t.stale]
  /\ t.mask \in Nat /\ t.mask >= 1 /\ IsSize(t.mask + 1)
  /\ t.chains \in [0..t.mask -> Seq(Block)]
  /\ \A s \in 0..t.mask : ChainOK(t.chains[s])
  /\ \A s \in 0..t.mask : \A b : Within(t.chains[s], b) => Hash(b) % (t.mask + 1) = s

TabOK(t) == Shape(t) /\ t.size \in Nat /\ t.size = Cardinality(Members(t))

LEMMA MembersAre ==
  ASSUME NEW t, Shape(t)
  PROVE  /\ \A b : b \in Members(t) <=> In(t, b)
         /\ Members(t) \subseteq Block
<1>1. \A s \in 0..t.mask : t.chains[s] \in Seq(Block)
  BY DEF Shape
<1>2. \A s \in 0..t.mask : \A b : b \in ToSet(t.chains[s]) <=> Within(t.chains[s], b)
  BY <1>1 DEF ToSet, Within
<1>3. \A b : b \in Members(t) <=> In(t, b)
  BY <1>2 DEF Members, In
<1>4. \A b : In(t, b) => b \in Block
  <2>1. \A s \in 0..t.mask : ChainOK(t.chains[s])
    BY DEF Shape
  <2>2. \A s \in 0..t.mask : \A b : Within(t.chains[s], b) => b \in Block
    BY <2>1, ChainFacts
  <2>3. QED
    BY <2>2 DEF In
<1>5. QED
  BY <1>3, <1>4

LEMMA BlockFinite == IsFiniteSet(Block)
<1>1. IsFiniteSet(1..MaxCopies) /\ IsFiniteSet(Key)
  BY KeyAssumption, BoundsAssumption, FS_Interval
<1>2. QED
  BY <1>1, FS_Product DEF Block

LEMMA MembersFinite ==
  ASSUME NEW t, Shape(t)
  PROVE  IsFiniteSet(Members(t)) /\ Cardinality(Members(t)) \in Nat
<1>1. Members(t) \in SUBSET Block
  BY MembersAre
<1>2. IsFiniteSet(Members(t))
  BY <1>1, BlockFinite, FS_Subset
<1>3. QED
  BY <1>2, FS_CardinalityType

\* The slot of a block, and the order within slots.
LEMMA PlaceIs ==
  ASSUME NEW t, Shape(t)
  PROVE  /\ \A h \in Nat : Hchain(t, h) \in 0..t.mask
         /\ \A b : In(t, b) => /\ b \in Block /\ Hash(b) \in Nat /\ b # NULL
                               /\ Within(t.chains[Hchain(t, Hash(b))], b)
         /\ \A s \in 0..t.mask : \A b : Within(t.chains[s], b) => In(t, b) /\ Hchain(t, Hash(b)) = s
<1>1. t.mask + 1 \in Nat \ {0} /\ \A s \in 0..t.mask : ChainOK(t.chains[s])
  BY DEF Shape
<1>2. \A h \in Nat : Hchain(t, h) \in 0..t.mask
  <2> SUFFICES ASSUME NEW h \in Nat PROVE Hchain(t, h) \in 0..t.mask
    OBVIOUS
  <2>1. h % (t.mask + 1) \in 0..(t.mask + 1) - 1
    BY <1>1, DivMod
  <2>2. (t.mask + 1) - 1 = t.mask
    BY DEF Shape
  <2>3. QED
    BY <2>1, <2>2 DEF Hchain
<1>3. \A s \in 0..t.mask : \A b : Within(t.chains[s], b) => In(t, b) /\ Hchain(t, Hash(b)) = s
  BY DEF Shape, In, Hchain
<1>4. ASSUME NEW b, In(t, b)
      PROVE  /\ b \in Block /\ Hash(b) \in Nat /\ b # NULL
             /\ Within(t.chains[Hchain(t, Hash(b))], b)
  <2>1. PICK s \in 0..t.mask : Within(t.chains[s], b)
    BY <1>4 DEF In
  <2>2. b \in Block
    BY <1>1, <2>1, ChainFacts
  <2>3. QED
    BY <1>3, <2>1, <2>2, HashIs
<1>5. QED
  BY <1>2, <1>3, <1>4

LEMMA OrderIs ==
  ASSUME NEW t, Shape(t)
  PROVE  /\ \A a, b : Before(t, a, b) =>
              /\ In(t, a) /\ In(t, b) /\ a[1] # b[1] /\ Hash(a) <= Hash(b)
              /\ Hchain(t, Hash(a)) = Hchain(t, Hash(b)) /\ ~Before(t, b, a)
              /\ Comes(t.chains[Hchain(t, Hash(a))], a, b)
         /\ \A a, b : In(t, a) /\ In(t, b) => a[1] # b[1] \/ a = b
         /\ \A a, b : /\ In(t, a) /\ In(t, b) /\ a # b
                      /\ Hchain(t, Hash(a)) = Hchain(t, Hash(b))
                      => Before(t, a, b) \/ Before(t, b, a)
         /\ \A a, b, c : Before(t, a, b) /\ Before(t, b, c) => Before(t, a, c)
<1>1. /\ \A s \in 0..t.mask : ChainOK(t.chains[s])
      /\ \A h \in Nat : Hchain(t, h) \in 0..t.mask
      /\ \A b : In(t, b) => /\ b \in Block /\ Hash(b) \in Nat
                            /\ Within(t.chains[Hchain(t, Hash(b))], b)
      /\ \A s \in 0..t.mask : \A b : Within(t.chains[s], b) => In(t, b) /\ Hchain(t, Hash(b)) = s
  BY PlaceIs DEF Shape
<1>2. ASSUME NEW s \in 0..t.mask, NEW a, NEW b, Comes(t.chains[s], a, b)
      PROVE  /\ In(t, a) /\ In(t, b) /\ a[1] # b[1] /\ Hash(a) <= Hash(b)
             /\ Hchain(t, Hash(a)) = s /\ Hchain(t, Hash(b)) = s /\ ~Comes(t.chains[s], b, a)
             /\ Within(t.chains[s], a) /\ Within(t.chains[s], b)
  BY <1>1, <1>2, ChainFacts
<1>3. ASSUME NEW a, NEW b, Before(t, a, b)
      PROVE  /\ In(t, a) /\ In(t, b) /\ a[1] # b[1] /\ Hash(a) <= Hash(b)
             /\ Hchain(t, Hash(a)) = Hchain(t, Hash(b)) /\ ~Before(t, b, a)
             /\ Comes(t.chains[Hchain(t, Hash(a))], a, b)
  <2>1. PICK s \in 0..t.mask : Comes(t.chains[s], a, b)
    BY <1>3 DEF Before
  <2>2. ASSUME NEW r \in 0..t.mask, Comes(t.chains[r], b, a) PROVE FALSE
    <3>1. r = s
      BY <1>2, <2>1, <2>2
    <3>2. QED
      BY <1>2, <2>1, <2>2, <3>1
  <2>3. ~Before(t, b, a)
    BY <2>2 DEF Before
  <2>4. QED
    BY <1>2, <2>1, <2>3
<1>4. ASSUME NEW a, NEW b, In(t, a), In(t, b), a[1] = b[1] PROVE a = b
  <2>1. Hash(a) = Hash(b)
    BY <1>4 DEF Hash
  <2>2. PICK s : s = Hchain(t, Hash(a))
    OBVIOUS
  <2>3. s \in 0..t.mask /\ Within(t.chains[s], a) /\ Within(t.chains[s], b)
    BY <1>1, <1>4, <2>1, <2>2
  <2>4. QED
    BY <1>1, <1>4, <2>3, ChainFacts
<1>5. ASSUME NEW a, NEW b, In(t, a), In(t, b), a # b, Hchain(t, Hash(a)) = Hchain(t, Hash(b))
      PROVE  Before(t, a, b) \/ Before(t, b, a)
  <2>1. PICK s : s = Hchain(t, Hash(a))
    OBVIOUS
  <2>2. s \in 0..t.mask /\ Within(t.chains[s], a) /\ Within(t.chains[s], b)
    BY <1>1, <1>5, <2>1
  <2>3. Comes(t.chains[s], a, b) \/ Comes(t.chains[s], b, a)
    BY <1>1, <1>5, <2>2, ChainFacts
  <2>4. QED
    BY <2>2, <2>3 DEF Before
<1>6. ASSUME NEW a, NEW b, NEW c, Before(t, a, b), Before(t, b, c) PROVE Before(t, a, c)
  <2>1. PICK s \in 0..t.mask : Comes(t.chains[s], a, b)
    BY <1>6 DEF Before
  <2>2. PICK r \in 0..t.mask : Comes(t.chains[r], b, c)
    BY <1>6 DEF Before
  <2>3. r = s
    BY <1>2, <2>1, <2>2
  <2>4. Comes(t.chains[s], a, c)
    BY <1>1, <2>1, <2>2, <2>3, ChainFacts
  <2>5. QED
    BY <2>4 DEF Before
<1>7. QED
  BY <1>3, <1>4, <1>5, <1>6

LEMMA FoundIs ==
  ASSUME NEW t, Shape(t), NEW k \in Key
  PROVE  Found(t, k) <=> \E x : In(t, x) /\ x[1] = k
<1>1. PICK s : s = Hchain(t, HashOf[k])
  OBVIOUS
<1>2. HashOf[k] \in Nat
  BY KeyAssumption
<1>3. s \in 0..t.mask /\ ChainOK(t.chains[s])
  BY <1>1, <1>2, PlaceIs DEF Shape
<1>4. Found(t, k) <=> \E x : Within(t.chains[s], x) /\ x[1] = k
  BY <1>1, <1>3, MembIs
<1>5. ASSUME NEW x, In(t, x), x[1] = k PROVE Within(t.chains[s], x)
  BY <1>1, <1>5, PlaceIs DEF Hash
<1>6. \A x : Within(t.chains[s], x) => In(t, x)
  BY <1>3 DEF In
<1>7. QED
  BY <1>4, <1>5, <1>6

\* One chain is replaced by another.
Replaced(d, t, s, c, n) ==
  d = [size |-> n, mask |-> t.mask, chains |-> [t.chains EXCEPT ![s] = c], stale |-> d.stale]

LEMMA ReplacedShape ==
  ASSUME NEW t, Shape(t), NEW s \in 0..t.mask, NEW c, ChainOK(c),
         \A x : Within(c, x) => Hash(x) % (t.mask + 1) = s,
         NEW n, NEW d, Replaced(d, t, s, c, n)
  PROVE  /\ Shape(d) /\ d.mask = t.mask /\ d.size = n
         /\ d.chains[s] = c /\ \A r \in 0..t.mask : r # s => d.chains[r] = t.chains[r]
<1>1. PICK m, e : m = t.mask /\ e = [t.chains EXCEPT ![s] = c]
  OBVIOUS
<1>2. d = [size |-> n, mask |-> m, chains |-> e, stale |-> d.stale]
  BY <1>1 DEF Replaced
<1>3. d.size = n /\ d.mask = m /\ d.chains = e
  BY <1>2
<1>4. /\ m \in Nat /\ m >= 1 /\ IsSize(m + 1) /\ t.chains \in [0..m -> Seq(Block)]
      /\ \A r \in 0..m : ChainOK(t.chains[r])
      /\ \A r \in 0..m : \A b : Within(t.chains[r], b) => Hash(b) % (m + 1) = r
  BY <1>1 DEF Shape
<1>5. c \in Seq(Block)
  BY DEF ChainOK
<1>6. e \in [0..m -> Seq(Block)] /\ e[s] = c /\ \A r \in 0..m : r # s => e[r] = t.chains[r]
  BY <1>1, <1>4, <1>5
<1>7. \A r \in 0..m : ChainOK(e[r])
  BY <1>4, <1>6
<1>8. \A r \in 0..m : \A b : Within(e[r], b) => Hash(b) % (m + 1) = r
  BY <1>1, <1>4, <1>6
<1>9. Shape(d)
  BY <1>2, <1>3, <1>4, <1>6, <1>7, <1>8 DEF Shape
<1>10. QED
  BY <1>1, <1>3, <1>6, <1>9

LEMMA LinkedIs ==
  ASSUME NEW t, TabOK(t), NEW b \in Block, ~Found(t, b[1]), NEW d, d = Linked(t, b)
  PROVE  /\ TabOK(d) /\ d.mask = t.mask /\ d.size = t.size + 1 /\ d.stale = t.stale
         /\ \A x : In(d, x) <=> In(t, x) \/ x = b
         /\ ~In(t, b) /\ Members(d) = Members(t) \cup {b}
         /\ \A x, y : Before(t, x, y) => Before(d, x, y)
         /\ \A x, y : Before(d, x, y) /\ x # b /\ y # b => Before(t, x, y)
<1>1. PICK s, c, p, e, n : /\ s = Hchain(t, Hash(b)) /\ c = t.chains[s] /\ p = Memb(t, b[1])
                           /\ e = InsertAt(c, p, b) /\ n = t.size + 1
  OBVIOUS
<1>2. b[1] \in Key /\ Hash(b) \in Nat /\ Hash(b) = HashOf[b[1]]
  BY HashIs
<1>3. Shape(t) /\ t.size \in Nat /\ t.size = Cardinality(Members(t))
  BY DEF TabOK
<1>4. s \in 0..t.mask /\ ChainOK(c) /\ c = t.chains[Hchain(t, HashOf[b[1]])]
  BY <1>1, <1>2, <1>3, PlaceIs DEF Shape
<1>5. p \in 1..Len(c) + 1 /\ \A i \in 1..Len(c) :
              /\ c[i][1] # b[1]
              /\ i < p => Hash(c[i]) <= HashOf[b[1]]
              /\ i >= p => HashOf[b[1]] <= Hash(c[i])
  BY <1>1, <1>2, <1>4, MembIs
<1>6. /\ ChainOK(e)
      /\ \A x : Within(e, x) <=> Within(c, x) \/ x = b
      /\ \A x, y : Comes(c, x, y) => Comes(e, x, y)
      /\ \A x, y : Comes(e, x, y) /\ x # b /\ y # b => Comes(c, x, y)
  <2>1. \A i \in 1..Len(c) : /\ c[i][1] # b[1]
                             /\ i < p => Hash(c[i]) <= Hash(b)
                             /\ i >= p => Hash(b) <= Hash(c[i])
    BY <1>2, <1>5
  <2>2. e = InsertAt(c, p, b) /\ ChainOK(c) /\ p \in 1..Len(c) + 1
    BY <1>1, <1>4, <1>5
  <2>3. QED
    BY <2>1, <2>2, InsertKeeps
<1>7. Replaced(d, t, s, e, n) /\ d.stale = t.stale
  <2>1. t = [size |-> t.size, mask |-> t.mask, chains |-> t.chains, stale |-> t.stale]
    BY <1>3 DEF Shape
  <2>2. d = [size |-> n, mask |-> t.mask, chains |-> [t.chains EXCEPT ![s] = e], stale |-> t.stale]
    BY <1>1, <2>1 DEF Linked
  <2>3. QED
    BY <2>2 DEF Replaced
<1>8. \A x : Within(e, x) => Hash(x) % (t.mask + 1) = s
  <2>1. Hash(b) % (t.mask + 1) = s
    BY <1>1 DEF Hchain
  <2>2. \A x : Within(c, x) => Hash(x) % (t.mask + 1) = s
    BY <1>1, <1>3, <1>4 DEF Shape
  <2>3. QED
    BY <1>6, <2>1, <2>2
<1>9. /\ Shape(d) /\ d.mask = t.mask /\ d.size = n
      /\ d.chains[s] = e /\ \A r \in 0..t.mask : r # s => d.chains[r] = t.chains[r]
  BY <1>3, <1>4, <1>6, <1>7, <1>8, ReplacedShape
<1>10. \A x : In(d, x) <=> In(t, x) \/ x = b
  BY <1>1, <1>4, <1>6, <1>9 DEF In
<1>11. ~In(t, b)
  BY <1>2, <1>3, FoundIs
<1>12. \A x, y : Before(t, x, y) => Before(d, x, y)
  BY <1>1, <1>4, <1>6, <1>9 DEF Before
<1>13. \A x, y : Before(d, x, y) /\ x # b /\ y # b => Before(t, x, y)
  BY <1>1, <1>4, <1>6, <1>9 DEF Before
<1>14. Members(d) = Members(t) \cup {b} /\ b \notin Members(t)
  BY <1>3, <1>9, <1>10, <1>11, MembersAre
<1>15. TabOK(d)
  <2>1. IsFiniteSet(Members(t))
    BY <1>3, MembersFinite
  <2>2. Cardinality(Members(d)) = Cardinality(Members(t)) + 1
    BY <1>14, <2>1, FS_AddElement
  <2>3. QED
    BY <1>1, <1>3, <1>9, <2>2 DEF TabOK
<1>16. QED
  BY <1>1, <1>7, <1>9, <1>10, <1>11, <1>12, <1>13, <1>14, <1>15

\* r is what comes next after b, or NULL.
NextOf(t, b, r) ==
  /\ r = NULL => \A x : ~Before(t, b, x)
  /\ r # NULL => Before(t, b, r) /\ \A x : Before(t, b, x) /\ x # r => Before(t, r, x)

LEMMA ClinkIs ==
  ASSUME NEW t, Shape(t), NEW b, In(t, b), b \notin DOMAIN t.stale
  PROVE  NextOf(t, b, Clink(t, b))
<1>1. PICK s, c, L : s = Hchain(t, Hash(b)) /\ c = t.chains[s] /\ L = Len(c)
  OBVIOUS
<1>2. s \in 0..t.mask /\ ChainOK(c) /\ c \in Seq(Block) /\ L \in Nat /\ Within(c, b) /\ b \in Block
  <2>1. b \in Block /\ Hash(b) \in Nat /\ Within(t.chains[Hchain(t, Hash(b))], b)
    BY PlaceIs
  <2>2. s \in 0..t.mask
    BY <1>1, <2>1, PlaceIs
  <2>3. ChainOK(c)
    BY <1>1, <2>2 DEF Shape
  <2>4. c \in Seq(Block)
    BY <2>3 DEF ChainOK
  <2>5. QED
    BY <1>1, <2>1, <2>2, <2>3, <2>4
<1>3. PICK p \in 1..L : c[p] = b
  BY <1>1, <1>2 DEF Within
<1>4. \A i \in 1..L : c[i] = b => i = p
  BY <1>1, <1>2, <1>3, ChainFacts
<1>5. PICK r : r = Clink(t, b)
  OBVIOUS
<1>6. r = Head1(SubSeq(c, 1 + p, L))
  <2>1. {i \in 1..L : c[i] = b} = {p}
    BY <1>3, <1>4
  <2>2. Min({p}) = p
    BY <1>3, MinIn
  <2>3. SelectInSeq(c, LAMBDA x : x = b) = p
    BY <1>1, <2>1, <2>2 DEF SelectInSeq
  <2>4. QED
    BY <1>1, <1>5, <2>3 DEF Clink
<1>7. CASE p < L
  <2>1. 1 + p \in 1..L + 1 /\ 1 + p \in 1..L
    BY <1>2, <1>3, <1>7
  <2>2. r = c[1 + p]
    BY <1>1, <1>2, <1>6, <2>1, Head1Sub
  <2>3. r \in Block /\ r # NULL
    BY <1>1, <1>2, <2>1, <2>2, HashIs
  <2>4. Comes(c, b, r)
    BY <1>1, <1>3, <2>1, <2>2 DEF Comes
  <2>5. ASSUME NEW x, Comes(c, b, x), x # r PROVE Comes(c, r, x)
    <3>1. PICK i, j \in 1..L : i < j /\ c[i] = b /\ c[j] = x
      BY <1>1, <2>5 DEF Comes
    <3>2. i = p /\ j # 1 + p
      BY <1>4, <2>2, <2>5, <3>1
    <3>3. 1 + p < j
      BY <3>1, <3>2
    <3>4. QED
      BY <1>1, <2>1, <2>2, <3>1, <3>3 DEF Comes
  <2>6. \A x : Before(t, b, x) => Comes(c, b, x)
    BY <1>1, OrderIs
  <2>7. \A x, y : Comes(c, x, y) => Before(t, x, y)
    BY <1>1, <1>2 DEF Before
  <2>8. QED
    BY <1>5, <2>3, <2>4, <2>5, <2>6, <2>7 DEF NextOf
<1>8. CASE ~(p < L)
  <2>1. 1 + p \in 1..L + 1 /\ 1 + p > L
    BY <1>2, <1>3, <1>8
  <2>2. r = NULL
    BY <1>1, <1>2, <1>6, <2>1, Head1Sub
  <2>3. ASSUME NEW x, Before(t, b, x) PROVE FALSE
    <3>1. Comes(c, b, x)
      BY <1>1, <2>3, OrderIs
    <3>2. PICK i, j \in 1..L : i < j /\ c[i] = b /\ c[j] = x
      BY <1>1, <3>1 DEF Comes
    <3>3. i = p
      BY <1>4, <3>2
    <3>4. QED
      BY <1>2, <2>1, <3>2, <3>3
  <2>4. QED
    BY <1>5, <2>2, <2>3 DEF NextOf
<1>9. QED
  BY <1>7, <1>8

\* The clinks w, and that of b.
OneMore(w, b, r) == [x \in DOMAIN w \cup {b} |-> IF x = b THEN r ELSE w[x]]

LEMMA UnlinkedIs ==
  ASSUME NEW t, TabOK(t), NEW b, In(t, b), NEW d, d = Unlinked(t, b[1])
  PROVE  /\ TabOK(d) /\ d.mask = t.mask /\ d.size + 1 = t.size
         /\ d.stale = OneMore(t.stale, b, Clink(t, b))
         /\ \A x : In(d, x) <=> In(t, x) /\ x # b
         /\ Members(d) = Members(t) \ {b}
         /\ \A x, y : Before(d, x, y) <=> Before(t, x, y) /\ x # b /\ y # b
<1>1. PICK s, c, p, e, n, k : /\ s = Hchain(t, Hash(b)) /\ c = t.chains[s] /\ p = Memb(t, b[1])
                              /\ e = RemoveAt(c, p) /\ n = t.size - 1 /\ k = b[1]
  OBVIOUS
<1>2. Shape(t) /\ t.size \in Nat /\ t.size = Cardinality(Members(t))
  BY DEF TabOK
<1>3. b \in Block /\ k \in Key /\ Hash(b) \in Nat /\ Hash(b) = HashOf[k] /\ Within(c, b)
  BY <1>1, <1>2, PlaceIs, HashIs
<1>4. s \in 0..t.mask /\ ChainOK(c) /\ c = t.chains[Hchain(t, HashOf[k])]
  BY <1>1, <1>2, <1>3, PlaceIs DEF Shape
<1>5. p \in 1..Len(c) /\ c[p] = b
  <2>1. Found(t, k)
    BY <1>1, <1>2, <1>3, FoundIs
  <2>2. p \in 1..Len(c) /\ c[p][1] = k
    BY <1>1, <1>3, <1>4, <2>1, MembIs
  <2>3. PICK i \in 1..Len(c) : c[i] = b
    BY <1>3 DEF Within
  <2>4. c[p][1] = c[i][1]
    BY <1>1, <2>2, <2>3
  <2>5. p = i
    BY <1>4, <2>2, <2>4, ChainFacts
  <2>6. QED
    BY <2>2, <2>3, <2>5
<1>6. /\ ChainOK(e)
      /\ \A x : Within(e, x) <=> Within(c, x) /\ x # b
      /\ \A x, y : Comes(e, x, y) <=> Comes(c, x, y) /\ x # b /\ y # b
  <2>1. e = RemoveAt(c, p) /\ ChainOK(c) /\ p \in 1..Len(c)
    BY <1>1, <1>4, <1>5
  <2>2. QED
    BY <1>5, <2>1, RemoveKeeps
<1>7. Replaced(d, t, s, e, n) /\ d.stale = OneMore(t.stale, b, Clink(t, b))
  <2>1. t = [size |-> t.size, mask |-> t.mask, chains |-> t.chains, stale |-> t.stale]
    BY <1>2 DEF Shape
  <2>2. /\ Hchain(t, HashOf[k]) = s /\ Memb(t, k) = p /\ t.chains[s][p] = b
    BY <1>1, <1>3, <1>5
  <2>3. d = [t EXCEPT !.chains[s] = RemoveAt(@, p), !.size = @ - 1,
                      !.stale = OneMore(t.stale, b, Clink(t, b))]
    BY <1>1, <2>2 DEF Unlinked, OneMore
  <2>4. PICK u : u = OneMore(t.stale, b, Clink(t, b))
    OBVIOUS
  <2>5. d = [size |-> n, mask |-> t.mask, chains |-> [t.chains EXCEPT ![s] = e], stale |-> u]
    BY <1>1, <2>1, <2>3, <2>4
  <2>6. QED
    BY <2>4, <2>5 DEF Replaced
<1>8. \A x : Within(e, x) => Hash(x) % (t.mask + 1) = s
  <2>1. \A x : Within(c, x) => Hash(x) % (t.mask + 1) = s
    BY <1>1, <1>2, <1>4 DEF Shape
  <2>2. QED
    BY <1>6, <2>1
<1>9. /\ Shape(d) /\ d.mask = t.mask /\ d.size = n
      /\ d.chains[s] = e /\ \A r \in 0..t.mask : r # s => d.chains[r] = t.chains[r]
  BY <1>2, <1>4, <1>6, <1>7, <1>8, ReplacedShape
<1>10. \A r \in 0..t.mask : Within(t.chains[r], b) => r = s
  BY <1>1, <1>2, PlaceIs
<1>11. \A x : In(d, x) <=> In(t, x) /\ x # b
  BY <1>1, <1>4, <1>6, <1>9, <1>10 DEF In
<1>12. \A r \in 0..t.mask : \A x, y : Comes(t.chains[r], x, y) =>
          Within(t.chains[r], x) /\ Within(t.chains[r], y)
  BY <1>2, ChainFacts DEF Shape
<1>13. \A x, y : Before(d, x, y) <=> Before(t, x, y) /\ x # b /\ y # b
  <2>1. ASSUME NEW r \in 0..t.mask, NEW x, NEW y
        PROVE  Comes(d.chains[r], x, y) <=> Comes(t.chains[r], x, y) /\ x # b /\ y # b
    <3>1. CASE r = s
      BY <1>1, <1>6, <1>9, <3>1
    <3>2. CASE r # s
      BY <1>9, <1>10, <1>12, <3>2
    <3>3. QED
      BY <3>1, <3>2
  <2>2. QED
    BY <1>9, <2>1 DEF Before
<1>14. Members(d) = Members(t) \ {b} /\ b \in Members(t)
  BY <1>2, <1>9, <1>11, MembersAre
<1>15. TabOK(d) /\ n + 1 = t.size
  <2>1. IsFiniteSet(Members(t))
    BY <1>2, MembersFinite
  <2>2. Cardinality(Members(d)) = Cardinality(Members(t)) - 1
    BY <1>14, <2>1, FS_RemoveElement
  <2>3. Cardinality(Members(d)) \in Nat
    BY <1>9, MembersFinite
  <2>4. QED
    BY <1>1, <1>2, <1>9, <2>2, <2>3 DEF TabOK
<1>16. QED
  BY <1>1, <1>7, <1>9, <1>11, <1>13, <1>14, <1>15

-----------------------------------------------------------------------------
(* Growing and shrinking. *)

LEMMA Doubled ==
  ASSUME NEW n, IsSize(n)
  PROVE  /\ n \in Nat /\ n >= 2 /\ n <= MaxSlots /\ n >= HSlots
         /\ n < MaxSlots => IsSize(2 * n)
         /\ n > HSlots => IsSize(n \div 2) /\ n = 2 * (n \div 2) /\ n \div 2 \in Nat /\ n \div 2 >= 2
<1>1. PICK k \in 0..Top : n = Slots[k]
  BY DEF IsSize
<1>2. Top \in Nat /\ Top \in 0..Top /\ 0 \in 0..Top /\ MaxSlots = Slots[Top] /\ HSlots = Slots[0]
  BY SlotsIs DEF MaxSlots, Top
<1>3. n \in Nat /\ n >= 2 /\ MaxSlots \in Nat /\ HSlots \in Nat
  BY <1>1, <1>2, SlotsIs
<1>4. n <= MaxSlots /\ (n < MaxSlots => k < Top)
  <2>1. ~(Top < k)
    BY <1>1, <1>2
  <2>2. ~(Slots[Top] < Slots[k])
    BY <1>1, <1>2, <2>1, SlotsGrow
  <2>3. k < Top <=> Slots[k] < Slots[Top]
    BY <1>1, <1>2, SlotsGrow
  <2>4. QED
    BY <1>1, <1>2, <1>3, <2>2, <2>3
<1>5. n >= HSlots /\ (n > HSlots => k > 0)
  <2>1. ~(Slots[k] < Slots[0])
    <3>1. ~(k < 0)
      BY <1>1
    <3>2. QED
      BY <1>1, <1>2, <3>1, SlotsGrow
  <2>2. 0 < k <=> Slots[0] < Slots[k]
    BY <1>1, <1>2, SlotsGrow
  <2>3. QED
    BY <1>1, <1>2, <1>3, <2>1, <2>2
<1>6. ASSUME n < MaxSlots PROVE IsSize(2 * n)
  <2>1. k + 1 \in 1..Top /\ k + 1 \in 0..Top /\ k + 1 - 1 = k
    BY <1>1, <1>2, <1>4, <1>6
  <2>2. Slots[k + 1] = 2 * Slots[k]
    BY <2>1, SlotsIs
  <2>3. QED
    BY <1>1, <2>1, <2>2 DEF IsSize
<1>7. ASSUME n > HSlots
      PROVE  IsSize(n \div 2) /\ n = 2 * (n \div 2) /\ n \div 2 \in Nat /\ n \div 2 >= 2
  <2>1. k \in 1..Top /\ k - 1 \in 0..Top
    BY <1>1, <1>2, <1>5, <1>7
  <2>2. Slots[k] = 2 * Slots[k - 1] /\ Slots[k - 1] \in Nat /\ Slots[k - 1] >= 2
    BY <2>1, SlotsIs
  <2>3. n \div 2 = Slots[k - 1]
    BY <1>1, <2>2
  <2>4. QED
    BY <1>1, <2>1, <2>2, <2>3 DEF IsSize
<1>8. QED
  BY <1>3, <1>4, <1>5, <1>6, <1>7

LEMMA GrownIs ==
  ASSUME NEW t, TabOK(t), t.mask + 1 < MaxSlots, NEW d, d = Grown(t)
  PROVE  /\ TabOK(d) /\ d.mask + 1 = 2 * (t.mask + 1) /\ d.size = t.size /\ d.stale = t.stale
         /\ \A x : In(d, x) <=> In(t, x)
         /\ Members(d) = Members(t)
         /\ \A x, y : Before(d, x, y) <=>
              Before(t, x, y) /\ Hchain(d, Hash(x)) = Hchain(d, Hash(y))
<1>1. PICK n, m, e : /\ n = t.mask + 1 /\ m = 2 * n - 1
                     /\ e = [s \in 0..m |-> Side(t.chains[s % n], n, s \div n)]
  OBVIOUS
<1>2. Shape(t) /\ t.size \in Nat /\ t.size = Cardinality(Members(t))
  BY DEF TabOK
<1>3. /\ n \in Nat \ {0} /\ t.mask = n - 1 /\ m \in Nat /\ m >= 1 /\ m + 1 = 2 * n /\ IsSize(m + 1)
      /\ t.mask \in Nat
  <2>1. IsSize(n) /\ t.mask \in Nat /\ t.mask >= 1
    BY <1>1, <1>2 DEF Shape
  <2>2. IsSize(2 * n) /\ n \in Nat /\ n >= 2
    BY <1>1, <2>1, Doubled
  <2>3. m = 2 * n - 1 /\ t.mask = n - 1
    BY <1>1, <2>1
  <2>4. m \in Nat /\ m >= 1 /\ m + 1 = 2 * n /\ n \in Nat \ {0}
    BY <2>2, <2>3
  <2>5. IsSize(m + 1)
    BY <2>2, <2>4
  <2>6. QED
    BY <2>1, <2>3, <2>4, <2>5
<1>4. /\ t = [size |-> t.size, mask |-> t.mask, chains |-> t.chains, stale |-> t.stale]
      /\ \A s \in 0..n - 1 : ChainOK(t.chains[s])
      /\ \A s \in 0..n - 1 : \A b : Within(t.chains[s], b) => Hash(b) % n = s
  BY <1>1, <1>2, <1>3 DEF Shape
<1>5. d = [size |-> t.size, mask |-> m, chains |-> e, stale |-> t.stale]
  BY <1>1, <1>4 DEF Grown
<1>6. d.size = t.size /\ d.mask = m /\ d.chains = e /\ d.stale = t.stale
  BY <1>5
<1>7. ASSUME NEW s \in 0..m
      PROVE  /\ s % n \in 0..n - 1 /\ ChainOK(e[s])
             /\ \A x : Within(e[s], x) <=> Within(t.chains[s % n], x) /\ Bit(Hash(x), n) = s \div n
             /\ \A x, y : Comes(e[s], x, y) <=>
                  Comes(t.chains[s % n], x, y) /\ Bit(Hash(x), n) = s \div n /\ Bit(Hash(y), n) = s \div n
  <2>1. s % n \in 0..n - 1
    <3>1. s \in Nat
      OBVIOUS
    <3>2. QED
      BY <1>3, <3>1, DivMod
  <2>2. e[s] = Side(t.chains[s % n], n, s \div n) /\ ChainOK(t.chains[s % n])
    BY <1>1, <1>4, <2>1
  <2>3. QED
    BY <2>1, <2>2, SideKeeps
<1>8. ASSUME NEW h \in Nat, NEW s \in 0..m
      PROVE  h % (m + 1) = s <=> h % n = s % n /\ Bit(h, n) = s \div n
  <2>1. s \in 0..2 * n - 1
    BY <1>1, <1>3
  <2>2. h % (2 * n) = s <=> h % n = s % n /\ Bit(h, n) = s \div n
    BY <1>3, <2>1, SplitSlot
  <2>3. QED
    BY <1>3, <2>2
<1>9. \A s \in 0..n - 1 : \A x : Within(t.chains[s], x) => x \in Block /\ Hash(x) \in Nat /\ Hash(x) % n = s
  BY <1>4, ChainFacts, HashIs
<1>10. ASSUME NEW h \in Nat PROVE h % (m + 1) \in 0..m
  <2>1. m + 1 \in Nat \ {0} /\ (m + 1) - 1 = m
    BY <1>3
  <2>2. QED
    BY <2>1, DivMod
<1>11. ASSUME NEW s \in 0..m, NEW x
       PROVE  Within(e[s], x) <=> In(t, x) /\ Hash(x) % (m + 1) = s
  <2>1. ASSUME Within(e[s], x) PROVE In(t, x) /\ Hash(x) % (m + 1) = s
    <3>1. Within(t.chains[s % n], x) /\ Bit(Hash(x), n) = s \div n /\ s % n \in 0..n - 1
      BY <1>7, <2>1
    <3>2. Hash(x) \in Nat /\ Hash(x) % n = s % n
      BY <1>9, <3>1
    <3>3. In(t, x)
      BY <1>3, <3>1 DEF In
    <3>4. QED
      BY <1>8, <3>1, <3>2, <3>3
  <2>2. ASSUME In(t, x), Hash(x) % (m + 1) = s PROVE Within(e[s], x)
    <3>1. PICK r \in 0..n - 1 : Within(t.chains[r], x)
      BY <1>3, <2>2 DEF In
    <3>2. Hash(x) \in Nat /\ Hash(x) % n = r
      BY <1>9, <3>1
    <3>3. r = s % n /\ Bit(Hash(x), n) = s \div n
      BY <1>8, <2>2, <3>2
    <3>4. QED
      BY <1>7, <3>1, <3>3
  <2>3. QED
    BY <2>1, <2>2
<1>12. \A x : In(t, x) => x \in Block /\ Hash(x) \in Nat
  BY <1>3, <1>9 DEF In
<1>13. Shape(d)
  <2>1. \A s \in 0..m : ChainOK(e[s])
    BY <1>7
  <2>2. e \in [0..m -> Seq(Block)]
    <3>1. \A s \in 0..m : e[s] \in Seq(Block)
      BY <2>1 DEF ChainOK
    <3>2. QED
      BY <1>1, <3>1
  <2>3. \A s \in 0..m : \A b : Within(e[s], b) => Hash(b) % (m + 1) = s
    BY <1>11
  <2>4. QED
    BY <1>3, <1>5, <1>6, <2>1, <2>2, <2>3 DEF Shape
<1>14. \A x : In(d, x) <=> In(t, x)
  BY <1>6, <1>10, <1>11, <1>12 DEF In
<1>15. Members(d) = Members(t)
  BY <1>2, <1>13, <1>14, MembersAre
<1>16. ASSUME NEW x, NEW y
       PROVE  Before(d, x, y) <=> Before(t, x, y) /\ Hchain(d, Hash(x)) = Hchain(d, Hash(y))
  <2>1. ASSUME Before(d, x, y) PROVE Before(t, x, y) /\ Hchain(d, Hash(x)) = Hchain(d, Hash(y))
    <3>1. PICK s \in 0..m : Comes(e[s], x, y)
      BY <1>6, <2>1 DEF Before
    <3>2. Comes(t.chains[s % n], x, y) /\ s % n \in 0..t.mask
      BY <1>3, <1>7, <3>1
    <3>3. Before(t, x, y)
      BY <3>2 DEF Before
    <3>4. QED
      BY <1>13, <2>1, <3>3, OrderIs
  <2>2. ASSUME Before(t, x, y), Hchain(d, Hash(x)) = Hchain(d, Hash(y)) PROVE Before(d, x, y)
    <3>1. In(t, x) /\ In(t, y)
      BY <1>2, <2>2, OrderIs
    <3>2. PICK s : s = Hash(x) % (m + 1)
      OBVIOUS
    <3>3. s \in 0..m /\ Hash(y) % (m + 1) = s
      BY <1>6, <1>10, <1>12, <2>2, <3>1, <3>2 DEF Hchain
    <3>4. Hash(x) % n = s % n /\ Bit(Hash(x), n) = s \div n /\ Bit(Hash(y), n) = s \div n
      BY <1>8, <1>12, <3>1, <3>2, <3>3
    <3>5. Hchain(t, Hash(x)) = s % n
      BY <1>1, <3>4 DEF Hchain
    <3>6. Comes(t.chains[s % n], x, y)
      BY <1>2, <2>2, <3>5, OrderIs
    <3>7. Comes(e[s], x, y)
      BY <1>7, <3>3, <3>4, <3>6
    <3>8. QED
      BY <1>6, <3>3, <3>7 DEF Before
  <2>3. QED
    BY <2>1, <2>2
<1>17. TabOK(d)
  BY <1>2, <1>6, <1>13, <1>15 DEF TabOK
<1>18. d.mask + 1 = 2 * (t.mask + 1)
  BY <1>1, <1>3, <1>6
<1>19. QED
  BY <1>6, <1>14, <1>15, <1>16, <1>17, <1>18

LEMMA HalvedIs ==
  ASSUME NEW t, TabOK(t), t.mask + 1 > HSlots, NEW d, d = Halved(t)
  PROVE  /\ TabOK(d) /\ 2 * (d.mask + 1) = t.mask + 1 /\ d.size = t.size /\ d.stale = t.stale
         /\ \A x : In(d, x) <=> In(t, x)
<1>1. PICK n, m, e : /\ n = (t.mask + 1) \div 2 /\ m = n - 1
                     /\ e = [s \in 0..m |-> Merged(t.chains[s], t.chains[s + n])]
  OBVIOUS
<1>2. Shape(t) /\ t.size \in Nat /\ t.size = Cardinality(Members(t))
  BY DEF TabOK
<1>3. /\ n \in Nat \ {0} /\ t.mask + 1 = 2 * n /\ t.mask = 2 * n - 1 /\ m \in Nat /\ m >= 1 /\ m + 1 = n
      /\ IsSize(m + 1) /\ m = n - 1
  <2>1. IsSize(t.mask + 1) /\ t.mask \in Nat
    BY <1>2 DEF Shape
  <2>2. IsSize(n) /\ t.mask + 1 = 2 * n /\ n \in Nat /\ n >= 2
    BY <1>1, <2>1, Doubled
  <2>3. QED
    BY <1>1, <2>1, <2>2
<1>4. /\ t = [size |-> t.size, mask |-> t.mask, chains |-> t.chains, stale |-> t.stale]
      /\ \A s \in 0..2 * n - 1 : ChainOK(t.chains[s])
      /\ \A s \in 0..2 * n - 1 : \A b : Within(t.chains[s], b) => Hash(b) % (2 * n) = s
  <2>1. /\ \A s \in 0..t.mask : ChainOK(t.chains[s])
        /\ \A s \in 0..t.mask : \A b : Within(t.chains[s], b) => Hash(b) % (t.mask + 1) = s
    BY <1>2 DEF Shape
  <2>2. QED
    BY <1>2, <1>3, <2>1 DEF Shape
<1>5. d = [size |-> t.size, mask |-> m, chains |-> e, stale |-> t.stale]
  BY <1>1, <1>4 DEF Halved
<1>6. d.size = t.size /\ d.mask = m /\ d.chains = e /\ d.stale = t.stale
  BY <1>5
<1>7. ASSUME NEW s \in 0..m
      PROVE  /\ s \in 0..2 * n - 1 /\ s + n \in 0..2 * n - 1
             /\ ChainOK(e[s])
             /\ \A x : Within(e[s], x) <=> Within(t.chains[s], x) \/ Within(t.chains[s + n], x)
  <2>1. s \in 0..2 * n - 1 /\ s + n \in 0..2 * n - 1 /\ s # s + n
    BY <1>3
  <2>2. PICK a, c : a = t.chains[s] /\ c = t.chains[s + n]
    OBVIOUS
  <2>3. ChainOK(a) /\ ChainOK(c)
    BY <1>4, <2>1, <2>2
  <2>4. ASSUME NEW x, NEW y, Within(a, x), Within(c, y) PROVE x[1] # y[1]
    <3>1. Hash(x) % (2 * n) = s /\ Hash(y) % (2 * n) = s + n
      BY <1>4, <2>1, <2>2, <2>4
    <3>2. Hash(x) # Hash(y)
      BY <2>1, <3>1
    <3>3. QED
      BY <3>2 DEF Hash
  <2>5. MergedTo(Merged(a, c), a, c, Len(c))
    BY <2>3, <2>4, MergedIs
  <2>6. \A x : Upto(c, Len(c), x) <=> Within(c, x)
    BY DEF Upto, Within
  <2>7. e[s] = Merged(a, c)
    BY <1>1, <2>2
  <2>8. QED
    BY <2>1, <2>2, <2>5, <2>6, <2>7 DEF MergedTo
<1>8. \A s \in 0..2 * n - 1 : \A x : Within(t.chains[s], x) => x \in Block /\ Hash(x) \in Nat
  BY <1>4, ChainFacts, HashIs
<1>9. ASSUME NEW s \in 0..m, NEW x, Within(e[s], x) PROVE Hash(x) % (m + 1) = s
  <2>1. PICK h : h = Hash(x)
    OBVIOUS
  <2>2. s \in 0..n - 1
    BY <1>3
  <2>3. h \in Nat /\ (h % (2 * n) = s \/ h % (2 * n) = s + n)
    BY <1>4, <1>7, <1>8, <1>9, <2>1
  <2>4. /\ h % (2 * n) < n => h % n = h % (2 * n)
        /\ h % (2 * n) >= n => h % n = (h % (2 * n)) - n
    BY <1>3, <2>3, HalfSlot
  <2>5. h % n = s
    BY <1>3, <2>2, <2>3, <2>4
  <2>6. QED
    BY <1>3, <2>1, <2>5
<1>10. Shape(d)
  <2>1. \A s \in 0..m : ChainOK(e[s])
    BY <1>7
  <2>2. e \in [0..m -> Seq(Block)]
    <3>1. \A s \in 0..m : e[s] \in Seq(Block)
      BY <2>1 DEF ChainOK
    <3>2. QED
      BY <1>1, <3>1
  <2>3. QED
    BY <1>3, <1>5, <1>6, <1>9, <2>1, <2>2 DEF Shape
<1>11. ASSUME NEW x PROVE In(d, x) <=> In(t, x)
  <2>1. ASSUME In(d, x) PROVE In(t, x)
    <3>1. PICK s \in 0..m : Within(e[s], x)
      BY <1>6, <2>1 DEF In
    <3>2. QED
      BY <1>3, <1>7, <3>1 DEF In
  <2>2. ASSUME In(t, x) PROVE In(d, x)
    <3>1. PICK s \in 0..2 * n - 1 : Within(t.chains[s], x)
      BY <1>3, <2>2 DEF In
    <3>2. CASE s <= m
      <4>1. s \in 0..m
        BY <1>3, <3>2
      <4>2. QED
        BY <1>6, <1>7, <3>1, <4>1 DEF In
    <3>3. CASE ~(s <= m)
      <4>1. s - n \in 0..m /\ (s - n) + n = s
        BY <1>3, <3>3
      <4>2. QED
        BY <1>6, <1>7, <3>1, <4>1 DEF In
    <3>4. QED
      BY <3>2, <3>3
  <2>3. QED
    BY <2>1, <2>2
<1>12. Members(d) = Members(t)
  BY <1>2, <1>10, <1>11, MembersAre
<1>13. TabOK(d)
  BY <1>2, <1>6, <1>10, <1>12 DEF TabOK
<1>14. 2 * (d.mask + 1) = t.mask + 1
  BY <1>3, <1>6
<1>15. QED
  BY <1>6, <1>11, <1>13, <1>14

\* No more elements than the loading factor allows.
Loaded(t) == t.mask + 1 < MaxSlots => t.size <= MaxHLoad * (t.mask + 1)

LEMMA LoadIs ==
  ASSUME load \in Loading
  PROVE  MaxHLoad \in Nat \ {0} /\ MinHLoad \in Nat /\ MaxHLoad >= 2 * MinHLoad
  BY LoadAssumption DEF MaxHLoad, MinHLoad

\* s has the elements of t in other slots.
SameAs(s, t) ==
  /\ TabOK(s) /\ s.size = t.size /\ s.stale = t.stale
  /\ \A x : In(s, x) <=> In(t, x)

LEMMA HalvedLoaded ==
  ASSUME load \in Loading, NEW t, TabOK(t), TooSparse(t), NEW d, d = Halved(t)
  PROVE  SameAs(d, t) /\ Loaded(d)
<1>1. t.mask + 1 > HSlots /\ t.size < MinHLoad * (t.mask + 1)
  BY DEF TooSparse
<1>2. /\ TabOK(d) /\ 2 * (d.mask + 1) = t.mask + 1 /\ d.size = t.size /\ d.stale = t.stale
      /\ \A x : In(d, x) <=> In(t, x)
  BY <1>1, HalvedIs
<1>3. PICK n, a, i, z : n = d.mask + 1 /\ a = MaxHLoad /\ i = MinHLoad /\ z = t.size
  OBVIOUS
<1>4. n \in Nat /\ a \in Nat /\ i \in Nat /\ a >= 2 * i /\ z \in Nat /\ z < i * (2 * n)
  BY <1>1, <1>2, <1>3, LoadIs DEF TabOK, Shape
<1>5. z <= a * n
  <2>1. i * (2 * n) = (2 * i) * n
    BY <1>4
  <2>2. PICK j : j = a - 2 * i
    OBVIOUS
  <2>3. j \in Nat /\ a = 2 * i + j
    BY <1>4, <2>2
  <2>4. a * n = (2 * i) * n + j * n /\ j * n \in Nat
    BY <1>4, <2>3
  <2>5. PICK u, v, w : u = (2 * i) * n /\ v = j * n /\ w = a * n
    OBVIOUS
  <2>6. z < u /\ w = u + v /\ v \in Nat /\ u \in Nat
    <3>1. u \in Nat
      BY <1>4, <2>5
    <3>2. QED
      BY <1>4, <2>1, <2>4, <2>5, <3>1
  <2>7. z <= w
    BY <1>4, <2>6
  <2>8. QED
    BY <2>5, <2>7
<1>6. QED
  BY <1>2, <1>3, <1>5 DEF SameAs, Loaded

LEMMA ShrunkIs ==
  ASSUME load \in Loading, NEW t, TabOK(t), Loaded(t)
  PROVE  SameAs(Shrunk(t), t) /\ Loaded(Shrunk(t))
<1>1. PICK L : L = HSegs
  OBVIOUS
<1>2. L \in Nat
  BY <1>1, SlotsAssumption
<1> DEFINE OK(s) == SameAs(s, t) /\ Loaded(s)
           Go(s) == IF TooSparse(s) THEN Halved(s) ELSE s
           Body(f) == [i \in 0..L |-> IF i = 0 THEN t ELSE Go(f[i - 1])]
           Rec == [size : {t.size}, mask : Nat, chains : UNION {[0..m -> Seq(Block)] : m \in Nat},
                   stale : {t.stale}]
<1>3. ASSUME NEW s, OK(s) PROVE OK(Go(s)) /\ s \in Rec
  <2>1. ASSUME TooSparse(s) PROVE OK(Go(s))
    <3>1. SameAs(Halved(s), s) /\ Loaded(Halved(s))
      BY <1>3, <2>1, HalvedLoaded DEF SameAs
    <3>2. QED
      BY <1>3, <2>1, <3>1 DEF SameAs
  <2>2. ASSUME ~TooSparse(s) PROVE OK(Go(s))
    BY <1>3, <2>2
  <2>3. s \in Rec
    <3>1. /\ s = [size |-> s.size, mask |-> s.mask, chains |-> s.chains, stale |-> s.stale]
          /\ s.mask \in Nat /\ s.chains \in [0..s.mask -> Seq(Block)]
          /\ s.size = t.size /\ s.stale = t.stale
      BY <1>3 DEF SameAs, TabOK, Shape
    <3>2. s.chains \in UNION {[0..m -> Seq(Block)] : m \in Nat}
      BY <3>1
    <3>3. QED
      BY <3>1, <3>2
  <2> HIDE DEF Rec
  <2>4. OK(Go(s))
    BY <2>1, <2>2
  <2>5. QED
    BY <2>3, <2>4
<1>4. OK(t)
  BY DEF SameAs
<1> HIDE DEF OK, Go, Rec
<1>5. PICK X, F : X = {s \in Rec : OK(s)} /\ F = [p \in (1..L) \X X |-> Go(p[2])]
  OBVIOUS
<1>6. \A i \in 1..L : \A s \in X : F[<<i, s>>] = Go(s) /\ Go(s) \in X
  <2>1. \A s \in X : Go(s) \in X
    <3> SUFFICES ASSUME NEW s \in X PROVE Go(s) \in X
      OBVIOUS
    <3>1. OK(s)
      BY <1>5
    <3>2. OK(Go(s))
      BY <1>3, <3>1
    <3>3. Go(s) \in Rec
      BY <1>3, <3>2
    <3>4. QED
      BY <1>5, <3>2, <3>3
  <2>2. \A i \in 1..L : \A s \in X : <<i, s>> \in (1..L) \X X /\ <<i, s>>[2] = s
    OBVIOUS
  <2>3. QED
    BY <1>5, <2>1, <2>2
<1>7. PICK f : Recursive(f, L, X, t, F)
  <2>1. F \in [(1..L) \X X -> X]
    <3>1. \A p \in (1..L) \X X : p[1] \in 1..L /\ p[2] \in X
      OBVIOUS
    <3>2. \A p \in (1..L) \X X : Go(p[2]) \in X
      BY <1>6, <3>1
    <3>3. QED
      BY <1>5, <3>2
  <2>2. t \in X
    BY <1>3, <1>4, <1>5
  <2>3. QED
    BY <1>2, <2>1, <2>2, Recursion
<1>8. f \in [0..L -> X] /\ f[0] = t /\ \A i \in 1..L : f[i] = Go(f[i - 1])
  <2>1. \A i \in 1..L : i - 1 \in 0..L
    BY <1>2
  <2>2. QED
    BY <1>6, <1>7, <2>1 DEF Recursive
<1>9. f = Body(f)
  <2>1. \A i \in 0..L : i # 0 => i \in 1..L
    BY <1>2
  <2>2. QED
    BY <1>8, <2>1
<1>10. PICK g : g = CHOOSE h : h = Body(h)
  OBVIOUS
<1>11. g = Body(g)
  <2> HIDE DEF Body
  <2>1. \E h : h = Body(h)
    BY <1>9
  <2>2. QED
    BY <1>10, <2>1
<1>12. g[0] = t /\ \A i \in 1..L : g[i] = Go(g[i - 1])
  <2>1. 0 \in 0..L /\ \A i \in 1..L : i \in 0..L /\ i # 0
    BY <1>2
  <2>2. QED
    BY <1>11, <2>1
<1> DEFINE T == {i \in 0..L : OK(g[i])}
<1>13. 0 \in T
  BY <1>2, <1>4, <1>12
<1>14. ASSUME NEW i \in 0..L, i \in T, i < L PROVE i + 1 \in T
  <2>1. i + 1 \in 1..L /\ i + 1 \in 0..L /\ (i + 1) - 1 = i
    BY <1>2, <1>14
  <2>2. g[i + 1] = Go(g[i])
    BY <1>12, <2>1
  <2>3. OK(Go(g[i]))
    BY <1>3, <1>14
  <2>4. QED
    BY <2>1, <2>2, <2>3
<1> HIDE DEF T
<1>15. \A i \in 0..L : i \in T
  BY <1>2, <1>13, <1>14, Upwards
<1>16. L \in T
  BY <1>2, <1>15
<1>17. Shrunk(t) = g[L]
  BY <1>1, <1>10 DEF Shrunk, Go
<1>18. QED
  BY <1>16, <1>17 DEF T, OK

\* t with the first i of ks put in
Put(s, t, i) ==
  TabOK(s) /\ s.mask = t.mask /\ s.stale = t.stale /\ t.size <= s.size /\ s.size <= t.size + i

LEMMA WithKeysIs ==
  ASSUME NEW t, TabOK(t), NEW ks \in Seq(Key)
  PROVE  Put(WithKeys(t, ks), t, Len(ks))
<1>1. PICK L : L = Len(ks)
  OBVIOUS
<1>2. L \in Nat /\ (\A i \in 1..L : ks[i] \in Key) /\ 1 \in 1..MaxCopies /\ t.size \in Nat
  BY <1>1, BoundsAssumption DEF TabOK
<1> DEFINE Go(i, s) == IF Found(s, ks[i]) THEN s ELSE Linked(s, <<ks[i], 1>>)
           Body(f) == [i \in 0..L |-> IF i = 0 THEN t ELSE Go(i, f[i - 1])]
           Rec == [size : Nat, mask : Nat, chains : [0..t.mask -> Seq(Block)], stale : {t.stale}]
           OK(s) == TabOK(s) /\ s.mask = t.mask /\ s.stale = t.stale
<1>3. ASSUME NEW s, OK(s), NEW i \in 1..L
      PROVE  /\ OK(Go(i, s)) /\ s \in Rec
             /\ Go(i, s).size = s.size \/ Go(i, s).size = s.size + 1
  <2>1. PICK b : b = <<ks[i], 1>>
    OBVIOUS
  <2>2. b \in Block /\ b[1] = ks[i]
    BY <1>2, <2>1 DEF Block
  <2>3. ASSUME ~Found(s, ks[i])
        PROVE  OK(Go(i, s)) /\ Go(i, s).size = s.size + 1
    <3>1. /\ TabOK(Linked(s, b)) /\ Linked(s, b).mask = s.mask
          /\ Linked(s, b).size = s.size + 1 /\ Linked(s, b).stale = s.stale
      BY <1>3, <2>2, <2>3, LinkedIs
    <3>2. Go(i, s) = Linked(s, b)
      BY <2>1, <2>3
    <3> HIDE DEF Go
    <3>3. QED
      BY <1>3, <3>1, <3>2
  <2>4. ASSUME Found(s, ks[i]) PROVE OK(Go(i, s)) /\ Go(i, s).size = s.size
    <3>1. Go(i, s) = s
      BY <2>4
    <3> HIDE DEF Go
    <3>2. QED
      BY <1>3, <3>1
  <2>5. s \in Rec
    <3>1. /\ s = [size |-> s.size, mask |-> s.mask, chains |-> s.chains, stale |-> s.stale]
          /\ s.size \in Nat /\ s.mask \in Nat /\ s.chains \in [0..t.mask -> Seq(Block)]
          /\ s.stale = t.stale
      BY <1>3 DEF TabOK, Shape
    <3>2. QED
      BY <3>1
  <2> HIDE DEF Go, Rec, OK
  <2>6. QED
    BY <2>3, <2>4, <2>5
<1>4. OK(t)
  OBVIOUS
<1> HIDE DEF OK, Go, Rec
<1>5. PICK X, F : X = {s \in Rec : OK(s)} /\ F = [p \in (1..L) \X X |-> Go(p[1], p[2])]
  OBVIOUS
<1>6. \A i \in 1..L : \A s \in X : F[<<i, s>>] = Go(i, s) /\ Go(i, s) \in X
  <2>1. \A i \in 1..L : \A s \in X : Go(i, s) \in X
    <3> SUFFICES ASSUME NEW i \in 1..L, NEW s \in X PROVE Go(i, s) \in X
      OBVIOUS
    <3>1. OK(s)
      BY <1>5
    <3>2. OK(Go(i, s))
      BY <1>3, <3>1
    <3>3. Go(i, s) \in Rec
      BY <1>3, <3>2
    <3>4. QED
      BY <1>5, <3>2, <3>3
  <2>2. \A i \in 1..L : \A s \in X : <<i, s>> \in (1..L) \X X /\ <<i, s>>[1] = i /\ <<i, s>>[2] = s
    OBVIOUS
  <2>3. QED
    BY <1>5, <2>1, <2>2
<1>7. t \in X \/ L = 0
  <2>1. L # 0 => 1 \in 1..L
    BY <1>2
  <2>2. QED
    BY <1>3, <1>4, <1>5, <2>1
<1>8. PICK f : f[0] = t /\ (\A i \in 0..L : OK(f[i])) /\ f = Body(f)
  <2>1. CASE L = 0
    <3>1. PICK f : f = [i \in 0..L |-> t]
      OBVIOUS
    <3>2. \A i \in 0..L : i = 0
      BY <2>1
    <3>3. 0 \in 0..L /\ f[0] = t /\ \A i \in 0..L : f[i] = t
      BY <1>2, <3>1
    <3>4. f = Body(f)
      BY <3>1, <3>2
    <3> HIDE DEF Body
    <3>5. QED
      BY <1>4, <3>3, <3>4
  <2>2. CASE t \in X
    <3>1. F \in [(1..L) \X X -> X]
      <4>1. \A p \in (1..L) \X X : p[1] \in 1..L /\ p[2] \in X /\ p = <<p[1], p[2]>>
        OBVIOUS
      <4>2. \A p \in (1..L) \X X : Go(p[1], p[2]) \in X
        BY <1>6, <4>1
      <4>3. QED
        BY <1>5, <4>2
    <3>2. PICK f : Recursive(f, L, X, t, F)
      BY <1>2, <2>2, <3>1, Recursion
    <3>3. f \in [0..L -> X] /\ f[0] = t /\ \A i \in 1..L : f[i] = Go(i, f[i - 1])
      <4>1. \A i \in 1..L : i - 1 \in 0..L
        BY <1>2
      <4>2. QED
        BY <1>6, <3>2, <4>1 DEF Recursive
    <3>4. f = Body(f)
      <4>1. \A i \in 0..L : i # 0 => i \in 1..L
        BY <1>2
      <4>2. QED
        BY <3>3, <4>1
    <3>5. \A i \in 0..L : OK(f[i])
      BY <1>5, <3>3
    <3> HIDE DEF Body
    <3>6. QED
      BY <3>3, <3>4, <3>5
  <2> HIDE DEF Body
  <2>3. QED
    BY <1>7, <2>1, <2>2
<1>9. PICK g : g = CHOOSE h : h = Body(h)
  OBVIOUS
<1>10. g = Body(g)
  <2> HIDE DEF Body
  <2>1. \E h : h = Body(h)
    BY <1>8
  <2>2. QED
    BY <1>9, <2>1
<1>11. g[0] = t /\ \A i \in 1..L : g[i] = Go(i, g[i - 1])
  <2>1. 0 \in 0..L /\ \A i \in 1..L : i \in 0..L /\ i # 0
    BY <1>2
  <2>2. QED
    BY <1>10, <2>1
<1> DEFINE T == {i \in 0..L : OK(g[i]) /\ t.size <= g[i].size /\ g[i].size <= t.size + i}
<1>12. 0 \in T
  BY <1>2, <1>4, <1>11
<1>13. ASSUME NEW i \in 0..L, i \in T, i < L PROVE i + 1 \in T
  <2>1. PICK j, s, d : j = i + 1 /\ s = g[i] /\ d = g[j]
    OBVIOUS
  <2>2. j \in 1..L /\ j \in 0..L /\ j - 1 = i
    BY <1>2, <1>13, <2>1
  <2>3. d = Go(j, s) /\ OK(s)
    BY <1>11, <1>13, <2>1, <2>2
  <2>4. OK(d) /\ (d.size = s.size \/ d.size = s.size + 1)
    BY <1>3, <2>2, <2>3
  <2>5. s.size \in Nat
    BY <2>3 DEF OK, TabOK
  <2>6. t.size <= d.size /\ d.size <= t.size + j
    BY <1>2, <1>13, <2>1, <2>4, <2>5
  <2>7. QED
    BY <2>1, <2>2, <2>4, <2>6
<1> HIDE DEF T
<1>14. \A i \in 0..L : i \in T
  BY <1>2, <1>12, <1>13, Upwards
<1>15. L \in T
  BY <1>2, <1>14
<1>16. WithKeys(t, ks) = g[L]
  BY <1>1, <1>9 DEF WithKeys, Go
<1>17. QED
  BY <1>1, <1>15, <1>16 DEF T, OK, Put

LEMMA HmakeIs ==
  ASSUME load \in Loading, NEW n \in Nat, NEW t, t = Hmake(n)
  PROVE  /\ TabOK(t) /\ t.size = 0 /\ t.stale = <<>>
         /\ t.mask + 1 < MaxSlots => n <= MaxHLoad * (t.mask + 1)
<1>1. PICK E, k : /\ E = {i \in 0..HSegs - 1 : Slots[i] * MaxHLoad >= n}
                  /\ k = IF E = {} THEN HSegs - 1 ELSE Min(E)
  OBVIOUS
<1>2. Top = HSegs - 1 /\ Top \in Nat
  BY SlotsIs DEF Top
<1>3. k \in 0..Top /\ (E # {} => k \in E)
  <2>1. CASE E = {}
    BY <1>1, <1>2, <2>1
  <2>2. CASE E # {}
    <3>1. E \subseteq Nat
      BY <1>1
    <3>2. Min(E) \in E
      BY <2>2, <3>1, MinIn
    <3>3. QED
      BY <1>1, <1>2, <2>2, <3>2
  <2>3. QED
    BY <2>1, <2>2
<1>4. PICK m, z, e : m = Slots[k] /\ z = m - 1 /\ e = [s \in 0..z |-> <<>>]
  OBVIOUS
<1>5. m \in Nat /\ m >= 2 /\ z \in Nat /\ z >= 1 /\ z + 1 = m /\ IsSize(z + 1)
  BY <1>3, <1>4, SlotsIs DEF IsSize
<1>6. t = [size |-> 0, mask |-> z, chains |-> e, stale |-> <<>>]
  BY <1>1, <1>4 DEF Hmake
<1>7. t.size = 0 /\ t.mask = z /\ t.chains = e /\ t.stale = <<>>
  BY <1>6
<1>8. \A s \in 0..z : e[s] = <<>>
  BY <1>4
<1>9. Shape(t)
  <2>1. e \in [0..z -> Seq(Block)]
    BY <1>4
  <2>2. \A s \in 0..z : ChainOK(e[s])
    BY <1>8, NilIs
  <2>3. \A s \in 0..z : \A b : Within(e[s], b) => Hash(b) % (z + 1) = s
    BY <1>8, NilIs
  <2>4. QED
    BY <1>5, <1>6, <1>7, <2>1, <2>2, <2>3 DEF Shape
<1>10. Members(t) = {}
  <2>1. \A x : ~In(t, x)
    BY <1>7, <1>8, NilIs DEF In
  <2>2. QED
    BY <1>9, <2>1, MembersAre
<1>11. TabOK(t)
  BY <1>7, <1>9, <1>10, FS_EmptySet DEF TabOK
<1>12. ASSUME m < MaxSlots PROVE n <= MaxHLoad * m
  <2>1. E # {}
    <3> SUFFICES ASSUME E = {} PROVE FALSE
      OBVIOUS
    <3>1. m = MaxSlots
      BY <1>1, <1>4, <3>1 DEF MaxSlots
    <3>2. QED
      BY <1>5, <1>12, <3>1
  <2>2. m * MaxHLoad >= n
    BY <1>1, <1>3, <1>4, <2>1
  <2>3. MaxHLoad \in Nat
    BY LoadIs
  <2>4. m * MaxHLoad = MaxHLoad * m /\ m * MaxHLoad \in Nat
    BY <1>5, <2>3
  <2>5. QED
    BY <2>2, <2>4
<1>13. QED
  BY <1>5, <1>7, <1>11, <1>12

-----------------------------------------------------------------------------
(* Where generation goes on in a slot. *)

\* A generator that has stopped at hash number h under mask m has not
\* passed elements of hash number x.
Past(m, h, x) == x % (m + 1) > h % (m + 1) \/ (x % (m + 1) = h % (m + 1) /\ x > h)

(* The generator's notes: those of the segments after k0, the last one     *)
(* when it started, up to kg, the last one under its mask.  Each is of a   *)
(* mask, with segments up to some j, and tells of all those after j.       *)
Notes(g, k0, kg) ==
  /\ kg \in 0..Top /\ k0 \in 0..kg /\ g.tmask + 1 = Slots[kg] /\ g.tmask \in Nat
  /\ g.slot \in 0..g.tmask
  /\ g.sgmask \in [1..Top -> Nat] /\ g.sghash \in [1..Top -> Nat]
  /\ \A i \in 1..kg : g.sgmask[i] # 0 <=> i > k0
  /\ \A i \in k0 + 1..kg :
       /\ g.sghash[i] % (g.sgmask[i] + 1) <= g.slot
       /\ \E j \in k0..i - 1 :
            /\ g.sgmask[i] + 1 = Slots[j]
            /\ \A l \in j + 1..i : g.sgmask[l] = g.sgmask[i] /\ g.sghash[l] = g.sghash[i]

\* None of them says that elements of hash number x have been passed.
Unpassed(g, k0, kg, x) == \A i \in k0 + 1..kg : Past(g.sgmask[i], g.sghash[i], x)

LEMMA MaxOver ==
  ASSUME NEW L \in Nat, NEW h \in [1..L -> Nat], NEW A \in SUBSET (1..L), A # {}
  PROVE  \E i \in A : \A j \in A : h[j] <= h[i]
<1> DEFINE Has(B) == B # {} => \E i \in B : \A j \in B : h[j] <= h[i]
           T == {n \in 0..L : \A B \in SUBSET (1..n) : Has(B)}
<1>1. 0 \in T
  <2>1. ASSUME NEW B \in SUBSET (1..0) PROVE B = {}
    OBVIOUS
  <2>2. \A B \in SUBSET (1..0) : Has(B)
    BY <2>1
  <2>3. 0 \in 0..L
    OBVIOUS
  <2> HIDE DEF Has
  <2>4. QED
    BY <2>2, <2>3
<1>2. ASSUME NEW n \in 0..L, n \in T, n < L PROVE n + 1 \in T
  <2>1. n \in Nat /\ n + 1 \in 0..L /\ n + 1 \in 1..L
    BY <1>2
  <2>2. ASSUME NEW B \in SUBSET (1..n + 1), B # {}
        PROVE  \E i \in B : \A j \in B : h[j] <= h[i]
    <3>1. PICK C : C = B \cap (1..n)
      OBVIOUS
    <3>2. \A i \in B : (i \in C \/ i = n + 1) /\ h[i] \in Nat
      BY <2>1, <3>1
    <3>3. CASE C = {}
      <4>1. \A i \in B : i = n + 1
        BY <3>2, <3>3
      <4>2. PICK i \in B : i = n + 1
        BY <2>2, <4>1
      <4>3. \A j \in B : h[j] <= h[i]
        BY <3>2, <4>1, <4>2
      <4>4. QED
        BY <4>3
    <3>4. CASE C # {}
      <4>1. C \in SUBSET (1..n)
        BY <3>1
      <4>2. PICK i \in C : \A j \in C : h[j] <= h[i]
        BY <1>2, <3>4, <4>1
      <4>3. i \in B
        BY <3>1
      <4>4. CASE n + 1 \notin B
        BY <3>2, <4>2, <4>3, <4>4
      <4>5. CASE n + 1 \in B /\ h[n + 1] <= h[i]
        BY <3>2, <4>2, <4>3, <4>5
      <4>6. CASE n + 1 \in B /\ ~(h[n + 1] <= h[i])
        <5>1. h[i] <= h[n + 1] /\ h[n + 1] \in Nat /\ h[i] \in Nat
          BY <3>2, <4>3, <4>6
        <5>2. ASSUME NEW j \in B PROVE h[j] <= h[n + 1]
          <6>1. CASE j \in C
            <7>1. h[j] <= h[i] /\ h[j] \in Nat
              BY <3>2, <4>2, <6>1
            <7>2. QED
              BY <5>1, <7>1
          <6>2. CASE j = n + 1
            BY <5>1, <6>2
          <6>3. QED
            BY <3>2, <6>1, <6>2
        <5>3. QED
          BY <4>6, <5>2
      <4>7. QED
        BY <4>4, <4>5, <4>6
    <3>5. QED
      BY <3>3, <3>4
  <2>3. QED
    BY <2>1, <2>2
<1>3. L \in T
  <2> HIDE DEF T
  <2>1. \A n \in 0..L : n \in T
    BY <1>1, <1>2, Upwards
  <2>2. QED
    BY <2>1
<1>4. QED
  BY <1>3

LEMMA SegNumIs ==
  ASSUME NEW kg \in 0..Top, NEW s \in Nat, s < Slots[kg]
  PROVE  /\ SegNum(s) \in 0..kg /\ s < Slots[SegNum(s)]
         /\ SegNum(s) # 0 => SegNum(s) - 1 \in 0..Top /\ Slots[SegNum(s) - 1] <= s
<1>1. Top = HSegs - 1 /\ Top \in Nat /\ HSlots = Slots[0] /\ \A i \in 0..Top : Slots[i] \in Nat
  BY SlotsIs DEF Top
<1>2. PICK T : T = {i \in 0..Top : s < Slots[i]}
  OBVIOUS
<1>3. kg \in T /\ T \subseteq Nat
  BY <1>2
<1>4. PICK k \in T : \A i \in T : k <= i
  BY <1>3, Minimum
<1>5. k \in 0..Top /\ s < Slots[k] /\ k <= kg
  BY <1>2, <1>3, <1>4
<1>6. ASSUME k # 0 PROVE k \in 1..Top /\ k - 1 \in 0..Top /\ Slots[k - 1] <= s
  <2>1. k \in 1..Top /\ k - 1 \in 0..Top /\ ~(k <= k - 1)
    BY <1>1, <1>5, <1>6
  <2>2. k - 1 \notin T
    BY <1>4, <2>1
  <2>3. ~(s < Slots[k - 1])
    BY <1>2, <2>1, <2>2
  <2>4. QED
    BY <1>1, <2>1, <2>3
<1>7. CASE s < HSlots
  <2>1. 0 \in T
    BY <1>1, <1>2, <1>7
  <2>2. k = 0
    BY <1>4, <1>5, <2>1
  <2>3. SegNum(s) = 0
    BY <1>7 DEF SegNum
  <2>4. QED
    BY <1>5, <2>2, <2>3
<1>8. CASE ~(s < HSlots)
  <2>1. k # 0
    BY <1>1, <1>5, <1>8
  <2>2. s \in Slots[k - 1]..Slots[k] - 1
    <3>1. Slots[k - 1] <= s /\ s < Slots[k] /\ Slots[k] \in Nat /\ Slots[k - 1] \in Nat
      BY <1>1, <1>5, <1>6, <2>1
    <3>2. QED
      BY <3>1
  <2>3. \E i \in 1..HSegs - 1 : s \in Slots[i - 1]..Slots[i] - 1
    BY <1>1, <1>6, <2>1, <2>2
  <2>4. PICK i : i = SegNum(s)
    OBVIOUS
  <2>5. i \in 1..HSegs - 1 /\ s \in Slots[i - 1]..Slots[i] - 1
    BY <1>8, <2>3, <2>4 DEF SegNum
  <2>6. i \in 1..Top /\ i \in 0..Top /\ i - 1 \in 0..Top /\ Slots[i - 1] <= s /\ s < Slots[i]
    <3>1. i \in 1..Top /\ i \in 0..Top /\ i - 1 \in 0..Top
      BY <1>1, <2>5
    <3>2. Slots[i - 1] \in Nat /\ Slots[i] \in Nat
      BY <1>1, <3>1
    <3>3. QED
      BY <2>5, <3>1, <3>2
  <2>7. i <= kg
    <3>1. ASSUME ~(i <= kg) PROVE ~(Slots[i - 1] < Slots[kg])
      <4>1. ~(i - 1 < kg)
        BY <2>6, <3>1
      <4>2. QED
        BY <2>6, <4>1, SlotsGrow
    <3>2. Slots[i - 1] < Slots[kg]
      BY <1>1, <2>6
    <3>3. QED
      BY <3>1, <3>2
  <2>8. QED
    BY <2>4, <2>6, <2>7
<1>9. QED
  BY <1>7, <1>8

\* What remains to be generated in chain c begins with r.
Entered(g, k0, kg, c, r) ==
  /\ r = NULL => \A x : Within(c, x) => ~Unpassed(g, k0, kg, Hash(x))
  /\ r # NULL => /\ Within(c, r) /\ Unpassed(g, k0, kg, Hash(r))
                 /\ \A x : Within(c, x) /\ Unpassed(g, k0, kg, Hash(x)) /\ x # r => Comes(c, r, x)

\* The slots, under the mask of note i, of slot s and of where it stopped.
Here(g, s, i) == SlotUnder(g.sgmask[i], s)
There(g, i) == g.sghash[i] % (g.sgmask[i] + 1)

\* Under an older mask, a note is about the same slot for the whole chain.
LEMMA HereIs ==
  ASSUME NEW t, Shape(t), NEW g, NEW k0, NEW kg, Notes(g, k0, kg), t.mask = g.tmask,
         NEW s \in 0..t.mask, NEW x \in Nat, x % (t.mask + 1) = s, NEW i \in k0 + 1..kg
  PROVE  /\ SegNum(s) \in 0..kg
         /\ i <= SegNum(s) =>
              /\ Here(g, s, i) = x % (g.sgmask[i] + 1)
              /\ Past(g.sgmask[i], g.sghash[i], x) <=>
                   Here(g, s, i) > There(g, i) \/ (Here(g, s, i) = There(g, i) /\ x > g.sghash[i])
         /\ i > SegNum(s) /\ There(g, i) < s =>
              \/ Past(g.sgmask[i], g.sghash[i], x)
              \/ /\ SegNum(s) \in k0 + 1..kg
                 /\ g.sgmask[i] = g.sgmask[SegNum(s)] /\ g.sghash[i] = g.sghash[SegNum(s)]
<1>1. PICK k, h, m : k = SegNum(s) /\ h = g.sghash[i] /\ m = g.sgmask[i]
  OBVIOUS
<1>2. /\ kg \in 0..Top /\ k0 \in 0..kg /\ g.tmask + 1 = Slots[kg] /\ i \in 1..Top
      /\ Top \in Nat /\ Slots[0] = HSlots
  BY SlotsIs DEF Notes
<1>3. PICK j \in k0..i - 1 : /\ m + 1 = Slots[j]
                             /\ \A l \in j + 1..i : g.sgmask[l] = m /\ g.sghash[l] = h
  BY <1>1 DEF Notes
<1>4. j \in 0..Top /\ j <= kg /\ j < i /\ h \in Nat /\ m \in Nat /\ i <= kg /\ j \in Int /\ i \in Int
  <2>1. g.sgmask \in [1..Top -> Nat] /\ g.sghash \in [1..Top -> Nat]
    BY DEF Notes
  <2>2. h \in Nat /\ m \in Nat
    BY <1>1, <1>2, <2>1
  <2>3. QED
    BY <1>2, <2>2
<1>5. s \in Nat /\ s < Slots[kg] /\ x % Slots[kg] = s
  <2>1. t.mask + 1 = Slots[kg] /\ t.mask \in Nat
    BY <1>2 DEF Shape
  <2>2. QED
    BY <2>1
<1>6. k \in 0..kg /\ s < Slots[k] /\ (k # 0 => k - 1 \in 0..Top /\ Slots[k - 1] <= s)
  BY <1>1, <1>2, <1>5, SegNumIs
<1>7. x % (m + 1) = s % (m + 1)
  <2>1. (x % Slots[kg]) % Slots[j] = x % Slots[j]
    BY <1>2, <1>4, SlotsRest
  <2>2. QED
    BY <1>3, <1>5, <2>1
<1>8. ASSUME i <= k
      PROVE  /\ Here(g, s, i) = x % (m + 1)
             /\ Past(m, h, x) <=>
                  Here(g, s, i) > There(g, i) \/ (Here(g, s, i) = There(g, i) /\ x > h)
  <2>1. k # 0 /\ j <= k - 1
    BY <1>2, <1>4, <1>6, <1>8
  <2>2. s >= Slots[k - 1] /\ k - 1 \in 0..Top
    <3>1. Slots[k - 1] \in Nat
      BY <1>6, <2>1, SlotsIs
    <3>2. QED
      BY <1>5, <1>6, <2>1, <3>1
  <2>3. (s - Slots[k - 1]) % Slots[j] = s % Slots[j]
    BY <1>4, <1>5, <2>1, <2>2, SlotsRest
  <2>4. Here(g, s, i) = (s - Slots[k - 1]) % (m + 1)
    BY <1>1, <2>1 DEF Here, SlotUnder
  <2>5. Here(g, s, i) = x % (m + 1)
    BY <1>3, <1>7, <2>3, <2>4
  <2>6. There(g, i) = h % (m + 1)
    BY <1>1 DEF There
  <2>7. QED
    BY <2>5, <2>6 DEF Past
<1>9. ASSUME i > k, There(g, i) < s
      PROVE  \/ Past(m, h, x)
             \/ k \in k0 + 1..kg /\ m = g.sgmask[k] /\ h = g.sghash[k]
  <2>1. CASE j < k
    <3>1. k \in j + 1..i /\ k \in k0 + 1..kg
      BY <1>2, <1>3, <1>4, <1>6, <1>9, <2>1
    <3>2. QED
      BY <1>3, <3>1
  <2>2. CASE ~(j < k)
    <3>1. s < Slots[j]
      <4>1. Slots[j] \in Nat /\ Slots[k] \in Nat /\ k \in 0..Top
        BY <1>2, <1>4, <1>6, SlotsIs
      <4>2. ~(Slots[j] < Slots[k])
        BY <1>4, <2>2, <4>1, SlotsGrow
      <4>3. QED
        BY <1>5, <1>6, <4>1, <4>2
    <3>2. s % (m + 1) = s
      <4>1. m + 1 \in Nat \ {0} /\ s \in 0..(m + 1) - 1 /\ s = 0 * (m + 1) + s
        BY <1>3, <1>4, <1>5, <3>1
      <4>2. QED
        BY <4>1, <1>5, DivModIs
    <3>3. There(g, i) = h % (m + 1)
      BY <1>1 DEF There
    <3>4. h % (m + 1) \in Int
      <4>1. m + 1 \in Nat \ {0}
        BY <1>4
      <4>2. h % (m + 1) \in 0..(m + 1) - 1
        BY <1>4, <4>1, DivMod
      <4>3. QED
        BY <4>2
    <3>5. x % (m + 1) > h % (m + 1)
      BY <1>5, <1>7, <1>9, <3>2, <3>3, <3>4
    <3>6. QED
      BY <3>5 DEF Past
  <2>3. QED
    BY <2>1, <2>2
<1>10. QED
  BY <1>1, <1>6, <1>8, <1>9

LEMMA EntryIs ==
  ASSUME NEW t, Shape(t), NEW g, NEW k0, NEW kg, Notes(g, k0, kg), t.mask = g.tmask,
         NEW s \in 0..t.mask, \A i \in k0 + 1..kg : There(g, i) < s
  PROVE  Entered(g, k0, kg, t.chains[s], Entry(t, g, s))
<1>1. PICK c, k, S, r, h : /\ c = t.chains[s] /\ k = SegNum(s) /\ r = Entry(t, g, s) /\ h = g.sghash
                           /\ S = {i \in 1..k : \A j \in i..k : g.sgmask[j] # 0}
  OBVIOUS
<1>2. /\ ChainOK(c) /\ s \in Nat /\ s < Slots[kg] /\ kg \in 0..Top /\ Top \in Nat
      /\ \A x : Within(c, x) => Hash(x) % (t.mask + 1) = s
  <2>1. t.mask \in Nat /\ t.mask + 1 = Slots[kg] /\ kg \in 0..Top /\ Top \in Nat
    BY SlotsIs DEF Shape, Notes
  <2>2. ChainOK(c) /\ \A x : Within(c, x) => Hash(x) % (t.mask + 1) = s
    BY <1>1 DEF Shape
  <2>3. QED
    BY <2>1, <2>2
<1>3. \A x : Within(c, x) => Hash(x) \in Nat
  <2>1. \A x : Within(c, x) => x \in Block
    BY <1>2, ChainFacts
  <2>2. QED
    BY <2>1, HashIs
<1>4. k \in 0..kg
  BY <1>1, <1>2, SegNumIs
<1>5. S = k0 + 1..k
  <2>1. \A i \in 1..kg : g.sgmask[i] # 0 <=> i > k0
    BY DEF Notes
  <2>2. kg \in Nat /\ k0 \in Nat /\ k \in Nat /\ k <= kg
    BY <1>2, <1>4 DEF Notes
  <2>3. ASSUME NEW i \in k0 + 1..k PROVE i \in S
    <3>1. i \in 1..k
      BY <2>2
    <3>2. \A j \in i..k : j \in 1..kg /\ j > k0
      BY <2>2
    <3>3. QED
      BY <1>1, <2>1, <3>1, <3>2
  <2>4. ASSUME NEW i \in S PROVE i \in k0 + 1..k
    <3>1. i \in 1..k /\ i \in i..k /\ i \in 1..kg
      BY <1>1, <2>2
    <3>2. g.sgmask[i] # 0
      BY <1>1, <3>1
    <3>3. QED
      BY <2>1, <2>2, <3>1, <3>2
  <2>5. QED
    BY <2>3, <2>4
<1> DEFINE Says(i, x) == Here(g, s, i) > There(g, i) \/ (Here(g, s, i) = There(g, i) /\ x > h[i])
<1>6. ASSUME NEW x, Within(c, x)
      PROVE  Unpassed(g, k0, kg, Hash(x)) <=> \A i \in S : Says(i, Hash(x))
  <2>1. Hash(x) \in Nat /\ Hash(x) % (t.mask + 1) = s
    BY <1>2, <1>3, <1>6
  <2>2. PICK y : y = Hash(x)
    OBVIOUS
  <2>3. y \in Nat /\ y % (t.mask + 1) = s
    BY <2>1, <2>2
  <2>4. ASSUME NEW i \in k0 + 1..kg
        PROVE  /\ i <= k => (Past(g.sgmask[i], h[i], y) <=> Says(i, y))
               /\ i > k => \/ Past(g.sgmask[i], h[i], y)
                           \/ /\ k \in k0 + 1..kg
                              /\ g.sgmask[i] = g.sgmask[k] /\ h[i] = h[k]
    BY <1>1, <2>3, HereIs
  <2>5. kg \in Nat /\ k0 \in Nat /\ k \in Nat /\ k <= kg
    BY <1>2, <1>4 DEF Notes
  <2>6. ASSUME Unpassed(g, k0, kg, y), NEW i \in S PROVE Says(i, y)
    <3>1. i \in k0 + 1..kg /\ i <= k
      BY <1>5, <2>5
    <3>2. Past(g.sgmask[i], h[i], y)
      BY <1>1, <2>6, <3>1 DEF Unpassed
    <3>3. QED
      BY <2>4, <3>1, <3>2
  <2>7. ASSUME \A i \in S : Says(i, y), NEW i \in k0 + 1..kg PROVE Past(g.sgmask[i], h[i], y)
    <3>1. ASSUME NEW j \in k0 + 1..kg, j <= k PROVE Past(g.sgmask[j], h[j], y)
      <4>1. j \in S
        BY <1>5, <2>5, <3>1
      <4>2. QED
        BY <2>4, <2>7, <3>1, <4>1
    <3>2. CASE i <= k
      BY <3>1, <3>2
    <3>3. CASE ~(i <= k)
      <4>1. i > k
        BY <2>5, <3>3
      <4>2. CASE k \in k0 + 1..kg /\ g.sgmask[i] = g.sgmask[k] /\ h[i] = h[k]
        <5>1. Past(g.sgmask[k], h[k], y)
          BY <2>5, <3>1, <4>2
        <5>2. QED
          BY <4>2, <5>1
      <4>3. QED
        BY <2>4, <4>1, <4>2
    <3>4. QED
      BY <3>2, <3>3
  <2> HIDE DEF Says
  <2>8. Unpassed(g, k0, kg, y) <=> \A i \in S : Says(i, y)
    BY <1>1, <2>6, <2>7 DEF Unpassed
  <2>9. QED
    BY <2>2, <2>8
<1>7. \A i \in S : Here(g, s, i) \in Int /\ There(g, i) \in Int /\ h[i] \in Nat /\ i \in 1..Top
  <2> SUFFICES ASSUME NEW i \in S
               PROVE  Here(g, s, i) \in Int /\ There(g, i) \in Int /\ h[i] \in Nat /\ i \in 1..Top
    OBVIOUS
  <2>1. i \in 1..Top /\ i <= k
    BY <1>2, <1>4, <1>5 DEF Notes
  <2>2. g.sgmask \in [1..Top -> Nat] /\ h \in [1..Top -> Nat]
    BY <1>1 DEF Notes
  <2>3. g.sgmask[i] + 1 \in Nat \ {0} /\ h[i] \in Nat
    <3>1. PICK m : m = g.sgmask[i]
      OBVIOUS
    <3>2. m \in Nat /\ h[i] \in Nat
      BY <2>1, <2>2, <3>1
    <3>3. QED
      BY <3>1, <3>2
  <2>4. h[i] % (g.sgmask[i] + 1) \in Int
    BY <2>3
  <2>5. PICK z : z = s - (IF k = 0 THEN 0 ELSE Slots[k - 1])
    OBVIOUS
  <2>6. z \in Int
    BY <1>1, <1>2, <2>5, SegNumIs, SlotsIs
  <2>7. z % (g.sgmask[i] + 1) \in Int
    BY <2>3, <2>6
  <2>8. QED
    BY <1>1, <2>1, <2>3, <2>4, <2>5, <2>7 DEF Here, There, SlotUnder
<1>8. r = IF \E i \in S : Here(g, s, i) < There(g, i) THEN NULL
          ELSE LET past == {h[i] : i \in {j \in S : Here(g, s, j) = There(g, j)}}
               IN IF past = {} THEN Head1(c) ELSE FirstAbove(c, Max(past))
  BY <1>1 DEF Entry, Here, There
<1>9. CASE \E i \in S : Here(g, s, i) < There(g, i)
  <2>1. r = NULL
    BY <1>8, <1>9
  <2>2. PICK i \in S : Here(g, s, i) < There(g, i)
    BY <1>9
  <2>3. \A x : ~Says(i, x)
    BY <1>7, <2>2
  <2>4. \A x : Within(c, x) => ~Unpassed(g, k0, kg, Hash(x))
    BY <1>6, <2>3
  <2>5. QED
    BY <1>1, <2>1, <2>4 DEF Entered
<1>10. CASE \A i \in S : Here(g, s, i) >= There(g, i)
  <2>1. PICK A, Q : A = {j \in S : Here(g, s, j) = There(g, j)} /\ Q = {h[i] : i \in A}
    OBVIOUS
  <2>2. r = IF Q = {} THEN Head1(c) ELSE FirstAbove(c, Max(Q))
    <3>1. ~\E i \in S : Here(g, s, i) < There(g, i)
      BY <1>7, <1>10
    <3>2. QED
      BY <1>8, <2>1, <3>1
  <2>3. ASSUME NEW x, Within(c, x)
        PROVE  Unpassed(g, k0, kg, Hash(x)) <=> \A i \in A : Hash(x) > h[i]
    <3>1. \A i \in S : i \notin A => Here(g, s, i) > There(g, i)
      BY <1>7, <1>10, <2>1
    <3>2. \A i \in S : Says(i, Hash(x)) <=> (i \in A => Hash(x) > h[i])
      BY <1>7, <2>1, <3>1
    <3>3. A \subseteq S
      BY <2>1
    <3> HIDE DEF Says
    <3>4. QED
      BY <1>6, <2>3, <3>2, <3>3
  <2>4. CASE A = {}
    <3>1. r = Head1(c)
      BY <2>1, <2>2, <2>4
    <3>2. FirstOf(c, r)
      BY <1>2, <3>1, Head1Is
    <3>3. \A x : Within(c, x) => Unpassed(g, k0, kg, Hash(x))
      BY <2>3, <2>4
    <3>4. QED
      BY <1>1, <3>2, <3>3 DEF FirstOf, Entered
  <2>5. CASE A # {}
    <3>1. A \in SUBSET (1..Top) /\ h \in [1..Top -> Nat]
      BY <1>1, <1>7, <2>1 DEF Notes
    <3>2. PICK i \in A : \A j \in A : h[j] <= h[i]
      BY <1>2, <2>5, <3>1, MaxOver
    <3>3. h[i] \in Q /\ h[i] \in Nat /\ \A q \in Q : q \in Nat /\ q <= h[i]
      BY <2>1, <3>1, <3>2
    <3>4. Max(Q) = h[i]
      <4>1. h[i] \in Q /\ \A q \in Q : h[i] >= q
        BY <3>3
      <4>2. \A q \in Q : (\A z \in Q : q >= z) => q = h[i]
        BY <3>3
      <4>3. QED
        BY <4>1, <4>2 DEF Max
    <3>5. Q # {}
      BY <3>3
    <3>6. r = FirstAbove(c, h[i])
      BY <2>2, <3>4, <3>5
    <3>7. FirstPast(c, h[i], r)
      BY <1>2, <3>3, <3>6, FirstAboveIs
    <3>8. ASSUME NEW x, Within(c, x)
          PROVE  Hash(x) \in Nat /\ (Unpassed(g, k0, kg, Hash(x)) <=> Hash(x) > h[i])
      <4>1. Hash(x) \in Nat
        BY <1>3, <3>8
      <4>2. \A j \in A : h[j] \in Nat
        BY <3>1
      <4>3. (\A j \in A : Hash(x) > h[j]) <=> Hash(x) > h[i]
        BY <3>2, <4>1, <4>2
      <4>4. QED
        BY <2>3, <3>8, <4>1, <4>3
    <3>9. r = NULL => \A x : Within(c, x) => ~Unpassed(g, k0, kg, Hash(x))
      BY <3>3, <3>7, <3>8 DEF FirstPast
    <3>10. QED
      BY <1>1, <3>7, <3>8, <3>9 DEF FirstPast, Entered
  <2>6. QED
    BY <2>4, <2>5
<1>11. QED
  BY <1>7, <1>9, <1>10

-----------------------------------------------------------------------------
(* Where a generator stands.  It will go along p: the element produced     *)
(* last, the blocks to which clinks lead from it if it has been unlinked,  *)
(* and the last one of them, which is in the structure or is NULL.         *)

\* The slot of hash number x when the generator saw the chains last.
Was(g, x) == x % (g.tmask + 1)

IsGen(g) ==
  g = [ep |-> g.ep, slot |-> g.slot, tmask |-> g.tmask, sgmask |-> g.sgmask, sghash |-> g.sghash]

Path(t, p) ==
  /\ p \in Seq(Block \cup {NULL}) /\ Len(p) >= 1
  /\ \A i \in 1..Len(p) - 1 :
       p[i] \in Block /\ ~In(t, p[i]) /\ p[i] \in DOMAIN t.stale /\ t.stale[p[i]] = p[i + 1]
  /\ \A i, j \in 1..Len(p) - 1 : i < j => p[i] # p[j]
  /\ p[Len(p)] # NULL => In(t, p[Len(p)])

Lies(g, p) ==
  /\ \A i \in 1..Len(p) : p[i] # NULL => Was(g, Hash(p[i])) = g.slot
  /\ \A i, j \in 1..Len(p) : i < j /\ p[j] # NULL => Hash(p[i]) <= Hash(p[j])

Stands(t, g, k0, kg) ==
  /\ IsGen(g) /\ Notes(g, k0, kg) /\ g.tmask <= t.mask
  /\ g.ep \in Block /\ Was(g, Hash(g.ep)) = g.slot /\ Unpassed(g, k0, kg, Hash(g.ep))

\* All of M is yet to come, and what is in the chain follows, or is, l.
Owes(t, g, M, k0, kg) ==
  \A b \in M : /\ In(t, b) /\ Unpassed(g, k0, kg, Hash(b))
               /\ \/ Was(g, Hash(b)) > g.slot
                  \/ Was(g, Hash(b)) = g.slot /\ Hash(b) >= Hash(g.ep)
Follows(t, g, M, l, too) ==
  \A b \in M : /\ Was(g, Hash(b)) = g.slot
               /\ t.mask = g.tmask \/ Hash(b) = Hash(g.ep)
               => l # NULL /\ ((too /\ b = l) \/ Before(t, l, b))

\* All that may yet come is allowed by Y.
Grants(t, g, Y, l, k0, kg) ==
  \A b : /\ In(t, b) /\ Unpassed(g, k0, kg, Hash(b))
         /\ \/ Past(g.tmask, Hash(g.ep), Hash(b))
            \/ l # NULL /\ Before(t, l, b) /\ Hash(b) = Hash(g.ep)
         => Y[b] = 1

\* The generator has produced ep, ...
Trails(t, g, M, Y, p, k0, kg) ==
  /\ Stands(t, g, k0, kg) /\ Path(t, p) /\ Lies(g, p) /\ p[1] = g.ep
  /\ Owes(t, g, M, k0, kg) /\ Follows(t, g, M, p[Len(p)], Len(p) > 1)
  /\ \A i \in 2..Len(p) : p[i] # NULL => Y[p[i]] = 1
  /\ Grants(t, g, Y, p[Len(p)], k0, kg)
Track(t, g, M, Y, p, k0, kg) ==
  /\ Trails(t, g, M, Y, p, k0, kg)
  /\ \A b \in DOMAIN t.stale : \E i \in 1..Len(p) - 1 : p[i] = b

\* ... is about to, ...
Ahead(t, g, M, Y, p, k0, kg) ==
  /\ Stands(t, g, k0, kg) /\ Path(t, p) /\ Lies(g, p) /\ p[1] = g.ep
  /\ Owes(t, g, M, k0, kg) /\ Follows(t, g, M, p[Len(p)], TRUE)
  /\ \A i \in 1..Len(p) : p[i] # NULL => Y[p[i]] = 1
  /\ Grants(t, g, Y, p[Len(p)], k0, kg)

\* ... goes on from ep along p, ...
Onward(t, g, M, Y, p, k0, kg) ==
  /\ Stands(t, g, k0, kg) /\ Path(t, p) /\ Lies(g, p)
  /\ \A i \in 1..Len(p) : p[i] # NULL => Hash(g.ep) <= Hash(p[i])
  /\ Owes(t, g, M, k0, kg) /\ Follows(t, g, M, p[Len(p)], TRUE)
  /\ \A i \in 1..Len(p) : p[i] # NULL => Y[p[i]] = 1
  /\ Grants(t, g, Y, p[Len(p)], k0, kg)

\* ... or has done with the slot.
Rest(t, g, M, Y, k0, kg) ==
  /\ IsGen(g) /\ Notes(g, k0, kg) /\ g.tmask = t.mask
  /\ \A b \in M : In(t, b) /\ Unpassed(g, k0, kg, Hash(b)) /\ Hchain(t, Hash(b)) > g.slot
  /\ \A b : In(t, b) /\ Unpassed(g, k0, kg, Hash(b)) /\ Hchain(t, Hash(b)) > g.slot => Y[b] = 1

\* ep is what comes first in its slot, and is in the structure.
LEMMA LandedIs ==
  ASSUME NEW t, Shape(t), NEW g, NEW M, NEW Y, NEW k0, NEW kg,
         IsGen(g), Notes(g, k0, kg), g.tmask = t.mask, In(t, g.ep), Hchain(t, Hash(g.ep)) = g.slot,
         Unpassed(g, k0, kg, Hash(g.ep)),
         \A b \in M : In(t, b) /\ Unpassed(g, k0, kg, Hash(b)),
         \A b \in M : Hchain(t, Hash(b)) > g.slot \/ b = g.ep \/ Before(t, g.ep, b),
         Y[g.ep] = 1,
         \A b : /\ In(t, b) /\ Unpassed(g, k0, kg, Hash(b))
                /\ Hchain(t, Hash(b)) > g.slot \/ Before(t, g.ep, b)
                => Y[b] = 1
  PROVE  Ahead(t, g, M, Y, <<g.ep>>, k0, kg)
<1>1. PICK e, p : e = g.ep /\ p = <<e>>
  OBVIOUS
<1>2. e \in Block /\ e # NULL /\ Hash(e) \in Nat /\ \A b : In(t, b) => b \in Block /\ Hash(b) \in Nat
  BY <1>1, PlaceIs
<1>3. Len(p) = 1 /\ p[1] = e /\ p \in Seq(Block \cup {NULL}) /\ 1..Len(p) - 1 = {} /\ 1..Len(p) = {1}
  BY <1>1, <1>2
<1>4. \A x : Was(g, x) = Hchain(t, x)
  BY DEF Was, Hchain
<1>5. Stands(t, g, k0, kg)
  <2>1. g.tmask <= t.mask
    BY DEF Shape
  <2>2. QED
    BY <1>1, <1>2, <1>4, <2>1 DEF Stands
<1>6. Path(t, p)
  BY <1>1, <1>3 DEF Path
<1>7. Lies(g, p)
  BY <1>1, <1>3, <1>4 DEF Lies
<1>8. \A a, b : Before(t, a, b) => Hash(a) <= Hash(b) /\ Hchain(t, Hash(a)) = Hchain(t, Hash(b))
  BY OrderIs
<1>9. Owes(t, g, M, k0, kg)
  BY <1>1, <1>2, <1>4, <1>8 DEF Owes
<1>10. g.slot \in Nat
  BY DEF Notes
<1>11. Follows(t, g, M, e, TRUE)
  BY <1>1, <1>2, <1>4, <1>10 DEF Follows
<1>12. Grants(t, g, Y, e, k0, kg)
  <2> SUFFICES ASSUME NEW b, In(t, b), Unpassed(g, k0, kg, Hash(b)),
                      \/ Past(g.tmask, Hash(e), Hash(b))
                      \/ Before(t, e, b)
               PROVE  Y[b] = 1
    BY <1>1 DEF Grants
  <2>1. CASE Before(t, e, b)
    BY <1>1, <2>1
  <2>2. CASE Past(g.tmask, Hash(e), Hash(b))
    <3>1. \/ Hchain(t, Hash(b)) > g.slot
          \/ Hchain(t, Hash(b)) = g.slot /\ Hash(b) > Hash(e)
      BY <1>1, <1>4, <2>2 DEF Past, Was
    <3>2. CASE Hchain(t, Hash(b)) = g.slot /\ Hash(b) > Hash(e)
      <4>1. e # b /\ Hchain(t, Hash(b)) = Hchain(t, Hash(e)) /\ ~Before(t, b, e)
        BY <1>1, <1>2, <1>8, <3>2
      <4>2. Before(t, e, b)
        BY <1>1, <4>1, OrderIs
      <4>3. QED
        BY <1>1, <4>2
    <3>3. QED
      BY <1>1, <3>1, <3>2
  <2>3. QED
    BY <2>1, <2>2
<1>13. QED
  BY <1>1, <1>3, <1>5, <1>6, <1>7, <1>9, <1>11, <1>12 DEF Ahead

LEMMA IdleIs == Idle.ep = NULL
  BY DEF Idle

LEMMA ThereIs ==
  ASSUME NEW g, NEW k0, NEW kg, Notes(g, k0, kg), NEW i \in k0 + 1..kg
  PROVE  /\ i \in 1..Top /\ i \in 1..kg /\ g.sgmask[i] \in Nat /\ g.sghash[i] \in Nat
         /\ There(g, i) \in Nat /\ There(g, i) <= g.slot
<1>1. g.sgmask \in [1..Top -> Nat] /\ g.sghash \in [1..Top -> Nat] /\ i \in 1..Top /\ i \in 1..kg
  <2>1. g.sgmask \in [1..Top -> Nat] /\ g.sghash \in [1..Top -> Nat]
    BY DEF Notes
  <2>2. kg \in 0..Top /\ k0 \in 0..kg
    BY DEF Notes
  <2>3. Top \in Nat
    BY SlotsIs
  <2>4. i \in 1..Top /\ i \in 1..kg
    BY <2>2, <2>3
  <2>5. QED
    BY <2>1, <2>4
<1>2. PICK m, h : m = g.sgmask[i] /\ h = g.sghash[i]
  OBVIOUS
<1>3. m \in Nat /\ h \in Nat
  BY <1>1, <1>2
<1>4. h % (m + 1) \in Nat
  BY <1>3
<1>5. There(g, i) <= g.slot
  BY DEF Notes, There
<1>6. QED
  BY <1>1, <1>2, <1>3, <1>4, <1>5 DEF There

\* The notes hold in any later slot.
LEMMA NotesSame ==
  ASSUME NEW g, NEW k0, NEW kg, Notes(g, k0, kg), NEW r,
         r.tmask = g.tmask, r.sgmask = g.sgmask, r.sghash = g.sghash,
         r.slot \in 0..g.tmask, g.slot <= r.slot
  PROVE  /\ Notes(r, k0, kg)
         /\ \A x : Unpassed(r, k0, kg, x) <=> Unpassed(g, k0, kg, x)
<1>1. PICK m, w, h, s : m = g.tmask /\ w = g.sgmask /\ h = g.sghash /\ s = r.slot
  OBVIOUS
<1>2. \A i \in k0 + 1..kg : h[i] % (w[i] + 1) <= s
  <2> SUFFICES ASSUME NEW i \in k0 + 1..kg PROVE h[i] % (w[i] + 1) <= s
    OBVIOUS
  <2>1. There(g, i) \in Nat /\ There(g, i) <= g.slot /\ There(g, i) = h[i] % (w[i] + 1)
    BY <1>1, ThereIs DEF There
  <2>2. g.slot \in Nat /\ s \in Nat
    BY <1>1 DEF Notes
  <2>3. QED
    BY <1>1, <2>1, <2>2
<1>3. /\ kg \in 0..Top /\ k0 \in 0..kg /\ m + 1 = Slots[kg] /\ m \in Nat
      /\ w \in [1..Top -> Nat] /\ h \in [1..Top -> Nat]
      /\ \A i \in 1..kg : w[i] # 0 <=> i > k0
      /\ \A i \in k0 + 1..kg : \E j \in k0..i - 1 :
           w[i] + 1 = Slots[j] /\ \A l \in j + 1..i : w[l] = w[i] /\ h[l] = h[i]
  BY <1>1 DEF Notes
<1>4. r.tmask = m /\ r.sgmask = w /\ r.sghash = h /\ r.slot = s /\ s \in 0..m
  BY <1>1
<1>5. /\ kg \in 0..Top /\ k0 \in 0..kg /\ r.tmask + 1 = Slots[kg] /\ r.tmask \in Nat
      /\ r.slot \in 0..r.tmask
      /\ r.sgmask \in [1..Top -> Nat] /\ r.sghash \in [1..Top -> Nat]
  BY <1>3, <1>4
<1>6. \A i \in 1..kg : r.sgmask[i] # 0 <=> i > k0
  BY <1>3, <1>4
<1>7. ASSUME NEW i \in k0 + 1..kg
      PROVE  /\ r.sghash[i] % (r.sgmask[i] + 1) <= r.slot
             /\ \E j \in k0..i - 1 :
                  /\ r.sgmask[i] + 1 = Slots[j]
                  /\ \A l \in j + 1..i : r.sgmask[l] = r.sgmask[i] /\ r.sghash[l] = r.sghash[i]
  <2>1. r.sghash[i] % (r.sgmask[i] + 1) <= r.slot
    BY <1>2, <1>4
  <2>2. PICK j \in k0..i - 1 : w[i] + 1 = Slots[j] /\ \A l \in j + 1..i : w[l] = w[i] /\ h[l] = h[i]
    BY <1>3
  <2>3. QED
    BY <1>4, <2>1, <2>2
<1>8. Notes(r, k0, kg)
  BY <1>5, <1>6, <1>7 DEF Notes
<1>9. QED
  BY <1>8 DEF Unpassed

LEMMA NextSlotIs ==
  ASSUME NEW t, Shape(t), NEW g, NEW M, NEW Y, NEW k0, NEW kg, Rest(t, g, M, Y, k0, kg),
         NEW r, r = NextSlot(t, g)
  PROVE  \/ r = Idle /\ M = {}
         \/ r # Idle /\ Ahead(t, r, M, Y, <<r.ep>>, k0, kg)
<1>1. PICK S, m : S = {s \in g.slot + 1..t.mask : Entry(t, g, s) # NULL} /\ m = Min(S)
  OBVIOUS
<1>2. IsGen(g) /\ Notes(g, k0, kg) /\ t.mask = g.tmask /\ g.slot \in Nat /\ t.mask \in Nat
  BY DEF Rest, Notes, Shape
<1>3. \A s \in g.slot + 1..t.mask : s \in 0..t.mask /\ Entered(g, k0, kg, t.chains[s], Entry(t, g, s))
  <2> SUFFICES ASSUME NEW s \in g.slot + 1..t.mask
               PROVE  s \in 0..t.mask /\ Entered(g, k0, kg, t.chains[s], Entry(t, g, s))
    OBVIOUS
  <2>1. s \in 0..t.mask /\ g.slot < s
    BY <1>2
  <2>2. \A i \in k0 + 1..kg : There(g, i) < s
    <3> SUFFICES ASSUME NEW i \in k0 + 1..kg PROVE There(g, i) < s
      OBVIOUS
    <3>1. There(g, i) \in Nat /\ There(g, i) <= g.slot
      BY <1>2, ThereIs
    <3>2. QED
      BY <1>2, <2>1, <3>1
  <2>3. QED
    BY <1>2, <2>1, <2>2, EntryIs
<1>4. \A b \in M : In(t, b) /\ Unpassed(g, k0, kg, Hash(b)) /\ Hchain(t, Hash(b)) > g.slot
  BY DEF Rest
<1>5. \A b : In(t, b) => Hash(b) \in Nat /\ Hchain(t, Hash(b)) \in 0..t.mask
                         /\ Within(t.chains[Hchain(t, Hash(b))], b)
  BY PlaceIs
<1>6. \A b \in M : Hchain(t, Hash(b)) \in S
  <2> SUFFICES ASSUME NEW b \in M PROVE Hchain(t, Hash(b)) \in S
    OBVIOUS
  <2>1. PICK s : s = Hchain(t, Hash(b))
    OBVIOUS
  <2>2. s \in g.slot + 1..t.mask /\ Within(t.chains[s], b)
    BY <1>2, <1>4, <1>5, <2>1
  <2>3. Entry(t, g, s) # NULL
    BY <1>3, <1>4, <2>2 DEF Entered
  <2>4. QED
    BY <1>1, <2>1, <2>2, <2>3
<1>7. CASE S = {}
  <2>1. r = Idle
    BY <1>1, <1>7 DEF NextSlot
  <2>2. M = {}
    BY <1>6, <1>7
  <2>3. QED
    BY <2>1, <2>2
<1>8. CASE S # {}
  <2>1. S \subseteq Nat
    BY <1>1, <1>2
  <2>2. m \in S /\ \A s \in S : m <= s
    BY <1>1, <1>8, <2>1, MinIn
  <2>3. PICK e, c : e = Entry(t, g, m) /\ c = t.chains[m]
    OBVIOUS
  <2>4. m \in g.slot + 1..t.mask /\ m \in 0..t.mask /\ m > g.slot /\ e # NULL
    BY <1>1, <1>2, <2>2, <2>3
  <2>5. /\ Within(c, e) /\ Unpassed(g, k0, kg, Hash(e))
        /\ \A x : Within(c, x) /\ Unpassed(g, k0, kg, Hash(x)) /\ x # e => Comes(c, e, x)
    BY <1>3, <2>3, <2>4 DEF Entered
  <2>6. In(t, e) /\ Hchain(t, Hash(e)) = m /\ e \in Block
    BY <2>3, <2>4, <2>5, PlaceIs
  <2>7. r = [g EXCEPT !.slot = m, !.ep = e]
    BY <1>1, <1>8, <2>3 DEF NextSlot
  <2>8. PICK o, u, a, w, x : o = g.ep /\ u = g.slot /\ a = g.tmask /\ w = g.sgmask /\ x = g.sghash
    OBVIOUS
  <2>9. g = [ep |-> o, slot |-> u, tmask |-> a, sgmask |-> w, sghash |-> x]
    BY <1>2, <2>8 DEF IsGen
  <2>10. r = [ep |-> e, slot |-> m, tmask |-> a, sgmask |-> w, sghash |-> x]
    BY <2>7, <2>9
  <2>11. /\ r.ep = e /\ r.slot = m /\ r.tmask = g.tmask /\ r.sgmask = g.sgmask /\ r.sghash = g.sghash
         /\ IsGen(r)
    BY <2>8, <2>10 DEF IsGen
  <2>12. Notes(r, k0, kg) /\ \A z : Unpassed(r, k0, kg, z) <=> Unpassed(g, k0, kg, z)
    <3>1. r.slot \in 0..g.tmask /\ g.slot <= r.slot
      BY <1>2, <2>4, <2>11
    <3>2. Notes(g, k0, kg) /\ r.tmask = g.tmask /\ r.sgmask = g.sgmask /\ r.sghash = g.sghash
      BY <1>2, <2>11
    <3>3. QED
      BY <3>1, <3>2, NotesSame
  <2>13. \A z : Unpassed(r, k0, kg, z) <=> Unpassed(g, k0, kg, z)
    BY <2>12
  <2>14. \A b \in M : Hchain(t, Hash(b)) > m \/ b = e \/ Before(t, e, b)
    <3> SUFFICES ASSUME NEW b \in M PROVE Hchain(t, Hash(b)) > m \/ b = e \/ Before(t, e, b)
      OBVIOUS
    <3>1. PICK s : s = Hchain(t, Hash(b))
      OBVIOUS
    <3>2. s \in S /\ m <= s /\ s \in Nat /\ m \in Nat
      BY <1>6, <2>1, <2>2, <3>1
    <3>3. CASE s = m /\ b # e
      <4>1. Within(c, b)
        BY <1>4, <1>5, <2>3, <3>1, <3>3
      <4>2. Comes(c, e, b)
        BY <1>4, <2>5, <3>3, <4>1
      <4>3. Before(t, e, b)
        BY <2>3, <2>4, <4>2 DEF Before
      <4>4. QED
        BY <4>3
    <3>4. QED
      BY <3>1, <3>2, <3>3
  <2>15. \A b : In(t, b) /\ Unpassed(g, k0, kg, Hash(b)) /\ Hchain(t, Hash(b)) > g.slot => Y[b] = 1
    BY DEF Rest
  <2>16. Y[e] = 1
    BY <2>4, <2>5, <2>6, <2>15
  <2>17. ASSUME NEW b, In(t, b), Unpassed(g, k0, kg, Hash(b)),
                Hchain(t, Hash(b)) > m \/ Before(t, e, b)
         PROVE  Y[b] = 1
    <3>1. Before(t, e, b) => Hchain(t, Hash(b)) = m
      BY <2>6, OrderIs
    <3>2. Hchain(t, Hash(b)) \in Nat
      BY <1>5, <2>17
    <3>3. Hchain(t, Hash(b)) > g.slot
      BY <1>2, <2>4, <2>17, <3>1, <3>2
    <3>4. QED
      BY <2>15, <2>17, <3>3
  <2>18. r.tmask = t.mask /\ In(t, r.ep) /\ Hchain(t, Hash(r.ep)) = r.slot
         /\ Unpassed(r, k0, kg, Hash(r.ep)) /\ Y[r.ep] = 1
    BY <1>2, <2>5, <2>6, <2>11, <2>13, <2>16
  <2>19. \A b \in M : In(t, b) /\ Unpassed(r, k0, kg, Hash(b))
    BY <1>4, <2>13
  <2>20. \A b \in M : Hchain(t, Hash(b)) > r.slot \/ b = r.ep \/ Before(t, r.ep, b)
    BY <2>11, <2>14
  <2>21. \A b : /\ In(t, b) /\ Unpassed(r, k0, kg, Hash(b))
                /\ Hchain(t, Hash(b)) > r.slot \/ Before(t, r.ep, b)
                => Y[b] = 1
    BY <2>11, <2>13, <2>17
  <2>22. Ahead(t, r, M, Y, <<r.ep>>, k0, kg)
    BY <2>11, <2>12, <2>18, <2>19, <2>20, <2>21, LandedIs
  <2>23. r # Idle
    BY <2>4, <2>11, IdleIs
  <2>24. QED
    BY <2>22, <2>23
<1>9. QED
  BY <1>7, <1>8

\* Of what has been unlinked, the structure d keeps what is on p.
Kept(d, t, p) ==
  /\ d.mask = t.mask /\ d.chains = t.chains
  /\ \A b : b \in DOMAIN d.stale <=> \E i \in 1..Len(p) - 1 : p[i] = b
  /\ \A i \in 1..Len(p) - 1 : d.stale[p[i]] = t.stale[p[i]]

LEMMA PathKept ==
  ASSUME NEW t, NEW p, Path(t, p), NEW d, Kept(d, t, p)
  PROVE  /\ \A b : In(d, b) <=> In(t, b)
         /\ \A a, b : Before(d, a, b) <=> Before(t, a, b)
         /\ Path(d, p)
<1>1. \A b : In(d, b) <=> In(t, b)
  BY DEF Kept, In
<1>2. \A a, b : Before(d, a, b) <=> Before(t, a, b)
  BY DEF Kept, Before
<1>3. /\ \A b : b \in DOMAIN d.stale <=> \E i \in 1..Len(p) - 1 : p[i] = b
      /\ \A i \in 1..Len(p) - 1 : d.stale[p[i]] = t.stale[p[i]]
  BY DEF Kept
<1>4. Path(d, p)
  BY <1>1, <1>3 DEF Path
<1>5. QED
  BY <1>1, <1>2, <1>4

LEMMA AheadTracks ==
  ASSUME NEW t, Shape(t), NEW g, NEW M, NEW Y, NEW p, NEW k0, NEW kg, Ahead(t, g, M, Y, p, k0, kg),
         NEW d, Kept(d, t, p), NEW M1, \A b \in M1 : b \in M /\ b # g.ep,
         NEW Y1, \A b : (In(t, b) \/ b \in DOMAIN d.stale) /\ b # g.ep => Y1[b] = Y[b]
  PROVE  Track(d, g, M1, Y1, p, k0, kg)
<1>1. PICK n, l, e : n = Len(p) /\ l = p[n] /\ e = g.ep
  OBVIOUS
<1>2. /\ Stands(t, g, k0, kg) /\ Path(t, p) /\ Lies(g, p) /\ p[1] = e
      /\ Owes(t, g, M, k0, kg) /\ Follows(t, g, M, l, TRUE)
      /\ (\A i \in 1..n : p[i] # NULL => Y[p[i]] = 1)
      /\ Grants(t, g, Y, l, k0, kg)
  BY <1>1 DEF Ahead
<1>3. /\ \A b : In(d, b) <=> In(t, b)
      /\ \A a, b : Before(d, a, b) <=> Before(t, a, b)
      /\ Path(d, p) /\ d.mask = t.mask
      /\ \A b : b \in DOMAIN d.stale <=> \E i \in 1..n - 1 : p[i] = b
  BY <1>1, <1>2, PathKept DEF Kept
<1>4. /\ n \in Nat /\ n >= 1 /\ e \in Block /\ e # NULL /\ Hash(e) \in Nat
      /\ (\A i \in 1..n - 1 : ~In(t, p[i]))
      /\ (\A i, j \in 1..n - 1 : i < j => p[i] # p[j])
      /\ (l # NULL => In(t, l))
  <2>1. e \in Block
    BY <1>1, <1>2 DEF Stands
  <2>2. QED
    BY <1>1, <1>2, <2>1, HashIs DEF Path
<1>5. n > 1 => ~In(t, e) /\ l # e
  <2> SUFFICES ASSUME n > 1 PROVE ~In(t, e) /\ l # e
    OBVIOUS
  <2>1. 1 \in 1..n - 1
    BY <1>4
  <2>2. ~In(t, e)
    BY <1>2, <1>4, <2>1
  <2>3. QED
    BY <1>4, <2>2
<1>6. Stands(d, g, k0, kg)
  BY <1>2, <1>3 DEF Stands
<1>7. Owes(d, g, M1, k0, kg)
  BY <1>2, <1>3 DEF Owes
<1>8. Follows(d, g, M1, l, n > 1)
  <2> SUFFICES ASSUME NEW b \in M1, Was(g, Hash(b)) = g.slot, t.mask = g.tmask \/ Hash(b) = Hash(e)
               PROVE  l # NULL /\ ((n > 1 /\ b = l) \/ Before(t, l, b))
    BY <1>1, <1>3 DEF Follows
  <2>1. b \in M /\ b # e
    BY <1>1
  <2>2. l # NULL /\ (b = l \/ Before(t, l, b))
    BY <1>1, <1>2, <2>1 DEF Follows
  <2>3. n = 1 => l = e
    BY <1>1, <1>2
  <2>4. QED
    BY <1>4, <2>1, <2>2, <2>3
<1>9. ASSUME NEW i \in 2..n, p[i] # NULL PROVE Y1[p[i]] = 1
  <2>1. i \in 1..n /\ 1 \in 1..n - 1
    BY <1>4
  <2>2. CASE i = n
    <3>1. In(t, p[i]) /\ p[i] # e
      BY <1>1, <1>4, <1>5, <1>9, <2>2
    <3>2. QED
      BY <1>1, <1>2, <1>9, <2>1, <3>1
  <2>3. CASE i # n
    <3>1. i \in 1..n - 1 /\ 1 < i
      BY <1>4, <2>3
    <3>2. p[i] # e /\ p[i] \in DOMAIN d.stale
      BY <1>2, <1>3, <1>4, <2>1, <3>1
    <3>3. QED
      BY <1>1, <1>2, <1>9, <2>1, <3>2
  <2>4. QED
    BY <2>2, <2>3
<1>10. Grants(d, g, Y1, l, k0, kg)
  <2> SUFFICES ASSUME NEW b, In(t, b), Unpassed(g, k0, kg, Hash(b)),
                      \/ Past(g.tmask, Hash(e), Hash(b))
                      \/ l # NULL /\ Before(t, l, b) /\ Hash(b) = Hash(e)
               PROVE  Y1[b] = 1
    BY <1>1, <1>3 DEF Grants
  <2>1. Y[b] = 1
    BY <1>1, <1>2 DEF Grants
  <2>2. b # e
    <3> SUFFICES ASSUME b = e PROVE FALSE
      OBVIOUS
    <3>1. ~Past(g.tmask, Hash(e), Hash(e))
      <4>1. g.tmask + 1 \in Nat \ {0}
        BY <1>2 DEF Stands, Notes
      <4>2. Hash(e) % (g.tmask + 1) \in Int
        BY <1>4, <4>1
      <4>3. QED
        BY <1>4, <4>2 DEF Past
    <3>2. n = 1 /\ l = e /\ Before(t, l, b)
      BY <1>1, <1>2, <1>4, <1>5, <3>1
    <3>3. l[1] # b[1]
      BY <3>2, OrderIs
    <3>4. QED
      BY <3>2, <3>3
  <2>3. QED
    BY <1>1, <2>1, <2>2
<1>11. QED
  BY <1>1, <1>2, <1>3, <1>6, <1>7, <1>8, <1>9, <1>10 DEF Track, Trails

\* What comes after an element that has not been passed has not been either.
LEMMA UnpassedUp ==
  ASSUME NEW g, NEW k0, NEW kg, Notes(g, k0, kg), NEW x \in Nat, NEW y \in Nat,
         Was(g, x) = Was(g, y), x <= y, Unpassed(g, k0, kg, x)
  PROVE  Unpassed(g, k0, kg, y)
<1> SUFFICES ASSUME NEW i \in k0 + 1..kg PROVE Past(g.sgmask[i], g.sghash[i], y)
  BY DEF Unpassed
<1>1. PICK m, h : m = g.sgmask[i] /\ h = g.sghash[i]
  OBVIOUS
<1>2. m \in Nat /\ h \in Nat
  BY <1>1, ThereIs
<1>3. PICK j \in k0..i - 1 : m + 1 = Slots[j]
  BY <1>1 DEF Notes
<1>4. j \in 0..Top /\ kg \in 0..Top /\ j <= kg /\ g.tmask + 1 = Slots[kg]
  <2>1. kg \in 0..Top /\ k0 \in 0..kg /\ g.tmask + 1 = Slots[kg] /\ i \in 1..kg
    BY ThereIs DEF Notes
  <2>2. Top \in Nat
    BY SlotsIs
  <2>3. j \in Int /\ k0 <= j /\ j <= i - 1
    BY <1>3, <2>1
  <2>4. QED
    BY <2>1, <2>2, <2>3
<1>5. (x % Slots[kg]) % Slots[j] = x % Slots[j] /\ (y % Slots[kg]) % Slots[j] = y % Slots[j]
  BY <1>4, SlotsRest
<1>6. x % (m + 1) = y % (m + 1)
  BY <1>3, <1>4, <1>5 DEF Was
<1>7. Past(m, h, x)
  BY <1>1 DEF Unpassed
<1>8. Past(m, h, y)
  BY <1>2, <1>6, <1>7 DEF Past
<1>9. QED
  BY <1>1, <1>8

\* What the generator saw of the slots, and what they are now.
LEMMA WasIs ==
  ASSUME NEW t, Shape(t), NEW g, NEW k0, NEW kg, Notes(g, k0, kg), g.tmask <= t.mask, NEW x \in Nat
  PROVE  /\ Was(g, x) = Hchain(t, x) % (g.tmask + 1)
         /\ Was(g, x) \in Nat /\ Hchain(t, x) \in Nat /\ Was(g, x) <= Hchain(t, x)
         /\ Hchain(t, x) <= g.tmask => Was(g, x) = Hchain(t, x)
<1>1. PICK k \in 0..Top : t.mask + 1 = Slots[k]
  BY DEF Shape, IsSize
<1>2. kg \in 0..Top /\ g.tmask + 1 = Slots[kg] /\ g.tmask \in Nat /\ t.mask \in Nat
  BY DEF Notes, Shape
<1>3. kg <= k
  <2>1. Slots[kg] <= Slots[k]
    BY <1>1, <1>2
  <2>2. Slots[k] \in Nat /\ Slots[kg] \in Nat
    BY <1>1, <1>2, SlotsIs
  <2>3. ~(Slots[k] < Slots[kg])
    BY <2>1, <2>2
  <2>4. ~(k < kg)
    BY <1>1, <1>2, <2>3, SlotsGrow
  <2>5. QED
    BY <1>1, <1>2, <2>4
<1>4. (x % Slots[k]) % Slots[kg] = x % Slots[kg]
  BY <1>1, <1>2, <1>3, SlotsRest
<1>5. PICK m, y : m = g.tmask + 1 /\ y = Hchain(t, x)
  OBVIOUS
<1>6. m \in Nat \ {0} /\ y \in Nat
  BY <1>2, <1>5, PlaceIs
<1>7. y % m = Was(g, x)
  BY <1>1, <1>2, <1>4, <1>5 DEF Was, Hchain
<1>8. y % m \in 0..m - 1 /\ y = (y \div m) * m + (y % m) /\ y \div m \in Nat
  BY <1>6, DivMod
<1>9. y % m <= y
  <2>1. (y \div m) * m \in Nat
    BY <1>6, <1>8
  <2>2. PICK a, b : a = (y \div m) * m /\ b = y % m
    OBVIOUS
  <2>3. QED
    BY <1>6, <1>8, <2>1, <2>2
<1>10. y < m => y % m = y
  <2> SUFFICES ASSUME y < m PROVE y % m = y
    OBVIOUS
  <2>1. y \in 0..m - 1 /\ y = 0 * m + y
    BY <1>6
  <2>2. QED
    BY <1>6, <2>1, DivModIs
<1>11. y <= g.tmask => y < m
  BY <1>2, <1>5, <1>6
<1>12. QED
  BY <1>5, <1>6, <1>7, <1>8, <1>9, <1>10, <1>11

LEMMA OnwardIs ==
  ASSUME NEW t, Shape(t), NEW g, NEW M, NEW Y, NEW p, NEW k0, NEW kg, Track(t, g, M, Y, p, k0, kg)
  PROVE  \E q : Onward(t, g, M, Y, q, k0, kg) /\ q[1] = Clink(t, g.ep)
<1>1. PICK n, l, e, r : n = Len(p) /\ l = p[n] /\ e = g.ep /\ r = Clink(t, e)
  OBVIOUS
<1>2. /\ Stands(t, g, k0, kg) /\ Path(t, p) /\ Lies(g, p) /\ p[1] = e
      /\ (\A b \in DOMAIN t.stale : \E i \in 1..n - 1 : p[i] = b)
      /\ Owes(t, g, M, k0, kg) /\ Follows(t, g, M, l, n > 1)
      /\ (\A i \in 2..n : p[i] # NULL => Y[p[i]] = 1)
      /\ Grants(t, g, Y, l, k0, kg)
  BY <1>1 DEF Track, Trails
<1>3. /\ p \in Seq(Block \cup {NULL}) /\ n \in Nat /\ n >= 1
      /\ \A i \in 1..n - 1 :
           p[i] \in Block /\ ~In(t, p[i]) /\ p[i] \in DOMAIN t.stale /\ t.stale[p[i]] = p[i + 1]
      /\ (\A i, j \in 1..n - 1 : i < j => p[i] # p[j])
      /\ (l # NULL => In(t, l))
  BY <1>1, <1>2 DEF Path
<1>4. /\ Notes(g, k0, kg) /\ g.tmask <= t.mask /\ e \in Block /\ e # NULL /\ Hash(e) \in Nat
      /\ Was(g, Hash(e)) = g.slot /\ Unpassed(g, k0, kg, Hash(e))
  <2>1. e \in Block
    BY <1>1, <1>2 DEF Stands
  <2>2. QED
    BY <1>1, <1>2, <2>1, HashIs DEF Stands
<1>5. CASE n > 1
  <2>1. PICK q : q = Tail(p)
    OBVIOUS
  <2>2. p # <<>>
    BY <1>1, <1>5
  <2>3. q \in Seq(Block \cup {NULL}) /\ Len(q) = n - 1 /\ \A i \in 1..n - 1 : q[i] = p[i + 1]
    BY <1>1, <1>3, <2>1, <2>2
  <2>4. /\ 1 \in 1..n - 1 /\ q[Len(q)] = l /\ Len(q) \in Nat /\ Len(q) >= 1
        /\ \A i \in 1..Len(q) : i + 1 \in 2..n /\ i + 1 \in 1..n /\ 1 \in 1..n /\ 1 < i + 1
    BY <1>1, <1>3, <1>5, <2>3
  <2>5. \A i \in 1..Len(q) - 1 : i \in 1..Len(q) /\ i + 1 \in 1..n - 1 /\ i + 1 \in 1..Len(q)
    BY <1>3, <2>3
  <2>6. Path(t, q)
    <3>1. \A i \in 1..Len(q) - 1 : q[i] = p[i + 1] /\ q[i + 1] = p[i + 1 + 1]
      BY <2>3, <2>5
    <3>2. \A i \in 1..Len(q) - 1 :
            q[i] \in Block /\ ~In(t, q[i]) /\ q[i] \in DOMAIN t.stale /\ t.stale[q[i]] = q[i + 1]
      BY <1>3, <2>5, <3>1
    <3>3. ASSUME NEW i \in 1..Len(q) - 1, NEW j \in 1..Len(q) - 1, i < j PROVE q[i] # q[j]
      <4>1. i + 1 \in 1..n - 1 /\ j + 1 \in 1..n - 1
        BY <2>5
      <4>2. i \in Int /\ j \in Int
        OBVIOUS
      <4>3. i + 1 < j + 1
        BY <3>3, <4>2
      <4>4. PICK a, c : a = i + 1 /\ c = j + 1
        OBVIOUS
      <4>5. p[a] # p[c]
        BY <1>3, <4>1, <4>3, <4>4
      <4>6. q[i] = p[a] /\ q[j] = p[c]
        BY <3>1, <4>4
      <4>7. QED
        BY <4>5, <4>6
    <3>4. QED
      BY <1>3, <2>3, <2>4, <3>2, <3>3 DEF Path
  <2>7. Lies(g, q) /\ \A i \in 1..Len(q) : q[i] # NULL => Hash(e) <= Hash(q[i])
    <3>1. \A i \in 1..Len(q) : q[i] = p[i + 1] /\ i + 1 \in 1..n /\ 1 \in 1..n /\ 1 < i + 1
      BY <2>3, <2>4
    <3>2. /\ \A i \in 1..n : p[i] # NULL => Was(g, Hash(p[i])) = g.slot
          /\ \A i, j \in 1..n : i < j /\ p[j] # NULL => Hash(p[i]) <= Hash(p[j])
      BY <1>1, <1>2 DEF Lies
    <3>3. ASSUME NEW i \in 1..Len(q), NEW j \in 1..Len(q), i < j, q[j] # NULL
          PROVE  Hash(q[i]) <= Hash(q[j])
      <4>1. i + 1 < j + 1
        BY <2>4, <3>3
      <4>2. QED
        BY <3>1, <3>2, <3>3, <4>1
    <3>4. QED
      BY <1>2, <3>1, <3>2, <3>3 DEF Lies
  <2>8. r = q[1]
    <3>1. e \in DOMAIN t.stale /\ t.stale[e] = p[1 + 1]
      BY <1>2, <1>3, <2>4
    <3>2. r = t.stale[e]
      BY <1>1, <3>1 DEF Clink
    <3>3. QED
      BY <2>3, <2>4, <3>1, <3>2
  <2>9. Follows(t, g, M, l, TRUE)
    BY <1>2 DEF Follows
  <2>10. \A i \in 1..Len(q) : q[i] # NULL => Y[q[i]] = 1
    BY <1>2, <2>3, <2>4
  <2>11. Onward(t, g, M, Y, q, k0, kg)
    BY <1>1, <1>2, <2>4, <2>6, <2>7, <2>9, <2>10 DEF Onward
  <2>12. QED
    BY <1>1, <2>8, <2>11
<1>6. CASE n = 1
  <2>1. l = e /\ In(t, e)
    BY <1>1, <1>2, <1>3, <1>4, <1>6
  <2>2. e \notin DOMAIN t.stale
    BY <1>2, <1>6
  <2>3. NextOf(t, e, r)
    BY <1>1, <2>1, <2>2, ClinkIs
  <2>4. PICK q : q = <<r>>
    OBVIOUS
  <2>5. /\ r # NULL => Before(t, e, r) /\ In(t, r) /\ r \in Block /\ Hash(r) \in Nat
                       /\ Hash(e) <= Hash(r) /\ Hchain(t, Hash(e)) = Hchain(t, Hash(r))
    BY <2>3, OrderIs, PlaceIs DEF NextOf
  <2>6. q \in Seq(Block \cup {NULL}) /\ Len(q) = 1 /\ q[1] = r
    BY <2>4, <2>5
  <2>7. 1..Len(q) - 1 = {} /\ 1..Len(q) = {1}
    BY <2>6
  <2>8. Path(t, q)
    BY <2>5, <2>6, <2>7 DEF Path
  <2>9. r # NULL => Was(g, Hash(r)) = g.slot
    <3>1. r # NULL => Was(g, Hash(r)) = Was(g, Hash(e))
      BY <1>4, <2>5, WasIs
    <3>2. QED
      BY <1>4, <3>1
  <2>10. Lies(g, q)
    BY <2>6, <2>7, <2>9 DEF Lies
  <2>11. Follows(t, g, M, r, TRUE)
    <3> SUFFICES ASSUME NEW b \in M, Was(g, Hash(b)) = g.slot, t.mask = g.tmask \/ Hash(b) = Hash(e)
                 PROVE  r # NULL /\ (b = r \/ Before(t, r, b))
      BY <1>1 DEF Follows
    <3>1. Before(t, e, b)
      BY <1>1, <1>2, <1>6, <2>1 DEF Follows
    <3>2. QED
      BY <2>3, <3>1 DEF NextOf
  <2>12. r # NULL => Y[r] = 1
    <3> SUFFICES ASSUME r # NULL PROVE Y[r] = 1
      OBVIOUS
    <3>1. Was(g, Hash(e)) = Was(g, Hash(r))
      BY <1>4, <2>9
    <3>2. Unpassed(g, k0, kg, Hash(r))
      BY <1>4, <2>5, <3>1, UnpassedUp
    <3>3. Hash(r) = Hash(e) \/ Past(g.tmask, Hash(e), Hash(r))
      BY <1>4, <2>5, <3>1 DEF Past, Was
    <3>4. QED
      BY <1>1, <1>2, <1>4, <2>1, <2>5, <3>2, <3>3 DEF Grants
  <2>13. Grants(t, g, Y, r, k0, kg)
    <3>1. r # NULL => \A b : Before(t, r, b) => Before(t, e, b)
      BY <2>5, OrderIs
    <3>2. QED
      BY <1>2, <1>4, <2>1, <3>1 DEF Grants
  <2>14. Onward(t, g, M, Y, q, k0, kg)
    BY <1>1, <1>2, <2>5, <2>6, <2>7, <2>8, <2>10, <2>11, <2>12, <2>13 DEF Onward
  <2>15. QED
    BY <1>1, <2>6, <2>14
<1>7. QED
  BY <1>3, <1>5, <1>6

\* The notes that are made when chains have been split.
LEMMA NotedIs ==
  ASSUME NEW t, Shape(t), NEW g, NEW k0, NEW kg, Stands(t, g, k0, kg), t.mask # g.tmask,
         NEW r, r = Noted(t, g)
  PROVE  /\ IsGen(r) /\ r.ep = g.ep /\ r.slot = g.slot /\ r.tmask = t.mask
         /\ \E kt : /\ Notes(r, k0, kt)
                    /\ \A x : Unpassed(r, k0, kt, x) <=>
                         Unpassed(g, k0, kg, x) /\ Past(g.tmask, Hash(g.ep), x)
<1>0. PICK o, u, a, w, x, m, h :
        /\ o = g.ep /\ u = g.slot /\ a = g.tmask /\ w = g.sgmask /\ x = g.sghash /\ m = t.mask
        /\ h = Hash(o)
  OBVIOUS
<1>a. PICK v : v = [i \in 1..Top |-> IF Slots[i - 1] > a THEN a ELSE w[i]]
  OBVIOUS
<1>b. PICK y : y = [i \in 1..Top |-> IF Slots[i - 1] > a THEN h ELSE x[i]]
  OBVIOUS
<1>1. /\ o = g.ep /\ u = g.slot /\ a = g.tmask /\ w = g.sgmask /\ x = g.sghash /\ m = t.mask
      /\ h = Hash(o)
      /\ v = [i \in 1..Top |-> IF Slots[i - 1] > a THEN a ELSE w[i]]
      /\ y = [i \in 1..Top |-> IF Slots[i - 1] > a THEN h ELSE x[i]]
  BY <1>0, <1>a, <1>b
<1>2. g = [ep |-> o, slot |-> u, tmask |-> a, sgmask |-> w, sghash |-> x]
  BY <1>1 DEF Stands, IsGen
<1>3. r = [ep |-> o, slot |-> u, tmask |-> m, sgmask |-> v, sghash |-> y]
  <2>1. r = [g EXCEPT !.tmask = m, !.sgmask = v, !.sghash = y]
    BY <1>1, <1>2 DEF Noted, Top
  <2>2. QED
    BY <1>2, <2>1
<1>4. IsGen(r) /\ r.ep = o /\ r.slot = u /\ r.tmask = m /\ r.sgmask = v /\ r.sghash = y
  BY <1>3 DEF IsGen
<1>5. /\ kg \in 0..Top /\ k0 \in 0..kg /\ a + 1 = Slots[kg] /\ a \in Nat /\ u \in 0..a
      /\ w \in [1..Top -> Nat] /\ x \in [1..Top -> Nat]
      /\ (\A i \in 1..kg : w[i] # 0 <=> i > k0)
      /\ \A i \in k0 + 1..kg :
           /\ x[i] % (w[i] + 1) <= u
           /\ \E j \in k0..i - 1 :
                w[i] + 1 = Slots[j] /\ \A l \in j + 1..i : w[l] = w[i] /\ x[l] = x[i]
  BY <1>1 DEF Stands, Notes
<1>6. o \in Block /\ h \in Nat /\ h % (a + 1) = u /\ a <= m /\ a # m /\ m \in Nat
  <2>1. o \in Block
    BY <1>1 DEF Stands
  <2>2. QED
    BY <1>1, <2>1, HashIs DEF Stands, Was, Shape
<1>7. PICK kt \in 0..Top : m + 1 = Slots[kt]
  BY <1>1 DEF Shape, IsSize
<1>8. Top \in Nat /\ Slots[kg] >= 2 /\ kg < kt
  <2>1. Slots[kg] < Slots[kt]
    BY <1>5, <1>6, <1>7
  <2>2. QED
    BY <1>5, <1>7, <2>1, SlotsIs, SlotsGrow
<1>9. \A i \in 1..Top : Slots[i - 1] > a <=> i > kg
  <2> SUFFICES ASSUME NEW i \in 1..Top PROVE Slots[i - 1] > a <=> i > kg
    OBVIOUS
  <2>1. i - 1 \in 0..Top /\ i - 1 \in Int /\ kg \in Int
    BY <1>5, <1>8
  <2>2. Slots[i - 1] \in Nat /\ Slots[kg] \in Nat
    BY <1>5, <2>1, SlotsIs
  <2>3. i - 1 < kg <=> Slots[i - 1] < Slots[kg]
    BY <1>5, <2>1, SlotsGrow
  <2>4. Slots[i - 1] > a <=> ~(Slots[i - 1] < Slots[kg])
    BY <1>5, <2>2
  <2>5. i > kg <=> ~(i - 1 < kg)
    BY <2>1
  <2>6. QED
    BY <2>3, <2>4, <2>5
<1>10. /\ \A i \in 1..kg : v[i] = w[i] /\ y[i] = x[i] /\ i \in 1..kt
       /\ \A i \in kg + 1..kt : v[i] = a /\ y[i] = h /\ i \in 1..kt
  <2>1. \A i \in 1..Top : /\ v[i] = IF i > kg THEN a ELSE w[i]
                          /\ y[i] = IF i > kg THEN h ELSE x[i]
    BY <1>1, <1>9
  <2>2. /\ \A i \in 1..kg : i \in 1..Top /\ ~(i > kg) /\ i \in 1..kt
        /\ \A i \in kg + 1..kt : i \in 1..Top /\ i > kg /\ i \in 1..kt
    BY <1>5, <1>7, <1>8
  <2>3. QED
    BY <2>1, <2>2
<1>11. v \in [1..Top -> Nat] /\ y \in [1..Top -> Nat]
  <2>1. \A i \in 1..Top : w[i] \in Nat /\ x[i] \in Nat
    BY <1>5
  <2>2. QED
    BY <1>1, <1>5, <1>6, <2>1
<1>12. \A i \in 1..kt : i \in 1..kg \/ i \in kg + 1..kt
  BY <1>5, <1>7
<1>13. Notes(r, k0, kt)
  <2>1. k0 \in 0..kt /\ u \in 0..m
    BY <1>5, <1>6, <1>7, <1>8
  <2>2. ASSUME NEW i \in 1..kt PROVE v[i] # 0 <=> i > k0
    <3>1. CASE i \in 1..kg
      BY <1>5, <1>10, <3>1
    <3>2. CASE i \in kg + 1..kt
      <4>1. a # 0 /\ i > k0
        <5>1. kg \in 0..Top /\ k0 \in 0..kg /\ a + 1 = Slots[kg] /\ a \in Nat
          BY <1>5
        <5>2. Top \in Nat /\ Slots[kg] >= 2
          BY <1>8
        <5>3. i > k0
          BY <3>2, <5>1, <5>2
        <5>4. QED
          BY <5>1, <5>2, <5>3
      <4>2. QED
        BY <1>10, <3>2, <4>1
    <3>3. QED
      BY <1>12, <3>1, <3>2
  <2>3. ASSUME NEW i \in k0 + 1..kt
        PROVE  /\ y[i] % (v[i] + 1) <= u
               /\ \E j \in k0..i - 1 :
                    v[i] + 1 = Slots[j] /\ \A l \in j + 1..i : v[l] = v[i] /\ y[l] = y[i]
    <3>1. i \in 1..kt /\ k0 \in Nat
      BY <1>5, <1>7
    <3>2. CASE i \in 1..kg
      <4>1. i \in k0 + 1..kg
        BY <3>1, <3>2
      <4>2. v[i] = w[i] /\ y[i] = x[i]
        BY <1>10, <3>2
      <4>3. x[i] % (w[i] + 1) <= u
        BY <1>5, <4>1
      <4>4. PICK j \in k0..i - 1 :
              w[i] + 1 = Slots[j] /\ \A l \in j + 1..i : w[l] = w[i] /\ x[l] = x[i]
        BY <1>5, <4>1
      <4>5. \A l \in j + 1..i : l \in 1..kg
        BY <1>5, <3>1, <3>2, <4>4
      <4>6. \A l \in j + 1..i : v[l] = v[i] /\ y[l] = y[i]
        BY <1>10, <4>2, <4>4, <4>5
      <4>7. QED
        BY <4>2, <4>3, <4>4, <4>6
    <3>3. CASE i \in kg + 1..kt
      <4>1. v[i] = a /\ y[i] = h
        BY <1>10, <3>3
      <4>2. h % (a + 1) <= u
        BY <1>5, <1>6
      <4>3. kg \in k0..i - 1
        BY <1>5, <3>3
      <4>4. \A l \in kg + 1..i : l \in kg + 1..kt
        BY <1>5, <1>7, <3>3
      <4>5. \A l \in kg + 1..i : v[l] = v[i] /\ y[l] = y[i]
        BY <1>10, <4>1, <4>4
      <4>6. QED
        BY <1>5, <4>1, <4>2, <4>3, <4>5
    <3>4. QED
      BY <1>12, <3>1, <3>2, <3>3
  <2>4. QED
    BY <1>4, <1>6, <1>7, <1>11, <2>1, <2>2, <2>3 DEF Notes
<1>14. ASSUME NEW z PROVE Unpassed(r, k0, kt, z) <=> Unpassed(g, k0, kg, z) /\ Past(a, h, z)
  <2>1. k0 \in Nat /\ kg \in Nat /\ kt \in Nat /\ k0 <= kg /\ kg < kt
    BY <1>5, <1>7, <1>8
  <2>2. /\ \A i \in k0 + 1..kg : i \in k0 + 1..kt /\ i \in 1..kg
        /\ kg + 1 \in k0 + 1..kt /\ kg + 1 \in kg + 1..kt
        /\ \A i \in k0 + 1..kt : i \in k0 + 1..kg \/ i \in kg + 1..kt
    BY <2>1
  <2>3. Unpassed(r, k0, kt, z) <=> \A i \in k0 + 1..kt : Past(v[i], y[i], z)
    BY <1>4 DEF Unpassed
  <2>4. Unpassed(g, k0, kg, z) <=> \A i \in k0 + 1..kg : Past(w[i], x[i], z)
    BY <1>1 DEF Unpassed
  <2>5. ASSUME \A i \in k0 + 1..kt : Past(v[i], y[i], z)
        PROVE  (\A i \in k0 + 1..kg : Past(w[i], x[i], z)) /\ Past(a, h, z)
    <3>1. v[kg + 1] = a /\ y[kg + 1] = h
      BY <1>10, <2>2
    <3>2. Past(a, h, z)
      BY <2>2, <2>5, <3>1
    <3>3. \A i \in k0 + 1..kg : Past(w[i], x[i], z)
      BY <1>10, <2>2, <2>5
    <3>4. QED
      BY <3>2, <3>3
  <2>6. ASSUME \A i \in k0 + 1..kg : Past(w[i], x[i], z), Past(a, h, z)
        PROVE  \A i \in k0 + 1..kt : Past(v[i], y[i], z)
    BY <1>10, <2>2, <2>6
  <2>7. QED
    BY <2>3, <2>4, <2>5, <2>6
<1>15. QED
  BY <1>1, <1>4, <1>13, <1>14

\* hgnext comes to r, which is what is ahead, or to the end, when nothing is left.
GoesOn(t, r, M, Y) ==
  \/ r = Idle /\ M = {}
  \/ r # Idle /\ \E q, k1, k2 : Ahead(t, r, M, Y, q, k1, k2)

LEMMA RestGoesOn ==
  ASSUME NEW t, Shape(t), NEW g, NEW M, NEW Y, NEW k0, NEW kg, Rest(t, g, M, Y, k0, kg)
  PROVE  GoesOn(t, NextSlot(t, g), M, Y)
<1>1. PICK r : r = NextSlot(t, g)
  OBVIOUS
<1>2. \/ r = Idle /\ M = {}
      \/ r # Idle /\ Ahead(t, r, M, Y, <<r.ep>>, k0, kg)
  BY <1>1, NextSlotIs
<1>3. QED
  BY <1>1, <1>2 DEF GoesOn

\* The chain is followed ...
LEMMA FollowedIs ==
  ASSUME NEW t, Shape(t), NEW g, NEW M, NEW Y, NEW q, NEW k0, NEW kg, Onward(t, g, M, Y, q, k0, kg),
         q[1] # NULL, t.mask = g.tmask \/ Hash(q[1]) = Hash(g.ep),
         NEW r, r = [g EXCEPT !.ep = q[1]]
  PROVE  Ahead(t, r, M, Y, q, k0, kg) /\ r # Idle
<1>1. PICK n, l, e, o : n = Len(q) /\ l = q[n] /\ e = q[1] /\ o = g.ep
  OBVIOUS
<1>2. /\ Stands(t, g, k0, kg) /\ Path(t, q) /\ Lies(g, q)
      /\ (\A i \in 1..n : q[i] # NULL => Hash(o) <= Hash(q[i]))
      /\ Owes(t, g, M, k0, kg) /\ Follows(t, g, M, l, TRUE)
      /\ (\A i \in 1..n : q[i] # NULL => Y[q[i]] = 1)
      /\ Grants(t, g, Y, l, k0, kg)
  BY <1>1 DEF Onward
<1>3. n \in Nat /\ n >= 1 /\ 1 \in 1..n /\ n \in 1..n /\ q \in Seq(Block \cup {NULL}) /\ (l # NULL => In(t, l))
  BY <1>1, <1>2 DEF Path
<1>4. e \in Block /\ Hash(e) \in Nat /\ Was(g, Hash(e)) = g.slot /\ Hash(o) <= Hash(e)
  <2>1. e \in Block
    BY <1>1, <1>3
  <2>2. QED
    BY <1>1, <1>2, <1>3, <2>1, HashIs DEF Lies
<1>5. /\ Notes(g, k0, kg) /\ g.tmask <= t.mask /\ o \in Block /\ Hash(o) \in Nat
      /\ Was(g, Hash(o)) = g.slot /\ Unpassed(g, k0, kg, Hash(o)) /\ g.slot \in Nat
  <2>1. o \in Block
    BY <1>1, <1>2 DEF Stands
  <2>2. QED
    BY <1>1, <1>2, <2>1, HashIs DEF Stands, Notes
<1>6. r = [ep |-> e, slot |-> g.slot, tmask |-> g.tmask, sgmask |-> g.sgmask, sghash |-> g.sghash]
  <2>1. PICK u, a, w, x : u = g.slot /\ a = g.tmask /\ w = g.sgmask /\ x = g.sghash
    OBVIOUS
  <2>2. g = [ep |-> o, slot |-> u, tmask |-> a, sgmask |-> w, sghash |-> x]
    BY <1>1, <1>2, <2>1 DEF Stands, IsGen
  <2>3. r = [ep |-> e, slot |-> u, tmask |-> a, sgmask |-> w, sghash |-> x]
    BY <1>1, <2>2
  <2>4. QED
    BY <2>1, <2>3
<1>7. /\ r.ep = e /\ r.slot = g.slot /\ r.tmask = g.tmask /\ r.sgmask = g.sgmask
      /\ r.sghash = g.sghash
  BY <1>6
<1>8. IsGen(r)
  BY <1>6, <1>7 DEF IsGen
<1>9. Notes(r, k0, kg) /\ \A x : Unpassed(r, k0, kg, x) <=> Unpassed(g, k0, kg, x)
  <2>1. r.slot \in 0..g.tmask /\ g.slot <= r.slot
    BY <1>5, <1>7 DEF Notes
  <2>2. QED
    BY <1>5, <1>7, <2>1, NotesSame
<1>10. \A x : Was(r, x) = Was(g, x)
  BY <1>7 DEF Was
<1>11. Stands(t, r, k0, kg)
  <2>1. Unpassed(g, k0, kg, Hash(e))
    BY <1>4, <1>5, UnpassedUp
  <2>2. QED
    BY <1>4, <1>5, <1>7, <1>8, <1>9, <1>10, <2>1 DEF Stands
<1>12. Lies(r, q)
  BY <1>2, <1>7, <1>10 DEF Lies
<1>13. l # NULL => /\ l \in Block /\ Hash(l) \in Nat /\ Hash(e) <= Hash(l)
                   /\ \A b : Before(t, l, b) => Hash(b) \in Nat /\ Hash(l) <= Hash(b)
  <2> SUFFICES ASSUME l # NULL
               PROVE  /\ l \in Block /\ Hash(l) \in Nat /\ Hash(e) <= Hash(l)
                      /\ \A b : Before(t, l, b) => Hash(b) \in Nat /\ Hash(l) <= Hash(b)
    OBVIOUS
  <2>1. l \in Block /\ Hash(l) \in Nat
    BY <1>3, PlaceIs
  <2>2. \A b : Before(t, l, b) => Hash(b) \in Nat /\ Hash(l) <= Hash(b)
    BY OrderIs, PlaceIs
  <2>3. Hash(e) <= Hash(l)
    <3>1. CASE n = 1
      BY <1>1, <1>4, <3>1
    <3>2. CASE n # 1
      <4>1. 1 < n
        BY <1>3, <3>2
      <4>2. QED
        BY <1>1, <1>2, <1>3, <4>1 DEF Lies
    <3>3. QED
      BY <3>1, <3>2
  <2>4. QED
    BY <2>1, <2>2, <2>3
<1>14. \A b \in M : Hash(b) \in Nat /\ Was(g, Hash(b)) \in Int
  <2> SUFFICES ASSUME NEW b \in M PROVE Hash(b) \in Nat /\ Was(g, Hash(b)) \in Int
    OBVIOUS
  <2>1. Hash(b) \in Nat
    BY <1>2, PlaceIs DEF Owes
  <2>2. QED
    BY <1>5, <2>1, WasIs
<1>15. Follows(t, r, M, l, TRUE)
  <2> SUFFICES ASSUME NEW b \in M, Was(g, Hash(b)) = g.slot, t.mask = g.tmask \/ Hash(b) = Hash(e)
               PROVE  l # NULL /\ (b = l \/ Before(t, l, b))
    BY <1>7, <1>10 DEF Follows
  <2>1. t.mask = g.tmask \/ Hash(b) = Hash(o)
    BY <1>1
  <2>2. QED
    BY <1>1, <1>2, <2>1 DEF Follows
<1>16. Owes(t, r, M, k0, kg)
  <2> SUFFICES ASSUME NEW b \in M
               PROVE  /\ In(t, b) /\ Unpassed(g, k0, kg, Hash(b))
                      /\ \/ Was(g, Hash(b)) > g.slot
                         \/ Was(g, Hash(b)) = g.slot /\ Hash(b) >= Hash(e)
    BY <1>7, <1>9, <1>10 DEF Owes
  <2>1. /\ In(t, b) /\ Unpassed(g, k0, kg, Hash(b))
        /\ \/ Was(g, Hash(b)) > g.slot
           \/ Was(g, Hash(b)) = g.slot /\ Hash(b) >= Hash(o)
    BY <1>1, <1>2 DEF Owes
  <2>2. ASSUME Was(g, Hash(b)) = g.slot, Hash(b) >= Hash(o) PROVE Hash(b) >= Hash(e)
    <3>1. CASE Hash(e) = Hash(o)
      BY <2>2, <3>1
    <3>2. CASE t.mask = g.tmask
      <4>1. l # NULL /\ (b = l \/ Before(t, l, b))
        BY <1>1, <1>2, <2>2, <3>2 DEF Follows
      <4>2. Hash(b) \in Nat /\ Hash(l) \in Nat /\ Hash(e) <= Hash(l) /\ Hash(l) <= Hash(b)
        BY <1>13, <1>14, <4>1
      <4>3. QED
        BY <1>4, <4>2
    <3>3. QED
      BY <1>1, <3>1, <3>2
  <2>3. QED
    BY <2>1, <2>2
<1>17. Grants(t, r, Y, l, k0, kg)
  <2> SUFFICES ASSUME NEW b, In(t, b), Unpassed(g, k0, kg, Hash(b)),
                      \/ Past(g.tmask, Hash(e), Hash(b))
                      \/ l # NULL /\ Before(t, l, b) /\ Hash(b) = Hash(e)
               PROVE  Y[b] = 1
    BY <1>7, <1>9 DEF Grants
  <2>1. Hash(b) \in Nat
    BY PlaceIs
  <2>2. Past(g.tmask, Hash(o), Hash(b)) \/ (l # NULL /\ Before(t, l, b) /\ Hash(b) = Hash(o))
    <3>1. CASE Past(g.tmask, Hash(e), Hash(b))
      BY <1>4, <1>5, <2>1, <3>1 DEF Past, Was
    <3>2. CASE l # NULL /\ Before(t, l, b) /\ Hash(b) = Hash(e)
      <4>1. Was(g, Hash(b)) = Was(g, Hash(o))
        BY <1>4, <1>5, <3>2
      <4>2. Hash(b) = Hash(o) \/ Hash(b) > Hash(o)
        BY <1>4, <1>5, <3>2
      <4>3. QED
        BY <3>2, <4>1, <4>2 DEF Past, Was
    <3>3. QED
      BY <3>1, <3>2
  <2>3. QED
    BY <1>1, <1>2, <2>2 DEF Grants
<1>18. r # Idle
  BY <1>1, <1>7, IdleIs
<1>19. QED
  BY <1>1, <1>2, <1>7, <1>11, <1>12, <1>15, <1>16, <1>17, <1>18 DEF Ahead

\* ... or it has been split: what is left of it is entered again, and the
\* generator goes on in other slots if there is nothing.
LEMMA SplitIs ==
  ASSUME NEW t, Shape(t), NEW g, NEW M, NEW Y, NEW q, NEW k0, NEW kg, Onward(t, g, M, Y, q, k0, kg),
         t.mask # g.tmask, q[1] = NULL \/ Hash(q[1]) # Hash(g.ep),
         NEW e, e = FirstAbove(t.chains[g.slot], Hash(g.ep)),
         NEW r, r = Noted(t, g)
  PROVE  /\ e # NULL => GoesOn(t, [r EXCEPT !.ep = e], M, Y)
         /\ e = NULL => GoesOn(t, NextSlot(t, r), M, Y)
<1>1. PICK n, l, o, c, s, h : /\ n = Len(q) /\ l = q[n] /\ o = g.ep /\ s = g.slot /\ c = t.chains[s]
                              /\ h = Hash(o)
  OBVIOUS
<1>2. /\ Stands(t, g, k0, kg) /\ Path(t, q) /\ Lies(g, q)
      /\ (\A i \in 1..n : q[i] # NULL => h <= Hash(q[i]))
      /\ Owes(t, g, M, k0, kg) /\ Follows(t, g, M, l, TRUE)
      /\ Grants(t, g, Y, l, k0, kg)
  BY <1>1 DEF Onward
<1>3. n \in Nat /\ n >= 1 /\ 1 \in 1..n /\ n \in 1..n /\ q \in Seq(Block \cup {NULL}) /\ (l # NULL => In(t, l))
      /\ \A i \in 1..n - 1 : q[i] \in Block
  BY <1>1, <1>2 DEF Path
<1>4. /\ Notes(g, k0, kg) /\ g.tmask <= t.mask /\ o \in Block /\ h \in Nat
      /\ Was(g, h) = s /\ Unpassed(g, k0, kg, h) /\ s \in Nat /\ s <= g.tmask /\ g.tmask \in Nat
      /\ t.mask \in Nat
  <2>1. o \in Block
    BY <1>1, <1>2 DEF Stands
  <2>2. QED
    BY <1>1, <1>2, <2>1, HashIs DEF Stands, Notes, Shape
<1>5. /\ IsGen(r) /\ r.ep = o /\ r.slot = s /\ r.tmask = t.mask
      /\ \E kt : /\ Notes(r, k0, kt)
                 /\ \A x : Unpassed(r, k0, kt, x) <=>
                      Unpassed(g, k0, kg, x) /\ Past(g.tmask, h, x)
  BY <1>1, <1>2, NotedIs
<1>6. PICK kt : /\ Notes(r, k0, kt)
                /\ \A x : Unpassed(r, k0, kt, x) <=> Unpassed(g, k0, kg, x) /\ Past(g.tmask, h, x)
  BY <1>5
<1>7. \A b : In(t, b) => /\ b \in Block /\ Hash(b) \in Nat /\ Was(g, Hash(b)) \in Nat
                         /\ Hchain(t, Hash(b)) \in Nat
                         /\ Was(g, Hash(b)) <= Hchain(t, Hash(b))
                         /\ Hchain(t, Hash(b)) <= g.tmask => Was(g, Hash(b)) = Hchain(t, Hash(b))
                         /\ Within(t.chains[Hchain(t, Hash(b))], b)
  BY <1>4, PlaceIs, WasIs
\* All of M is past ep: nothing of the same hash number is left.
<1>8. \A b \in M : In(t, b) /\ Unpassed(r, k0, kt, Hash(b))
  <2> SUFFICES ASSUME NEW b \in M PROVE In(t, b) /\ Unpassed(r, k0, kt, Hash(b))
    OBVIOUS
  <2>1. /\ In(t, b) /\ Unpassed(g, k0, kg, Hash(b))
        /\ Was(g, Hash(b)) > s \/ (Was(g, Hash(b)) = s /\ Hash(b) >= h)
    BY <1>1, <1>2 DEF Owes
  <2>2. Hash(b) \in Nat
    BY <1>7, <2>1
  <2>3. ASSUME Was(g, Hash(b)) = s, Hash(b) = h PROVE FALSE
    <3>1. l # NULL /\ (b = l \/ Before(t, l, b))
      BY <1>1, <1>2, <2>3 DEF Follows
    <3>2. Hash(l) \in Nat /\ Hash(l) <= h
      BY <1>3, <1>7, <2>2, <2>3, <3>1, OrderIs
    <3>3. CASE n = 1
      <4>1. l = q[1] /\ h <= Hash(l) /\ Hash(l) # h
        BY <1>1, <1>2, <1>3, <3>1, <3>3
      <4>2. QED
        BY <1>4, <3>2, <4>1
    <3>4. CASE n # 1
      <4>1. 1 < n /\ 1 \in 1..n - 1
        BY <1>3, <3>4
      <4>2. q[1] \in Block
        BY <1>3, <4>1
      <4>3. Hash(q[1]) \in Nat /\ q[1] # NULL
        BY <4>2, HashIs
      <4>4. Hash(q[1]) <= Hash(l) /\ h <= Hash(q[1]) /\ Hash(q[1]) # h
        BY <1>1, <1>2, <1>3, <3>1, <4>1, <4>3 DEF Lies
      <4>5. QED
        BY <1>4, <3>2, <4>3, <4>4
    <3>5. QED
      BY <3>3, <3>4
  <2>4. Was(g, Hash(b)) > s \/ (Was(g, Hash(b)) = s /\ Hash(b) > h)
    BY <1>4, <2>1, <2>2, <2>3
  <2>5. Past(g.tmask, h, Hash(b))
    BY <1>4, <2>4 DEF Past, Was
  <2>6. QED
    BY <1>6, <2>1, <2>5
<1>9. \A b : In(t, b) /\ Unpassed(r, k0, kt, Hash(b)) => Y[b] = 1
  BY <1>1, <1>2, <1>6 DEF Grants
<1>10. ASSUME NEW b, In(t, b), Unpassed(r, k0, kt, Hash(b))
       PROVE  Hchain(t, Hash(b)) > s \/ (Within(c, b) /\ Hash(b) > h)
  <2>1. Was(g, Hash(b)) > s \/ (Was(g, Hash(b)) = s /\ Hash(b) > h)
    BY <1>4, <1>6, <1>10 DEF Past, Was
  <2>2. /\ Was(g, Hash(b)) \in Nat /\ Hchain(t, Hash(b)) \in Nat
        /\ Was(g, Hash(b)) <= Hchain(t, Hash(b))
        /\ Hchain(t, Hash(b)) <= g.tmask => Was(g, Hash(b)) = Hchain(t, Hash(b))
        /\ Within(t.chains[Hchain(t, Hash(b))], b)
    BY <1>7, <1>10
  <2>3. CASE Hchain(t, Hash(b)) = s
    BY <1>1, <1>4, <2>1, <2>2, <2>3
  <2>4. CASE Hchain(t, Hash(b)) # s
    BY <1>4, <2>1, <2>2, <2>4
  <2>5. QED
    BY <2>3, <2>4
<1>11. s \in 0..t.mask /\ ChainOK(c) /\ FirstPast(c, h, e)
  <2>1. s \in 0..t.mask
    BY <1>4
  <2>2. ChainOK(c)
    BY <1>1, <2>1 DEF Shape
  <2>3. QED
    BY <1>1, <1>4, <2>1, <2>2, FirstAboveIs
<1>12. CASE e = NULL
  <2>1. \A x : Within(c, x) => Hash(x) <= h
    BY <1>11, <1>12 DEF FirstPast
  <2>2. \A b \in M : Hchain(t, Hash(b)) > r.slot
    <3> SUFFICES ASSUME NEW b \in M PROVE Hchain(t, Hash(b)) > s
      BY <1>5
    <3>1. In(t, b) /\ Unpassed(r, k0, kt, Hash(b)) /\ Hash(b) \in Nat
      BY <1>7, <1>8
    <3>2. Within(c, b) => ~(Hash(b) > h)
      BY <1>4, <2>1, <3>1
    <3>3. QED
      BY <1>10, <3>1, <3>2
  <2>3. Rest(t, r, M, Y, k0, kt)
    BY <1>5, <1>6, <1>8, <1>9, <2>2 DEF Rest
  <2>4. QED
    BY <1>12, <2>3, RestGoesOn
<1>13. CASE e # NULL
  <2>1. Within(c, e) /\ Hash(e) > h /\ \A x : Within(c, x) /\ Hash(x) > h /\ x # e => Comes(c, e, x)
    BY <1>11, <1>13 DEF FirstPast
  <2>2. In(t, e) /\ Hchain(t, Hash(e)) = s /\ e \in Block /\ Hash(e) \in Nat
    <3>1. Within(t.chains[s], e)
      BY <1>1, <2>1
    <3>2. In(t, e) /\ Hchain(t, Hash(e)) = s
      BY <1>1, <1>11, <3>1, PlaceIs
    <3>3. QED
      BY <1>1, <3>2, PlaceIs
  <2>3. Was(g, Hash(e)) = s
    BY <1>4, <1>7, <2>2
  <2>4. Unpassed(r, k0, kt, Hash(e))
    <3>1. Was(g, h) = Was(g, Hash(e)) /\ h <= Hash(e)
      BY <1>4, <2>1, <2>2, <2>3
    <3>2. Unpassed(g, k0, kg, Hash(e))
      BY <1>4, <2>2, <3>1, UnpassedUp
    <3>3. Past(g.tmask, h, Hash(e))
      BY <2>1, <3>1 DEF Past, Was
    <3>4. QED
      BY <1>6, <3>2, <3>3
  <2>5. PICK d : d = [r EXCEPT !.ep = e]
    OBVIOUS
  <2>6. d = [ep |-> e, slot |-> s, tmask |-> t.mask, sgmask |-> r.sgmask, sghash |-> r.sghash]
    <3>1. PICK a, w, x : a = t.mask /\ w = r.sgmask /\ x = r.sghash
      OBVIOUS
    <3>2. r = [ep |-> o, slot |-> s, tmask |-> a, sgmask |-> w, sghash |-> x]
      BY <1>5, <3>1 DEF IsGen
    <3>3. d = [ep |-> e, slot |-> s, tmask |-> a, sgmask |-> w, sghash |-> x]
      BY <2>5, <3>2
    <3>4. QED
      BY <3>1, <3>3
  <2>7. /\ d.ep = e /\ d.slot = s /\ d.tmask = t.mask /\ d.sgmask = r.sgmask /\ d.sghash = r.sghash
    BY <2>6
  <2>8. IsGen(d)
    BY <2>6, <2>7 DEF IsGen
  <2>9. Notes(d, k0, kt) /\ \A x : Unpassed(d, k0, kt, x) <=> Unpassed(r, k0, kt, x)
    <3>1. d.slot \in 0..r.tmask /\ r.slot <= d.slot /\ d.tmask = r.tmask
      BY <1>4, <1>5, <2>7
    <3>2. QED
      BY <1>6, <2>7, <3>1, NotesSame
  <2>10. \A b \in M : In(t, b) /\ Unpassed(d, k0, kt, Hash(b))
    BY <1>8, <2>9
  <2>11. \A b \in M : Hchain(t, Hash(b)) > d.slot \/ b = d.ep \/ Before(t, d.ep, b)
    <3> SUFFICES ASSUME NEW b \in M PROVE Hchain(t, Hash(b)) > s \/ b = e \/ Before(t, e, b)
      BY <2>7
    <3>1. Hchain(t, Hash(b)) > s \/ (Within(c, b) /\ Hash(b) > h)
      BY <1>8, <1>10
    <3>2. Comes(c, e, b) => Before(t, e, b)
      BY <1>1, <1>11 DEF Before
    <3>3. QED
      BY <2>1, <3>1, <3>2
  <2>12. /\ d.tmask = t.mask /\ In(t, d.ep) /\ Hchain(t, Hash(d.ep)) = d.slot
         /\ Unpassed(d, k0, kt, Hash(d.ep)) /\ Y[d.ep] = 1
    BY <1>9, <2>2, <2>4, <2>7, <2>9
  <2>13. \A b : /\ In(t, b) /\ Unpassed(d, k0, kt, Hash(b))
                /\ Hchain(t, Hash(b)) > d.slot \/ Before(t, d.ep, b)
                => Y[b] = 1
    BY <1>9, <2>9
  <2>14. Ahead(t, d, M, Y, <<d.ep>>, k0, kt)
    BY <2>8, <2>9, <2>10, <2>11, <2>12, <2>13, LandedIs
  <2>15. d # Idle
    BY <1>13, <2>7, IdleIs
  <2>16. GoesOn(t, d, M, Y)
    BY <2>14, <2>15 DEF GoesOn
  <2>17. QED
    BY <1>13, <2>5, <2>16
<1>14. QED
  BY <1>12, <1>13

LEMMA HgnextIs ==
  ASSUME NEW t, Shape(t), NEW g, NEW M, NEW Y, NEW p, NEW k0, NEW kg, Track(t, g, M, Y, p, k0, kg)
  PROVE  GoesOn(t, Hgnext(t, g), M, Y)
<1>1. PICK q : Onward(t, g, M, Y, q, k0, kg) /\ q[1] = Clink(t, g.ep)
  BY OnwardIs
<1>2. PICK e, o : e = q[1] /\ o = g.ep
  OBVIOUS
<1>3. SplitSeen(t, g) <=> t.mask # g.tmask /\ (e = NULL \/ Hash(e) # Hash(o))
  BY <1>1, <1>2 DEF SplitSeen
<1>4. CASE SplitSeen(t, g)
  <2>1. PICK r, f : r = Noted(t, g) /\ f = FirstAbove(t.chains[g.slot], Hash(g.ep))
    OBVIOUS
  <2>2. /\ f # NULL => GoesOn(t, [r EXCEPT !.ep = f], M, Y)
        /\ f = NULL => GoesOn(t, NextSlot(t, r), M, Y)
    BY <1>1, <1>2, <1>3, <1>4, <2>1, SplitIs
  <2>3. Hgnext(t, g) = IF f # NULL THEN [r EXCEPT !.ep = f] ELSE NextSlot(t, r)
    BY <1>4, <2>1 DEF Hgnext
  <2>4. QED
    BY <2>2, <2>3
<1>5. CASE ~SplitSeen(t, g)
  <2>1. Hgnext(t, g) = IF e # NULL THEN [g EXCEPT !.ep = e] ELSE NextSlot(t, g)
    BY <1>1, <1>2, <1>5 DEF Hgnext
  <2>2. CASE e # NULL
    <3>1. PICK r : r = [g EXCEPT !.ep = e]
      OBVIOUS
    <3>2. q[1] # NULL /\ (t.mask = g.tmask \/ Hash(q[1]) = Hash(g.ep)) /\ r = [g EXCEPT !.ep = q[1]]
      BY <1>2, <1>3, <1>5, <2>2, <3>1
    <3>3. Ahead(t, r, M, Y, q, k0, kg) /\ r # Idle
      BY <1>1, <3>2, FollowedIs
    <3>4. QED
      BY <2>1, <2>2, <3>1, <3>3 DEF GoesOn
  <2>3. CASE e = NULL
    <3>1. t.mask = g.tmask
      BY <1>3, <1>5, <2>3
    <3>2. PICK n, l, s : n = Len(q) /\ l = q[n] /\ s = g.slot
      OBVIOUS
    <3>3. /\ Stands(t, g, k0, kg) /\ Path(t, q) /\ Owes(t, g, M, k0, kg)
          /\ Follows(t, g, M, l, TRUE) /\ Grants(t, g, Y, l, k0, kg)
      BY <1>1, <3>2 DEF Onward
    <3>4. n = 1 /\ l = NULL
      <4>1. n \in Nat /\ n >= 1 /\ \A i \in 1..n - 1 : q[i] \in Block
        BY <3>2, <3>3 DEF Path
      <4>2. 1 \notin 1..n - 1
        BY <1>2, <2>3, <4>1, HashIs
      <4>3. n = 1
        <5>1. n \in Int /\ n >= 1 /\ ~(1 <= n - 1)
          BY <4>1, <4>2
        <5>2. QED
          BY <5>1
      <4>4. QED
        BY <1>2, <2>3, <3>2, <4>3
    <3>5. \A x : Was(g, x) = Hchain(t, x)
      BY <3>1 DEF Was, Hchain
    <3>6. \A b \in M : In(t, b) /\ Unpassed(g, k0, kg, Hash(b)) /\ Hchain(t, Hash(b)) > s
      BY <3>1, <3>2, <3>3, <3>4, <3>5 DEF Owes, Follows
    <3>7. \A b : In(t, b) /\ Unpassed(g, k0, kg, Hash(b)) /\ Hchain(t, Hash(b)) > s => Y[b] = 1
      <4>1. \A x : Was(g, x) > Was(g, Hash(o)) => Past(g.tmask, Hash(o), x)
        BY DEF Past, Was
      <4>2. Was(g, Hash(o)) = s
        BY <1>2, <3>2, <3>3 DEF Stands
      <4>3. \A b : In(t, b) /\ Unpassed(g, k0, kg, Hash(b)) /\ Past(g.tmask, Hash(o), Hash(b)) => Y[b] = 1
        BY <1>2, <3>3 DEF Grants
      <4>4. QED
        BY <3>5, <4>1, <4>2, <4>3
    <3>8. Rest(t, g, M, Y, k0, kg)
      BY <3>1, <3>2, <3>3, <3>6, <3>7 DEF Rest, Stands
    <3>9. QED
      BY <2>1, <2>3, <3>8, RestGoesOn
  <2>4. QED
    BY <2>2, <2>3
<1>6. QED
  BY <1>4, <1>5

LEMMA HgfirstIs ==
  ASSUME NEW t, Shape(t), NEW M, NEW Y, \A b : b \in M => In(t, b), \A b : In(t, b) => Y[b] = 1
  PROVE  GoesOn(t, Hgfirst(t), M, Y)
<1>1. PICK z, g, e : /\ z = [i \in 1..Top |-> 0] /\ g = [Idle EXCEPT !.tmask = t.mask]
                     /\ e = Entry(t, g, 0)
  OBVIOUS
<1>2. PICK m, kt : m = t.mask /\ kt \in 0..Top /\ m + 1 = Slots[kt]
  BY DEF Shape, IsSize
<1>3. g = [ep |-> NULL, slot |-> 0, tmask |-> m, sgmask |-> z, sghash |-> z]
  <2>1. Idle = [ep |-> NULL, slot |-> 0, tmask |-> 0, sgmask |-> z, sghash |-> z]
    BY <1>1 DEF Idle, Top
  <2>2. QED
    BY <1>1, <1>2, <2>1
<1>4. /\ IsGen(g) /\ g.ep = NULL /\ g.slot = 0 /\ g.tmask = m /\ g.sgmask = z /\ g.sghash = z
  BY <1>3 DEF IsGen
<1>5. kt \in Nat /\ kt + 1..kt = {} /\ m \in Nat /\ 0 \in 0..m /\ kt \in 0..kt /\ Top \in Nat
  BY <1>2, SlotsIs DEF Shape
<1>6. z \in [1..Top -> Nat] /\ \A i \in 1..kt : z[i] = 0 /\ ~(i > kt)
  BY <1>1, <1>2, <1>5
<1>7. Notes(g, kt, kt)
  BY <1>2, <1>4, <1>5, <1>6 DEF Notes
<1>8. \A x : Unpassed(g, kt, kt, x)
  BY <1>5 DEF Unpassed
<1>9. Entered(g, kt, kt, t.chains[0], e)
  <2>1. 0 \in 0..t.mask /\ t.mask = g.tmask
    BY <1>2, <1>4, <1>5
  <2>2. \A i \in kt + 1..kt : There(g, i) < 0
    BY <1>5
  <2>3. QED
    BY <1>1, <1>7, <2>1, <2>2, EntryIs
<1>10. \A b : In(t, b) => Hchain(t, Hash(b)) \in Nat /\ Within(t.chains[Hchain(t, Hash(b))], b)
  BY PlaceIs
<1>11. CASE e # NULL
  <2>1. PICK r : r = [g EXCEPT !.ep = e]
    OBVIOUS
  <2>2. r = [ep |-> e, slot |-> 0, tmask |-> m, sgmask |-> z, sghash |-> z]
    BY <1>3, <2>1
  <2>3. r.ep = e /\ r.slot = 0 /\ r.tmask = m /\ r.sgmask = z /\ r.sghash = z
    BY <2>2
  <2>4. IsGen(r) /\ r.tmask = t.mask
    BY <1>2, <2>2, <2>3 DEF IsGen
  <2>5. Notes(r, kt, kt) /\ \A x : Unpassed(r, kt, kt, x)
    <3>1. r.slot \in 0..g.tmask /\ g.slot <= r.slot
      BY <1>4, <1>5, <2>3
    <3>2. QED
      BY <1>4, <1>7, <1>8, <2>3, <3>1, NotesSame
  <2>6. Within(t.chains[0], e) /\ \A x : Within(t.chains[0], x) /\ x # e => Comes(t.chains[0], e, x)
    BY <1>8, <1>9, <1>11 DEF Entered
  <2>7. In(t, e) /\ Hchain(t, Hash(e)) = 0
    BY <1>2, <1>5, <2>6, PlaceIs
  <2>8. \A b \in M : Hchain(t, Hash(b)) > r.slot \/ b = r.ep \/ Before(t, r.ep, b)
    <3> SUFFICES ASSUME NEW b \in M PROVE Hchain(t, Hash(b)) > 0 \/ b = e \/ Before(t, e, b)
      BY <2>3
    <3>1. In(t, b) /\ Hchain(t, Hash(b)) \in Nat /\ Within(t.chains[Hchain(t, Hash(b))], b)
      BY <1>10
    <3>2. CASE Hchain(t, Hash(b)) = 0 /\ b # e
      <4>1. Comes(t.chains[0], e, b)
        BY <2>6, <3>1, <3>2
      <4>2. QED
        BY <1>2, <1>5, <4>1 DEF Before
    <3>3. QED
      BY <3>1, <3>2
  <2>9. /\ In(t, r.ep) /\ Hchain(t, Hash(r.ep)) = r.slot /\ Unpassed(r, kt, kt, Hash(r.ep))
        /\ Y[r.ep] = 1
    BY <2>3, <2>5, <2>7
  <2>10. /\ \A b \in M : In(t, b) /\ Unpassed(r, kt, kt, Hash(b))
         /\ \A b : /\ In(t, b) /\ Unpassed(r, kt, kt, Hash(b))
                   /\ Hchain(t, Hash(b)) > r.slot \/ Before(t, r.ep, b)
                   => Y[b] = 1
    BY <2>5
  <2>11. Ahead(t, r, M, Y, <<r.ep>>, kt, kt)
    BY <2>4, <2>5, <2>8, <2>9, <2>10, LandedIs
  <2>12. r # Idle
    BY <1>11, <2>3, IdleIs
  <2>13. Hgfirst(t) = r
    BY <1>1, <1>11, <2>1 DEF Hgfirst
  <2>14. QED
    BY <2>11, <2>12, <2>13 DEF GoesOn
<1>12. CASE e = NULL
  <2>1. \A b \in M : In(t, b) /\ Unpassed(g, kt, kt, Hash(b)) /\ Hchain(t, Hash(b)) > g.slot
    <3> SUFFICES ASSUME NEW b \in M PROVE In(t, b) /\ Hchain(t, Hash(b)) > 0
      BY <1>4, <1>8
    <3>1. In(t, b) /\ Hchain(t, Hash(b)) \in Nat /\ Within(t.chains[Hchain(t, Hash(b))], b)
      BY <1>10
    <3>2. ~Within(t.chains[0], b)
      BY <1>8, <1>9, <1>12 DEF Entered
    <3>3. Hchain(t, Hash(b)) # 0
      BY <3>1, <3>2
    <3>4. QED
      BY <3>1, <3>3
  <2>2. Rest(t, g, M, Y, kt, kt)
    BY <1>2, <1>4, <1>7, <2>1 DEF Rest
  <2>3. Hgfirst(t) = NextSlot(t, g)
    BY <1>1, <1>12 DEF Hgfirst
  <2>4. QED
    BY <2>2, <2>3, RestGoesOn
<1>13. QED
  BY <1>11, <1>12

-----------------------------------------------------------------------------
(* What a collection keeps. *)

\* Clinks lead from e along p, and end there.
Leads(t, e, p) ==
  /\ Len(p) \in Nat /\ Len(p) >= 1 /\ p[1] = e
  /\ \A i \in 1..Len(p) - 1 : p[i] \in DOMAIN t.stale /\ t.stale[p[i]] = p[i + 1]
  /\ \A i, j \in 1..Len(p) - 1 : i < j => p[i] # p[j]
  /\ p[Len(p)] \notin DOMAIN t.stale

LEMMA CollectedIs ==
  ASSUME NEW t, t = [size |-> t.size, mask |-> t.mask, chains |-> t.chains, stale |-> t.stale],
         IsFiniteSet(DOMAIN t.stale), NEW e, NEW p, Leads(t, e, p), NEW d, d = Collected(t, e)
  PROVE  /\ d = [size |-> t.size, mask |-> t.mask, chains |-> t.chains, stale |-> d.stale]
         /\ Kept(d, t, p)
<1>1. PICK w, D, N, n : w = t.stale /\ D = DOMAIN w /\ N = Cardinality(D) /\ n = Len(p)
  OBVIOUS
<1>2. /\ n \in Nat /\ n >= 1 /\ p[1] = e /\ p[n] \notin D
      /\ (\A i \in 1..n - 1 : p[i] \in D /\ w[p[i]] = p[i + 1])
      /\ (\A i, j \in 1..n - 1 : i < j => p[i] # p[j])
      /\ N \in Nat
  BY <1>1, FS_CardinalityType DEF Leads
<1>3. n - 1 <= N
  <2>1. PICK f : f = [i \in 1..n - 1 |-> p[i]]
    OBVIOUS
  <2>2. f \in [1..n - 1 -> D]
    BY <1>2, <2>1
  <2>3. \A i, j \in 1..n - 1 : f[i] = f[j] => i = j
    <3> SUFFICES ASSUME NEW i \in 1..n - 1, NEW j \in 1..n - 1, p[i] = p[j] PROVE i = j
      BY <2>1
    <3>1. i \in Int /\ j \in Int /\ ~(i < j) /\ ~(j < i)
      BY <1>2
    <3>2. QED
      BY <3>1
  <2>4. f \in Injection(1..n - 1, D)
    BY <2>2, <2>3 DEF Injection, IsInjective
  <2>5. Cardinality(1..n - 1) <= N
    BY <1>1, <2>4, FS_Injection
  <2>6. Cardinality(1..n - 1) = n - 1
    <3>1. PICK m : m = n - 1
      OBVIOUS
    <3>2. m \in Nat
      BY <1>2, <3>1
    <3>3. Cardinality(1..m) = IF 1 > m THEN 0 ELSE m - 1 + 1
      BY <3>2, FS_Interval
    <3>4. QED
      BY <3>1, <3>2, <3>3
  <2>7. QED
    BY <2>5, <2>6
<1> DEFINE Go(s) == s \cup ({w[b] : b \in s} \cap D)
           Body(f) == [i \in 0..N |-> IF i = 0 THEN {e} \cap D ELSE Go(f[i - 1])]
<1>4. \A s : s \in SUBSET D => Go(s) \in SUBSET D
  OBVIOUS
<1>5. {e} \cap D \in SUBSET D
  OBVIOUS
<1> HIDE DEF Go
<1>6. PICK X, x, F : X = SUBSET D /\ x = {e} \cap D /\ F = [q \in (1..N) \X X |-> Go(q[2])]
  OBVIOUS
<1>7. \A i \in 1..N : \A s \in X : F[<<i, s>>] = Go(s) /\ Go(s) \in X
  <2>1. \A i \in 1..N : \A s \in X : <<i, s>> \in (1..N) \X X /\ <<i, s>>[2] = s
    OBVIOUS
  <2>2. QED
    BY <1>4, <1>6, <2>1
<1>8. PICK f : Recursive(f, N, X, x, F)
  <2>1. F \in [(1..N) \X X -> X]
    <3>1. \A q \in (1..N) \X X : q[1] \in 1..N /\ q[2] \in X
      OBVIOUS
    <3>2. \A q \in (1..N) \X X : Go(q[2]) \in X
      BY <1>4, <1>6, <3>1
    <3>3. QED
      BY <1>6, <3>2
  <2>2. x \in X
    BY <1>5, <1>6
  <2>3. QED
    BY <1>2, <2>1, <2>2, Recursion
<1>9. f \in [0..N -> X] /\ f[0] = x /\ \A i \in 1..N : f[i] = Go(f[i - 1])
  <2>1. \A i \in 1..N : i - 1 \in 0..N
    BY <1>2
  <2>2. QED
    BY <1>7, <1>8, <2>1 DEF Recursive
<1>10. f = Body(f)
  <2>1. \A i \in 0..N : i # 0 => i \in 1..N
    BY <1>2
  <2>2. QED
    BY <1>6, <1>9, <2>1
<1>11. PICK g : g = CHOOSE h : h = Body(h)
  OBVIOUS
<1>12. g = Body(g)
  <2> HIDE DEF Body
  <2>1. \E h : h = Body(h)
    BY <1>10
  <2>2. QED
    BY <1>11, <2>1
<1>13. g[0] = {e} \cap D /\ \A i \in 1..N : g[i] = Go(g[i - 1])
  <2>1. 0 \in 0..N /\ \A i \in 1..N : i \in 0..N /\ i # 0
    BY <1>2
  <2>2. QED
    BY <1>12, <2>1
<1> DEFINE T == {m \in 0..N : \A b : b \in g[m] <=> \E i \in 1..n - 1 : i <= m + 1 /\ p[i] = b}
<1>14. 0 \in T
  <2>1. ASSUME NEW b, b \in g[0] PROVE \E i \in 1..n - 1 : i <= 0 + 1 /\ p[i] = b
    <3>1. b = p[1] /\ b \in D
      BY <1>2, <1>13, <2>1
    <3>2. n # 1
      BY <1>2, <3>1
    <3>3. 1 \in 1..n - 1
      BY <1>2, <3>2
    <3>4. QED
      BY <3>1, <3>3
  <2>2. ASSUME NEW b, NEW i \in 1..n - 1, i <= 0 + 1, p[i] = b PROVE b \in g[0]
    <3>1. i = 1 /\ p[i] \in D
      BY <1>2, <2>2
    <3>2. QED
      BY <1>2, <1>13, <2>2, <3>1
  <2>3. 0 \in 0..N
    BY <1>2
  <2>4. QED
    BY <2>1, <2>2, <2>3
<1>15. ASSUME NEW m \in 0..N, m \in T, m < N PROVE m + 1 \in T
  <2>1. m \in Nat /\ m + 1 \in 1..N /\ m + 1 \in 0..N /\ (m + 1) - 1 = m
    BY <1>2, <1>15
  <2>2. g[m + 1] = g[m] \cup ({w[b] : b \in g[m]} \cap D)
    BY <1>13, <2>1 DEF Go
  <2>3. \A b : b \in g[m] <=> \E i \in 1..n - 1 : i <= m + 1 /\ p[i] = b
    BY <1>15
  <2>4. ASSUME NEW b, b \in g[m + 1] PROVE \E i \in 1..n - 1 : i <= m + 1 + 1 /\ p[i] = b
    <3>1. CASE b \in g[m]
      <4>1. PICK i \in 1..n - 1 : i <= m + 1 /\ p[i] = b
        BY <2>3, <3>1
      <4>2. i <= m + 1 + 1
        BY <2>1, <4>1
      <4>3. QED
        BY <4>1, <4>2
    <3>2. CASE b \notin g[m]
      <4>1. PICK a \in g[m] : w[a] = b
        BY <2>2, <2>4, <3>2
      <4>2. b \in D
        BY <2>2, <2>4, <3>2
      <4>3. PICK i \in 1..n - 1 : i <= m + 1 /\ p[i] = a
        BY <2>3, <4>1
      <4>4. b = p[i + 1]
        BY <1>2, <4>1, <4>3
      <4>5. i + 1 # n
        BY <1>2, <4>2, <4>4
      <4>6. i + 1 \in 1..n - 1 /\ i + 1 <= m + 1 + 1
        BY <1>2, <2>1, <4>3, <4>5
      <4>7. QED
        BY <4>4, <4>6
    <3>3. QED
      BY <3>1, <3>2
  <2>5. ASSUME NEW b, NEW i \in 1..n - 1, i <= m + 1 + 1, p[i] = b PROVE b \in g[m + 1]
    <3>1. CASE i <= m + 1
      BY <2>2, <2>3, <2>5, <3>1
    <3>2. CASE ~(i <= m + 1)
      <4>1. i - 1 \in 1..n - 1 /\ i - 1 <= m + 1 /\ (i - 1) + 1 = i
        BY <1>2, <2>1, <2>5, <3>2
      <4>2. p[i - 1] \in g[m] /\ w[p[i - 1]] = b
        BY <1>2, <2>3, <2>5, <4>1
      <4>3. b \in D
        BY <1>2, <2>5
      <4>4. QED
        BY <2>2, <4>2, <4>3
    <3>3. QED
      BY <3>1, <3>2
  <2>6. QED
    BY <2>1, <2>4, <2>5
<1> HIDE DEF T
<1>16. \A m \in 0..N : m \in T
  BY <1>2, <1>14, <1>15, Upwards
<1>17. \A b : b \in g[N] <=> \E i \in 1..n - 1 : p[i] = b
  <2>1. N \in T
    BY <1>2, <1>16
  <2>2. \A b : b \in g[N] <=> \E i \in 1..n - 1 : i <= N + 1 /\ p[i] = b
    BY <2>1 DEF T
  <2>3. \A i \in 1..n - 1 : i <= N + 1
    BY <1>2, <1>3
  <2>4. QED
    BY <2>2, <2>3
<1>18. d = [t EXCEPT !.stale = Restrict(w, g[N])]
  BY <1>1, <1>11 DEF Collected, Go
<1>19. PICK v : v = Restrict(w, g[N])
  OBVIOUS
<1>20. DOMAIN v = g[N] /\ \A b \in g[N] : v[b] = w[b]
  BY <1>19 DEF Restrict
<1>21. d = [size |-> t.size, mask |-> t.mask, chains |-> t.chains, stale |-> v]
  <2>1. PICK s, m, c : s = t.size /\ m = t.mask /\ c = t.chains
    OBVIOUS
  <2>2. t = [size |-> s, mask |-> m, chains |-> c, stale |-> w]
    BY <1>1, <2>1
  <2>3. d = [size |-> s, mask |-> m, chains |-> c, stale |-> v]
    BY <1>18, <1>19, <2>2
  <2>4. QED
    BY <2>1, <2>3
<1>22. d.stale = v /\ d.mask = t.mask /\ d.chains = t.chains
  BY <1>21
<1>23. Kept(d, t, p)
  BY <1>1, <1>17, <1>20, <1>22 DEF Kept
<1>24. QED
  BY <1>21, <1>22, <1>23

-----------------------------------------------------------------------------
(* What the operations do to a generator. *)

LEMMA TrailsKept ==
  ASSUME NEW t, NEW g, NEW M, NEW Y, NEW p, NEW k0, NEW kg, Trails(t, g, M, Y, p, k0, kg),
         NEW d, Kept(d, t, p), NEW M1, M1 \subseteq M,
         NEW Y1, \A b : In(t, b) \/ b \in DOMAIN d.stale => Y1[b] = Y[b]
  PROVE  Track(d, g, M1, Y1, p, k0, kg)
<1>1. PICK n, l : n = Len(p) /\ l = p[n]
  OBVIOUS
<1>2. /\ Stands(t, g, k0, kg) /\ Path(t, p) /\ Lies(g, p) /\ p[1] = g.ep
      /\ Owes(t, g, M, k0, kg) /\ Follows(t, g, M, l, n > 1)
      /\ (\A i \in 2..n : p[i] # NULL => Y[p[i]] = 1)
      /\ Grants(t, g, Y, l, k0, kg)
  BY <1>1 DEF Trails
<1>3. /\ \A b : In(d, b) <=> In(t, b)
      /\ \A a, b : Before(d, a, b) <=> Before(t, a, b)
      /\ Path(d, p) /\ d.mask = t.mask
      /\ \A b : b \in DOMAIN d.stale <=> \E i \in 1..n - 1 : p[i] = b
  BY <1>1, <1>2, PathKept DEF Kept
<1>4. n \in Nat /\ n >= 1 /\ (l # NULL => In(t, l))
  BY <1>1, <1>2 DEF Path
<1>5. Stands(d, g, k0, kg)
  BY <1>2, <1>3 DEF Stands
<1>6. Owes(d, g, M1, k0, kg)
  BY <1>2, <1>3 DEF Owes
<1>7. Follows(d, g, M1, l, n > 1)
  BY <1>2, <1>3 DEF Follows
<1>8. ASSUME NEW i \in 2..n, p[i] # NULL PROVE Y1[p[i]] = 1
  <2>1. i = n \/ i \in 1..n - 1
    BY <1>4
  <2>2. In(t, p[i]) \/ p[i] \in DOMAIN d.stale
    BY <1>1, <1>3, <1>4, <1>8, <2>1
  <2>3. QED
    BY <1>2, <1>8, <2>2
<1>9. Grants(d, g, Y1, l, k0, kg)
  BY <1>2, <1>3 DEF Grants
<1>10. QED
  BY <1>1, <1>2, <1>3, <1>5, <1>6, <1>7, <1>8, <1>9 DEF Track, Trails

LEMMA LinkTracks ==
  ASSUME NEW t, TabOK(t), NEW b \in Block, ~Found(t, b[1]), b \notin DOMAIN t.stale,
         NEW d, d = Linked(t, b),
         NEW g, NEW M, NEW Y, NEW p, NEW k0, NEW kg, Track(t, g, M, Y, p, k0, kg),
         NEW Y1, Y1[b] = 1, \A x : x \in Block /\ x # b => Y1[x] = Y[x]
  PROVE  Track(d, g, M, Y1, p, k0, kg)
<1>1. PICK n, l : n = Len(p) /\ l = p[n]
  OBVIOUS
<1>2. /\ Stands(t, g, k0, kg) /\ Path(t, p) /\ Lies(g, p) /\ p[1] = g.ep
      /\ Owes(t, g, M, k0, kg) /\ Follows(t, g, M, l, n > 1)
      /\ (\A i \in 2..n : p[i] # NULL => Y[p[i]] = 1)
      /\ Grants(t, g, Y, l, k0, kg)
      /\ \A x \in DOMAIN t.stale : \E i \in 1..n - 1 : p[i] = x
  BY <1>1 DEF Track, Trails
<1>3. /\ d.mask = t.mask /\ d.stale = t.stale
      /\ \A x : In(d, x) <=> In(t, x) \/ x = b
      /\ ~In(t, b)
      /\ \A x, y : Before(t, x, y) => Before(d, x, y)
      /\ \A x, y : Before(d, x, y) /\ x # b /\ y # b => Before(t, x, y)
  BY LinkedIs
<1>4. n \in Nat /\ n >= 1 /\ (l # NULL => In(t, l)) /\ p \in Seq(Block \cup {NULL})
  BY <1>1, <1>2 DEF Path
<1>5. Path(d, p)
  <2>1. \A i \in 1..n - 1 : ~In(t, p[i]) /\ p[i] \in DOMAIN t.stale
    BY <1>1, <1>2 DEF Path
  <2>2. \A i \in 1..n - 1 : ~In(d, p[i])
    BY <1>3, <2>1
  <2>3. QED
    BY <1>1, <1>2, <1>3, <2>2 DEF Path
<1>6. Stands(d, g, k0, kg)
  BY <1>2, <1>3 DEF Stands
<1>7. Owes(d, g, M, k0, kg)
  BY <1>2, <1>3 DEF Owes
<1>8. Follows(d, g, M, l, n > 1)
  BY <1>2, <1>3 DEF Follows
<1>9. ASSUME NEW i \in 2..n, p[i] # NULL PROVE Y1[p[i]] = 1
  <2>1. i \in 1..n
    BY <1>4
  <2>2. p[i] \in Block
    BY <1>1, <1>4, <1>9, <2>1
  <2>3. QED
    BY <1>2, <1>9, <2>2
<1>10. Grants(d, g, Y1, l, k0, kg)
  <2> SUFFICES ASSUME NEW x, In(d, x), Unpassed(g, k0, kg, Hash(x)),
                      \/ Past(g.tmask, Hash(g.ep), Hash(x))
                      \/ l # NULL /\ Before(d, l, x) /\ Hash(x) = Hash(g.ep)
               PROVE  Y1[x] = 1
    BY DEF Grants
  <2>1. CASE x = b
    BY <2>1
  <2>2. CASE x # b
    <3>1. In(t, x) /\ x \in Block
      BY <1>3, <2>2, PlaceIs DEF TabOK
    <3>2. l # NULL /\ Before(d, l, x) => Before(t, l, x)
      BY <1>3, <1>4, <2>2
    <3>3. Y[x] = 1
      BY <1>2, <3>1, <3>2 DEF Grants
    <3>4. QED
      BY <2>2, <3>1, <3>3
  <2>3. QED
    BY <2>1, <2>2
<1>11. QED
  BY <1>1, <1>2, <1>3, <1>5, <1>6, <1>7, <1>8, <1>9, <1>10 DEF Track, Trails

LEMMA GrowTracks ==
  ASSUME NEW t, TabOK(t), t.mask + 1 < MaxSlots, NEW d, d = Grown(t),
         NEW g, NEW M, NEW Y, NEW p, NEW k0, NEW kg, Track(t, g, M, Y, p, k0, kg)
  PROVE  Track(d, g, M, Y, p, k0, kg)
<1>1. PICK n, l, e : n = Len(p) /\ l = p[n] /\ e = g.ep
  OBVIOUS
<1>2. /\ Stands(t, g, k0, kg) /\ Path(t, p) /\ Lies(g, p) /\ p[1] = e
      /\ Owes(t, g, M, k0, kg) /\ Follows(t, g, M, l, n > 1)
      /\ (\A i \in 2..n : p[i] # NULL => Y[p[i]] = 1)
      /\ Grants(t, g, Y, l, k0, kg)
      /\ \A x \in DOMAIN t.stale : \E i \in 1..n - 1 : p[i] = x
  BY <1>1 DEF Track, Trails
<1>3. /\ d.mask + 1 = 2 * (t.mask + 1) /\ d.stale = t.stale
      /\ \A x : In(d, x) <=> In(t, x)
      /\ \A x, y : Before(d, x, y) <=>
           Before(t, x, y) /\ Hchain(d, Hash(x)) = Hchain(d, Hash(y))
      /\ Shape(d)
  BY GrownIs DEF TabOK
<1>4. n \in Nat /\ n >= 1 /\ 1 \in 1..n /\ n \in 1..n /\ (l # NULL => In(t, l))
  BY <1>1, <1>2 DEF Path
<1>5. g.tmask <= d.mask /\ d.mask # g.tmask
  <2>1. t.mask \in Nat /\ d.mask \in Nat /\ g.tmask \in Nat /\ g.tmask <= t.mask
    BY <1>2, <1>3 DEF TabOK, Shape, Stands, Notes
  <2>2. QED
    BY <1>3, <2>1
<1>6. Path(d, p)
  BY <1>2, <1>3 DEF Path
<1>7. Stands(d, g, k0, kg)
  BY <1>1, <1>2, <1>5 DEF Stands
<1>8. Owes(d, g, M, k0, kg)
  BY <1>2, <1>3 DEF Owes
<1>9. Follows(d, g, M, l, n > 1)
  <2> SUFFICES ASSUME NEW b \in M, Was(g, Hash(b)) = g.slot, Hash(b) = Hash(e)
               PROVE  l # NULL /\ ((n > 1 /\ b = l) \/ Before(d, l, b))
    BY <1>1, <1>5 DEF Follows
  <2>1. l # NULL /\ ((n > 1 /\ b = l) \/ Before(t, l, b))
    BY <1>1, <1>2 DEF Follows
  <2>2. CASE Before(t, l, b)
    <3>1. Hash(l) <= Hash(b) /\ Hash(l) \in Nat /\ Hash(b) \in Nat
      BY <1>4, <2>1, <2>2, OrderIs, PlaceIs DEF TabOK
    <3>2. Hash(e) <= Hash(l)
      <4>1. CASE n = 1
        BY <1>1, <1>2, <3>1, <4>1
      <4>2. CASE n # 1
        <5>1. 1 < n
          BY <1>4, <4>2
        <5>2. QED
          BY <1>1, <1>2, <1>4, <2>1, <5>1 DEF Lies
      <4>3. QED
        BY <4>1, <4>2
    <3>3. Hash(l) = Hash(b)
      BY <3>1, <3>2
    <3>4. QED
      BY <1>3, <2>1, <2>2, <3>3
  <2>3. QED
    BY <2>1, <2>2
<1>10. Grants(d, g, Y, l, k0, kg)
  BY <1>1, <1>2, <1>3 DEF Grants
<1>11. QED
  BY <1>1, <1>2, <1>3, <1>6, <1>7, <1>8, <1>9, <1>10 DEF Track, Trails

LEMMA UnlinkTrails ==
  ASSUME NEW t, TabOK(t), NEW b, In(t, b), NEW d, d = Unlinked(t, b[1]),
         NEW g, NEW M, NEW Y, NEW p, NEW k0, NEW kg, Track(t, g, M, Y, p, k0, kg)
  PROVE  \E q : Trails(d, g, M \ {b}, Y, q, k0, kg) /\ Leads(d, g.ep, q)
<1>1. PICK n, l, e, r, D : n = Len(p) /\ l = p[n] /\ e = g.ep /\ r = Clink(t, b) /\ D = DOMAIN t.stale
  OBVIOUS
<1>2. /\ Stands(t, g, k0, kg) /\ Path(t, p) /\ Lies(g, p) /\ p[1] = e
      /\ Owes(t, g, M, k0, kg) /\ Follows(t, g, M, l, n > 1)
      /\ (\A i \in 2..n : p[i] # NULL => Y[p[i]] = 1)
      /\ Grants(t, g, Y, l, k0, kg)
      /\ \A x \in D : \E i \in 1..n - 1 : p[i] = x
  BY <1>1 DEF Track, Trails
<1>3. /\ TabOK(d) /\ d.mask = t.mask
      /\ d.stale = OneMore(t.stale, b, r)
      /\ \A x : In(d, x) <=> In(t, x) /\ x # b
      /\ \A x, y : Before(d, x, y) <=> Before(t, x, y) /\ x # b /\ y # b
  <2>1. /\ TabOK(d) /\ d.mask = t.mask
        /\ d.stale = OneMore(t.stale, b, Clink(t, b))
        /\ \A x : In(d, x) <=> In(t, x) /\ x # b
        /\ \A x, y : Before(d, x, y) <=> Before(t, x, y) /\ x # b /\ y # b
    BY UnlinkedIs
  <2>2. QED
    BY <1>1, <2>1
<1>4. /\ n \in Nat /\ n >= 1 /\ (l # NULL => In(t, l)) /\ p \in Seq(Block \cup {NULL})
      /\ \A i \in 1..n - 1 :
           p[i] \in Block /\ ~In(t, p[i]) /\ p[i] \in D /\ t.stale[p[i]] = p[i + 1]
      /\ \A i, j \in 1..n - 1 : i < j => p[i] # p[j]
  BY <1>1, <1>2 DEF Path
<1>5. /\ Shape(t) /\ b \in Block /\ b # NULL /\ Hash(b) \in Nat
      /\ \A x : In(t, x) => x \in Block /\ x # NULL /\ Hash(x) \in Nat
  BY PlaceIs DEF TabOK
<1>6. \A x \in D : x \in Block /\ ~In(t, x) /\ x # b /\ x # NULL
  <2>1. ASSUME NEW x \in D PROVE x \in Block /\ ~In(t, x)
    <3>1. PICK i \in 1..n - 1 : p[i] = x
      BY <1>2
    <3>2. p[i] \in Block /\ ~In(t, p[i])
      BY <1>4
    <3>3. QED
      BY <3>1, <3>2
  <2>2. QED
    BY <2>1, HashIs
<1>7. /\ DOMAIN d.stale = D \cup {b} /\ d.stale[b] = r
      /\ \A x \in D : d.stale[x] = t.stale[x]
  <2>1. PICK w, v : w = t.stale /\ v = d.stale
    OBVIOUS
  <2>2. v = [x \in DOMAIN w \cup {b} |-> IF x = b THEN r ELSE w[x]]
    BY <1>3, <2>1 DEF OneMore
  <2>3. DOMAIN w = D /\ \A x \in D : x # b
    BY <1>1, <1>6, <2>1
  <2>4. DOMAIN v = D \cup {b} /\ v[b] = r /\ \A x \in D : v[x] = w[x]
    BY <2>2, <2>3
  <2>5. QED
    BY <2>1, <2>4
<1>8. NextOf(t, b, r)
  BY <1>1, <1>5, <1>6, ClinkIs
<1>9. /\ Notes(g, k0, kg) /\ g.tmask <= t.mask /\ e \in Block /\ Hash(e) \in Nat
      /\ Was(g, Hash(e)) = g.slot /\ Unpassed(g, k0, kg, Hash(e))
  <2>1. e \in Block
    BY <1>1, <1>2 DEF Stands
  <2>2. QED
    BY <1>1, <1>2, <2>1, HashIs DEF Stands
<1>10. Stands(d, g, k0, kg)
  BY <1>2, <1>3 DEF Stands
<1>11. Owes(d, g, M \ {b}, k0, kg)
  BY <1>2, <1>3 DEF Owes
<1>12. CASE l # b
  <2>1. Path(d, p)
    <3>1. \A i \in 1..n - 1 : ~In(d, p[i]) /\ p[i] \in DOMAIN d.stale /\ d.stale[p[i]] = p[i + 1]
      BY <1>3, <1>4, <1>7
    <3>2. l # NULL => In(d, l)
      BY <1>3, <1>4, <1>12
    <3>3. QED
      BY <1>1, <1>4, <3>1, <3>2 DEF Path
  <2>2. l \notin DOMAIN d.stale
    BY <1>4, <1>6, <1>7, <1>12
  <2>3. Leads(d, e, p)
    BY <1>1, <1>2, <1>4, <2>1, <2>2 DEF Path, Leads
  <2>4. Follows(d, g, M \ {b}, l, n > 1)
    BY <1>2, <1>3, <1>12 DEF Follows
  <2>5. Grants(d, g, Y, l, k0, kg)
    BY <1>2, <1>3 DEF Grants
  <2>6. Trails(d, g, M \ {b}, Y, p, k0, kg)
    BY <1>1, <1>2, <1>10, <1>11, <2>1, <2>4, <2>5 DEF Trails
  <2>7. QED
    BY <1>1, <2>3, <2>6
<1>13. CASE l = b
  <2>1. PICK q : q = Append(p, r)
    OBVIOUS
  <2>2. r # NULL => /\ Before(t, b, r) /\ In(t, r) /\ r \in Block /\ Hash(r) \in Nat /\ r # b
                    /\ Hash(b) <= Hash(r) /\ Hchain(t, Hash(b)) = Hchain(t, Hash(r))
    BY <1>5, <1>8, OrderIs DEF NextOf
  <2>3. r \in Block \cup {NULL}
    BY <2>2
  <2>4. /\ q \in Seq(Block \cup {NULL}) /\ Len(q) = n + 1
        /\ (\A i \in 1..n : q[i] = p[i]) /\ q[n + 1] = r
    BY <1>1, <1>4, <2>1, <2>3, AppendOne
  <2>5. /\ 1 \in 1..n /\ n \in 1..n /\ \A i \in 1..n - 1 : i \in 1..n /\ i + 1 \in 1..n
        /\ \A i \in 1..n + 1 : i \in 1..n \/ i = n + 1
        /\ \A i \in 1..n : i \in 1..n - 1 \/ i = n
    BY <1>4
  <2>6. \A i \in 1..n :
          q[i] \in Block /\ ~In(d, q[i]) /\ q[i] \in DOMAIN d.stale /\ d.stale[q[i]] = q[i + 1]
    <3>1. \A i \in 1..n - 1 :
            q[i] \in Block /\ ~In(d, q[i]) /\ q[i] \in DOMAIN d.stale /\ d.stale[q[i]] = q[i + 1]
      <4> SUFFICES ASSUME NEW i \in 1..n - 1
                   PROVE  /\ q[i] \in Block /\ ~In(d, q[i]) /\ q[i] \in DOMAIN d.stale
                          /\ d.stale[q[i]] = q[i + 1]
        OBVIOUS
      <4>1. q[i] = p[i] /\ q[i + 1] = p[i + 1]
        BY <2>4, <2>5
      <4>2. p[i] \in Block /\ ~In(t, p[i]) /\ p[i] \in D /\ t.stale[p[i]] = p[i + 1]
        BY <1>4
      <4>3. p[i] \in DOMAIN d.stale /\ d.stale[p[i]] = p[i + 1]
        BY <1>7, <4>2
      <4>4. ~In(d, p[i])
        BY <1>3, <4>2
      <4>5. QED
        BY <4>1, <4>2, <4>3, <4>4
    <3>2. q[n] \in Block /\ ~In(d, q[n]) /\ q[n] \in DOMAIN d.stale /\ d.stale[q[n]] = q[n + 1]
      <4>1. q[n] = b /\ q[n + 1] = r
        BY <1>1, <1>13, <2>4, <2>5
      <4>2. b \in DOMAIN d.stale /\ d.stale[b] = r /\ ~In(d, b)
        BY <1>3, <1>7
      <4>3. QED
        BY <1>5, <4>1, <4>2
    <3>3. QED
      BY <2>5, <3>1, <3>2
  <2>7. ASSUME NEW i \in 1..n, NEW j \in 1..n, i < j PROVE q[i] # q[j]
    <3>1. i \in 1..n - 1
      BY <1>4, <2>7
    <3>2. CASE j \in 1..n - 1
      BY <1>4, <2>4, <2>5, <2>7, <3>1, <3>2
    <3>3. CASE j = n
      <4>1. q[j] = b
        BY <1>1, <1>13, <2>4, <2>5, <3>3
      <4>2. q[i] = p[i] /\ p[i] \in D
        BY <1>4, <2>4, <3>1
      <4>3. QED
        BY <1>6, <4>1, <4>2
    <3>4. QED
      BY <2>5, <3>2, <3>3
  <2>8. r # NULL => In(d, r)
    BY <1>3, <2>2
  <2>9. PICK m : m = n + 1
    OBVIOUS
  <2>10. m - 1 = n /\ Len(q) = m /\ m \in Nat /\ m >= 1 /\ m > 1 /\ q[m] = r
    BY <1>4, <2>4, <2>9
  <2>11. Path(d, q)
    BY <2>4, <2>6, <2>7, <2>8, <2>10 DEF Path
  <2>12. r \notin DOMAIN d.stale
    BY <1>5, <1>6, <1>7, <2>2
  <2>13. Leads(d, e, q)
    <3>1. q[1] = e
      BY <1>2, <2>4, <2>5
    <3>2. QED
      BY <2>6, <2>7, <2>10, <2>12, <3>1 DEF Leads
  <2>14. Lies(g, q) /\ (r # NULL => Was(g, Hash(r)) = g.slot /\ Hash(e) <= Hash(r))
    <3>1. /\ \A i \in 1..n : p[i] # NULL => Was(g, Hash(p[i])) = g.slot
          /\ \A i, j \in 1..n : i < j /\ p[j] # NULL => Hash(p[i]) <= Hash(p[j])
      BY <1>1, <1>2 DEF Lies
    <3>2. Was(g, Hash(b)) = g.slot
      BY <1>1, <1>5, <1>13, <2>5, <3>1
    <3>3. r # NULL => Was(g, Hash(r)) = g.slot
      BY <1>5, <1>9, <2>2, <3>2, WasIs
    <3>4. \A i \in 1..n : Hash(p[i]) \in Nat /\ Hash(p[i]) <= Hash(b)
      <4> SUFFICES ASSUME NEW i \in 1..n PROVE Hash(p[i]) \in Nat /\ Hash(p[i]) <= Hash(b)
        OBVIOUS
      <4>1. p[i] \in Block /\ Hash(p[i]) \in Nat
        <5>1. p[i] \in Block
          BY <2>4, <2>6
        <5>2. QED
          BY <5>1, HashIs
      <4>2. CASE i = n
        <5>1. p[i] = b
          BY <1>1, <1>13, <4>2
        <5>2. Hash(b) \in Nat
          BY <1>5
        <5>3. QED
          BY <5>1, <5>2
      <4>3. CASE i # n
        <5>1. i < n
          BY <1>4, <4>3
        <5>2. QED
          BY <1>1, <1>5, <1>13, <2>5, <3>1, <4>1, <5>1
      <4>4. QED
        BY <4>2, <4>3
    <3>5. r # NULL => \A i \in 1..n : Hash(p[i]) <= Hash(r)
      <4> SUFFICES ASSUME r # NULL, NEW i \in 1..n PROVE Hash(p[i]) <= Hash(r)
        OBVIOUS
      <4>1. Hash(p[i]) \in Nat /\ Hash(p[i]) <= Hash(b) /\ Hash(b) <= Hash(r) /\ Hash(r) \in Nat
        BY <2>2, <3>4
      <4>2. QED
        BY <1>5, <4>1
    <3>6. \A i \in 1..m : q[i] # NULL => Was(g, Hash(q[i])) = g.slot
      BY <2>4, <2>5, <2>9, <3>1, <3>3
    <3>7. ASSUME NEW i \in 1..m, NEW j \in 1..m, i < j, q[j] # NULL PROVE Hash(q[i]) <= Hash(q[j])
      <4>1. i \in 1..n
        BY <2>9, <1>4, <3>7
      <4>2. CASE j \in 1..n
        BY <2>4, <3>1, <3>7, <4>1, <4>2
      <4>3. CASE j = n + 1
        BY <2>4, <3>5, <3>7, <4>1, <4>3
      <4>4. QED
        BY <2>5, <2>9, <4>2, <4>3
    <3>8. r # NULL => Hash(e) <= Hash(r)
      BY <1>2, <2>5, <3>5
    <3>9. QED
      BY <2>10, <3>3, <3>6, <3>7, <3>8 DEF Lies
  <2>15. Follows(d, g, M \ {b}, r, TRUE)
    <3> SUFFICES ASSUME NEW x \in M \ {b}, Was(g, Hash(x)) = g.slot, t.mask = g.tmask \/ Hash(x) = Hash(e)
                 PROVE  r # NULL /\ (x = r \/ Before(d, r, x))
      BY <1>1, <1>3 DEF Follows
    <3>1. Before(t, b, x)
      BY <1>1, <1>2, <1>13 DEF Follows
    <3>2. r # NULL /\ (x = r \/ Before(t, r, x))
      BY <1>8, <3>1 DEF NextOf
    <3>3. QED
      BY <1>3, <2>2, <3>2
  <2>16. r # NULL => Y[r] = 1
    <3> SUFFICES ASSUME r # NULL PROVE Y[r] = 1
      OBVIOUS
    <3>1. Was(g, Hash(e)) = Was(g, Hash(r)) /\ Hash(e) <= Hash(r)
      BY <1>9, <2>14
    <3>2. Unpassed(g, k0, kg, Hash(r))
      BY <1>9, <2>2, <3>1, UnpassedUp
    <3>3. Hash(r) = Hash(e) \/ Past(g.tmask, Hash(e), Hash(r))
      BY <1>9, <2>2, <3>1 DEF Past, Was
    <3>4. QED
      BY <1>1, <1>2, <1>5, <1>13, <2>2, <3>2, <3>3 DEF Grants
  <2>17. \A i \in 2..m : q[i] # NULL => Y[q[i]] = 1
    <3> SUFFICES ASSUME NEW i \in 2..m, q[i] # NULL PROVE Y[q[i]] = 1
      OBVIOUS
    <3>1. CASE i = m
      BY <2>10, <2>16, <3>1
    <3>2. CASE i # m
      <4>1. i \in 2..n /\ i \in 1..n
        BY <1>4, <2>9, <3>2
      <4>2. QED
        BY <1>2, <2>4, <4>1
    <3>3. QED
      BY <3>1, <3>2
  <2>18. Grants(d, g, Y, r, k0, kg)
    <3>1. r # NULL => \A x : Before(d, r, x) => Before(t, b, x)
      BY <1>3, <1>5, <2>2, OrderIs
    <3>2. QED
      BY <1>2, <1>3, <1>5, <1>13, <3>1 DEF Grants
  <2>19. Trails(d, g, M \ {b}, Y, q, k0, kg)
    <3>1. q[1] = g.ep
      BY <1>1, <1>2, <2>4, <2>5
    <3>2. Follows(d, g, M \ {b}, r, m > 1)
      BY <2>10, <2>15 DEF Follows
    <3>3. QED
      BY <1>10, <1>11, <2>10, <2>11, <2>14, <2>17, <2>18, <3>1, <3>2 DEF Trails
  <2>20. QED
    BY <1>1, <2>13, <2>19
<1>14. QED
  BY <1>12, <1>13

-----------------------------------------------------------------------------
(* The inductive invariant: the structure is well formed and not crowded,  *)
(* and the generator, if there is one, stands where all that it must still *)
(* produce is ahead of it, and nothing else is.                            *)

GenIs(t, g, M, Y) ==
  /\ Y \in [Block -> {0, 1}]
  /\ g = Idle => M = {} /\ Y = Nothing /\ DOMAIN t.stale = {}
  /\ g # Idle => \E p, k0, kg : Track(t, g, M, Y, p, k0, kg)

IInv == load \in Loading /\ TabOK(tab) /\ Loaded(tab) /\ GenIs(tab, gen, must, may)

LEMMA StaleIs ==
  ASSUME NEW t, NEW g, NEW M, NEW Y, GenIs(t, g, M, Y)
  PROVE  /\ \A b \in DOMAIN t.stale : b \in Block /\ b # NULL /\ ~In(t, b)
         /\ IsFiniteSet(DOMAIN t.stale)
         /\ \A b \in M : In(t, b)
<1>1. \A b \in DOMAIN t.stale : b \in Block /\ ~In(t, b)
  <2>1. CASE g = Idle
    BY <2>1 DEF GenIs
  <2>2. CASE g # Idle
    <3>1. PICK p, k0, kg : Track(t, g, M, Y, p, k0, kg)
      BY <2>2 DEF GenIs
    <3>2. Path(t, p) /\ \A b \in DOMAIN t.stale : \E i \in 1..Len(p) - 1 : p[i] = b
      BY <3>1 DEF Track, Trails
    <3>3. QED
      BY <3>2 DEF Path
  <2>3. QED
    BY <2>1, <2>2
<1>2. \A b \in M : In(t, b)
  <2>1. CASE g = Idle
    BY <2>1 DEF GenIs
  <2>2. CASE g # Idle
    <3>1. PICK p, k0, kg : Track(t, g, M, Y, p, k0, kg)
      BY <2>2 DEF GenIs
    <3>2. QED
      BY <3>1 DEF Track, Trails, Owes
  <2>3. QED
    BY <2>1, <2>2
<1>3. IsFiniteSet(DOMAIN t.stale)
  <2>1. DOMAIN t.stale \in SUBSET Block
    BY <1>1
  <2>2. QED
    BY <2>1, BlockFinite, FS_Subset
<1>4. QED
  BY <1>1, <1>2, <1>3, HashIs

\* Only what has been unlinked has changed.
LEMMA StaleTab ==
  ASSUME NEW t, TabOK(t), Loaded(t),
         NEW d, d = [size |-> t.size, mask |-> t.mask, chains |-> t.chains, stale |-> d.stale]
  PROVE  TabOK(d) /\ Loaded(d) /\ Members(d) = Members(t)
<1>1. d.size = t.size /\ d.mask = t.mask /\ d.chains = t.chains
  OBVIOUS
<1>2. Members(d) = Members(t)
  BY <1>1 DEF Members
<1>3. Shape(d)
  BY <1>1 DEF TabOK, Shape
<1>4. QED
  BY <1>1, <1>2, <1>3 DEF TabOK, Loaded

LEMMA PathLeads ==
  ASSUME NEW t, NEW p, Path(t, p), \A b \in DOMAIN t.stale : b # NULL /\ ~In(t, b)
  PROVE  Leads(t, p[1], p)
<1>1. PICK n : n = Len(p)
  OBVIOUS
<1>2. n \in Nat /\ n >= 1 /\ (p[n] # NULL => In(t, p[n]))
  BY <1>1 DEF Path
<1>3. p[n] \notin DOMAIN t.stale
  BY <1>2
<1>4. QED
  BY <1>1, <1>2, <1>3 DEF Path, Leads

\* Nothing that has been unlinked is kept when no generator is left.
LEMMA CollectedAll ==
  ASSUME NEW t, t = [size |-> t.size, mask |-> t.mask, chains |-> t.chains, stale |-> t.stale],
         IsFiniteSet(DOMAIN t.stale), NULL \notin DOMAIN t.stale, NEW d, d = Collected(t, NULL)
  PROVE  /\ d = [size |-> t.size, mask |-> t.mask, chains |-> t.chains, stale |-> d.stale]
         /\ DOMAIN d.stale = {}
<1>1. PICK p : p = <<NULL>>
  OBVIOUS
<1>2. Len(p) = 1 /\ p[1] = NULL /\ 1..Len(p) - 1 = {}
  BY <1>1
<1>3. Leads(t, NULL, p)
  BY <1>2 DEF Leads
<1>4. /\ d = [size |-> t.size, mask |-> t.mask, chains |-> t.chains, stale |-> d.stale]
      /\ Kept(d, t, p)
  BY <1>3, CollectedIs
<1>5. QED
  BY <1>2, <1>4 DEF Kept

\* TooCrowded is tested once, after insertions that no more than doubled it.
LEMMA RelievedIs ==
  ASSUME load \in Loading, NEW t, TabOK(t),
         t.mask + 1 < MaxSlots => t.size <= 2 * (MaxHLoad * (t.mask + 1)),
         NEW d, d = IF TooCrowded(t) THEN Grown(t) ELSE t
  PROVE  TabOK(d) /\ Loaded(d) /\ Members(d) = Members(t) /\ d.stale = t.stale
<1>1. CASE TooCrowded(t)
  <2>1. t.mask + 1 < MaxSlots /\ d = Grown(t)
    BY <1>1 DEF TooCrowded
  <2>2. /\ TabOK(d) /\ d.mask + 1 = 2 * (t.mask + 1) /\ d.size = t.size /\ d.stale = t.stale
        /\ Members(d) = Members(t)
    BY <2>1, GrownIs
  <2>3. PICK a, n, m : a = MaxHLoad /\ n = t.mask + 1 /\ m = d.mask + 1
    OBVIOUS
  <2>4. a \in Nat /\ n \in Nat /\ m = 2 * n
    BY <2>2, <2>3, LoadIs DEF TabOK, Shape
  <2>5. 2 * (a * n) = a * m
    BY <2>4
  <2>6. d.size <= a * m
    BY <2>1, <2>2, <2>3, <2>5
  <2>7. QED
    BY <2>2, <2>3, <2>6 DEF Loaded
<1>2. CASE ~TooCrowded(t)
  <2>1. PICK z, w : z = t.size /\ w = MaxHLoad * (t.mask + 1)
    OBVIOUS
  <2>2. z \in Nat /\ w \in Nat
    BY <2>1, LoadIs DEF TabOK, Shape
  <2>3. t.mask + 1 < MaxSlots => ~(z > w)
    BY <1>2, <2>1 DEF TooCrowded
  <2>4. Loaded(t)
    BY <2>1, <2>2, <2>3 DEF Loaded
  <2>5. QED
    BY <1>2, <2>4
<1>3. QED
  BY <1>1, <1>2

LEMMA InsertStep ==
  ASSUME load \in Loading, NEW t, TabOK(t), Loaded(t), NEW g, NEW M, NEW Y, GenIs(t, g, M, Y),
         NEW b \in Block, ~Found(t, b[1]), b \notin DOMAIN t.stale, NEW u, u = Linked(t, b),
         NEW d, d = IF TooCrowded(u) THEN Grown(u) ELSE u,
         NEW Y1, Y1 = IF g = Idle THEN Y ELSE [Y EXCEPT ![b] = 1]
  PROVE  /\ TabOK(d) /\ Loaded(d) /\ GenIs(d, g, M, Y1)
         /\ b \notin Members(t) /\ Members(d) = Members(t) \cup {b}
<1>2. /\ TabOK(u) /\ u.mask = t.mask /\ u.size = t.size + 1 /\ u.stale = t.stale
      /\ ~In(t, b) /\ Members(u) = Members(t) \cup {b}
  BY LinkedIs
<1>3. u.mask + 1 < MaxSlots => u.size <= 2 * (MaxHLoad * (u.mask + 1))
  <2>1. PICK a, n, z, w : a = MaxHLoad /\ n = t.mask + 1 /\ z = t.size /\ w = a * n
    OBVIOUS
  <2>2. a \in Nat \ {0} /\ n \in Nat \ {0} /\ z \in Nat
    BY <2>1, LoadIs DEF TabOK, Shape
  <2>3. w \in Nat /\ w >= 1
    <3>1. a >= 1 /\ a \in Int /\ n \in Nat /\ n >= 1
      BY <2>2
    <3>2. a * n >= n /\ a * n \in Int
      BY <3>1, Multiple
    <3>3. QED
      BY <2>1, <3>1, <3>2
  <2>4. n < MaxSlots => z <= w
    BY <2>1 DEF Loaded
  <2>5. n < MaxSlots => z + 1 <= 2 * w
    BY <2>2, <2>3, <2>4
  <2>6. QED
    BY <1>2, <2>1, <2>5
<1>4. TabOK(d) /\ Loaded(d) /\ Members(d) = Members(u) /\ d.stale = u.stale
  BY <1>2, <1>3, RelievedIs
<1>5. b \notin Members(t)
  BY <1>2, MembersAre DEF TabOK
<1>6. Y \in [Block -> {0, 1}] /\ Y1 \in [Block -> {0, 1}]
  BY DEF GenIs
<1>7. CASE g = Idle
  <2>1. M = {} /\ Y1 = Nothing /\ DOMAIN d.stale = {}
    BY <1>2, <1>4, <1>7 DEF GenIs
  <2>2. GenIs(d, g, M, Y1)
    BY <1>6, <1>7, <2>1 DEF GenIs
  <2>3. QED
    BY <1>2, <1>4, <1>5, <2>2
<1>8. CASE g # Idle
  <2>0. PICK Z : Z = Y1
    OBVIOUS
  <2>1. PICK p, k0, kg : Track(t, g, M, Y, p, k0, kg)
    BY <1>8 DEF GenIs
  <2>2. Z[b] = 1 /\ \A x : x \in Block /\ x # b => Z[x] = Y[x]
    BY <1>6, <1>8, <2>0
  <2>3. Track(u, g, M, Z, p, k0, kg)
    BY <2>1, <2>2, LinkTracks
  <2>4. TooCrowded(u) => u.mask + 1 < MaxSlots
    BY DEF TooCrowded
  <2>5. Track(d, g, M, Z, p, k0, kg)
    BY <1>2, <2>3, <2>4, GrowTracks
  <2>6. GenIs(d, g, M, Y1)
    BY <1>6, <1>8, <2>0, <2>5 DEF GenIs
  <2>7. QED
    BY <1>2, <1>4, <1>5, <2>6
<1>9. QED
  BY <1>7, <1>8

LEMMA DeleteStep ==
  ASSUME load \in Loading, NEW t, TabOK(t), Loaded(t), NEW g, NEW M, NEW Y, GenIs(t, g, M, Y),
         NEW k \in Key, Found(t, k), NEW d, d = Collected(Unlinked(t, k), g.ep),
         NEW M1, M1 = {x \in M : x[1] # k}, NEW Y1, Y1 = Remembered(Y, d)
  PROVE  /\ TabOK(d) /\ Loaded(d) /\ GenIs(d, g, M1, Y1)
         /\ \E b \in Members(t) : Members(d) = Members(t) \ {b} /\ M1 = M \ {b}
         /\ \A e \in Block : Y1[e] = Y[e] \/ (e \notin Members(d) /\ Y1[e] = 0)
<1>1. Shape(t)
  BY DEF TabOK
<1>2. PICK b : In(t, b) /\ b[1] = k
  BY <1>1, FoundIs
<1>3. PICK u : u = Unlinked(t, k)
  OBVIOUS
<1>4. u = Unlinked(t, b[1])
  BY <1>2, <1>3
<1>5. /\ TabOK(u) /\ u.mask = t.mask /\ u.size + 1 = t.size
      /\ u.stale = OneMore(t.stale, b, Clink(t, b))
      /\ \A x : In(u, x) <=> In(t, x) /\ x # b
      /\ Members(u) = Members(t) \ {b}
  BY <1>2, <1>4, UnlinkedIs
<1>6. Shape(u) /\ u.size \in Nat /\ t.size \in Nat
  BY <1>5 DEF TabOK
<1>7. Loaded(u)
  <2>1. PICK w : w = MaxHLoad * (t.mask + 1)
    OBVIOUS
  <2>2. w \in Nat
    BY <1>1, <2>1, LoadIs DEF Shape
  <2>3. t.mask + 1 < MaxSlots => u.size <= w
    BY <1>5, <1>6, <2>1, <2>2 DEF Loaded
  <2>4. QED
    BY <1>5, <2>1, <2>3 DEF Loaded
<1>8. b \in Block /\ b # NULL /\ b \in Members(t)
  BY <1>1, <1>2, PlaceIs, MembersAre
<1>9. /\ \A x \in DOMAIN t.stale : x \in Block /\ x # NULL /\ ~In(t, x)
      /\ IsFiniteSet(DOMAIN t.stale)
      /\ \A x \in M : In(t, x)
  BY StaleIs
<1>10. DOMAIN u.stale = DOMAIN t.stale \cup {b}
  BY <1>5 DEF OneMore
<1>11. /\ IsFiniteSet(DOMAIN u.stale)
       /\ \A x \in DOMAIN u.stale : x \in Block /\ x # NULL /\ ~In(u, x)
  BY <1>5, <1>8, <1>9, <1>10, FS_AddElement
<1>12. u = [size |-> u.size, mask |-> u.mask, chains |-> u.chains, stale |-> u.stale]
  BY <1>6 DEF Shape
<1>13. M1 = M \ {b}
  <2>1. \A x \in M : x[1] # k \/ x = b
    BY <1>1, <1>2, <1>9, OrderIs
  <2>2. QED
    BY <1>2, <2>1
<1>14. d = Collected(u, g.ep)
  BY <1>3
<1>15. Y \in [Block -> {0, 1}]
  BY DEF GenIs
<1>16. Y1 \in [Block -> {0, 1}]
  BY <1>15 DEF Remembered
<1>17. \A x \in Block : x \in Members(d) \/ x \in DOMAIN d.stale => Y1[x] = Y[x]
  BY DEF Remembered
<1>18. \A x \in Block : Y1[x] = Y[x] \/ (x \notin Members(d) /\ Y1[x] = 0)
  BY DEF Remembered
<1>19. CASE g = Idle
  <2>1. M = {} /\ Y = Nothing /\ d = Collected(u, NULL) /\ NULL \notin DOMAIN u.stale
    BY <1>11, <1>14, <1>19, IdleIs DEF GenIs
  <2>2. /\ d = [size |-> u.size, mask |-> u.mask, chains |-> u.chains, stale |-> d.stale]
        /\ DOMAIN d.stale = {}
    BY <1>11, <1>12, <2>1, CollectedAll
  <2>3. TabOK(d) /\ Loaded(d) /\ Members(d) = Members(u)
    BY <1>5, <1>7, <2>2, StaleTab
  <2>4. M1 = {} /\ Y1 = Nothing
    BY <2>1 DEF Remembered, Nothing
  <2>5. GenIs(d, g, M1, Y1)
    BY <1>16, <1>19, <2>2, <2>4 DEF GenIs
  <2>6. QED
    BY <1>5, <1>8, <1>13, <1>18, <2>3, <2>5
<1>20. CASE g # Idle
  <2>1. PICK p, k0, kg : Track(t, g, M, Y, p, k0, kg)
    BY <1>20 DEF GenIs
  <2>2. PICK q : Trails(u, g, M \ {b}, Y, q, k0, kg) /\ Leads(u, g.ep, q)
    BY <1>2, <1>4, <2>1, UnlinkTrails
  <2>3. /\ d = [size |-> u.size, mask |-> u.mask, chains |-> u.chains, stale |-> d.stale]
        /\ Kept(d, u, q)
    BY <1>11, <1>12, <1>14, <2>2, CollectedIs
  <2>4. TabOK(d) /\ Loaded(d) /\ Members(d) = Members(u)
    BY <1>5, <1>7, <2>3, StaleTab
  <2>5. \A x : In(u, x) \/ x \in DOMAIN d.stale => Y1[x] = Y[x]
    <3>1. \A x : In(u, x) => x \in Block /\ x \in Members(d)
      BY <1>6, <2>4, MembersAre
    <3>2. \A i \in 1..Len(q) - 1 : q[i] \in DOMAIN u.stale
      BY <2>2 DEF Leads
    <3>3. \A x \in DOMAIN d.stale : x \in Block
      BY <1>11, <2>3, <3>2 DEF Kept
    <3>4. QED
      BY <1>17, <3>1, <3>3
  <2>6. M1 \subseteq M \ {b}
    BY <1>13
  <2>7. Track(d, g, M1, Y1, q, k0, kg)
    BY <2>2, <2>3, <2>5, <2>6, TrailsKept
  <2>8. GenIs(d, g, M1, Y1)
    BY <1>16, <1>20, <2>7 DEF GenIs
  <2>9. QED
    BY <1>5, <1>8, <1>13, <1>18, <2>4, <2>8
<1>21. QED
  BY <1>19, <1>20

\* Where the generator goes on to.
LEMMA GoneTo ==
  ASSUME NEW t, Shape(t), NEW M, NEW Y, NEW g, GoesOn(t, g, M, Y), g # Idle
  PROVE  g.ep \in Block /\ Y[g.ep] = 1
<1>1. PICK p, k0, kg : Ahead(t, g, M, Y, p, k0, kg)
  BY DEF GoesOn
<1>2. Path(t, p) /\ p[1] = g.ep /\ g.ep \in Block
  BY <1>1 DEF Ahead, Stands
<1>3. PICK n : n = Len(p)
  OBVIOUS
<1>4. n \in Nat /\ n >= 1 /\ 1 \in 1..n
  BY <1>2, <1>3 DEF Path
<1>5. g.ep # NULL
  BY <1>2, HashIs
<1>6. QED
  BY <1>1, <1>2, <1>3, <1>4, <1>5 DEF Ahead

LEMMA GoneOn ==
  ASSUME NEW t, TabOK(t), Loaded(t), IsFiniteSet(DOMAIN t.stale),
         \A x \in DOMAIN t.stale : x \in Block /\ x # NULL /\ ~In(t, x),
         NEW M, NEW Y \in [Block -> {0, 1}], NEW g, GoesOn(t, g, M, Y), g # Idle,
         NEW d, d = Collected(t, g.ep), NEW M1, M1 = M \ {g.ep},
         NEW Y1 \in [Block -> {0, 1}],
         \A b \in Block : b \in Members(t) \cup DOMAIN d.stale /\ b # g.ep => Y1[b] = Y[b]
  PROVE  TabOK(d) /\ Loaded(d) /\ Members(d) = Members(t) /\ GenIs(d, g, M1, Y1)
<1>1. PICK p, k0, kg : Ahead(t, g, M, Y, p, k0, kg)
  BY DEF GoesOn
<1>2. Path(t, p) /\ p[1] = g.ep /\ g.ep \in Block
  BY <1>1 DEF Ahead, Stands
<1>3. Leads(t, g.ep, p)
  BY <1>2, PathLeads
<1>4. Shape(t)
  BY DEF TabOK
<1>5. t = [size |-> t.size, mask |-> t.mask, chains |-> t.chains, stale |-> t.stale]
  BY <1>4 DEF Shape
<1>6. /\ d = [size |-> t.size, mask |-> t.mask, chains |-> t.chains, stale |-> d.stale]
      /\ Kept(d, t, p)
  BY <1>3, <1>5, CollectedIs
<1>7. TabOK(d) /\ Loaded(d) /\ Members(d) = Members(t)
  BY <1>6, StaleTab
<1>8. \A b \in DOMAIN d.stale : b \in DOMAIN t.stale
  BY <1>3, <1>6 DEF Kept, Leads
<1>9. \A b : (In(t, b) \/ b \in DOMAIN d.stale) /\ b # g.ep => Y1[b] = Y[b]
  <2>1. \A b : In(t, b) => b \in Block /\ b \in Members(t)
    BY <1>4, MembersAre
  <2>2. QED
    BY <1>8, <2>1
<1>10. \A b \in M1 : b \in M /\ b # g.ep
  OBVIOUS
<1>11. Track(d, g, M1, Y1, p, k0, kg)
  BY <1>1, <1>4, <1>6, <1>9, <1>10, AheadTracks
<1>12. GenIs(d, g, M1, Y1)
  BY <1>11 DEF GenIs
<1>13. QED
  BY <1>7, <1>12

LEMMA StartStep ==
  ASSUME NEW t, TabOK(t), Loaded(t), DOMAIN t.stale = {}, NEW r, r = Hgfirst(t),
         NEW M1, M1 = Members(t) \ {r.ep},
         NEW Y1, Y1 = [b \in Block |-> IF b \in Members(t) \ {r.ep} THEN 1 ELSE 0]
  PROVE  /\ GenIs(t, r, M1, Y1)
         /\ r = Idle => Members(t) = {} /\ M1 = {} /\ Y1 = Nothing
         /\ r # Idle => r.ep \in Members(t)
<1>1. Shape(t)
  BY DEF TabOK
<1>2. PICK M : M = Members(t)
  OBVIOUS
<1>3. PICK Y : Y = [b \in Block |-> IF b \in M THEN 1 ELSE 0]
  OBVIOUS
<1>4. \A b : b \in M <=> In(t, b)
  BY <1>1, <1>2, MembersAre
<1>5. M \subseteq Block
  BY <1>1, <1>2, MembersAre
<1>6. \A b : In(t, b) => Y[b] = 1
  BY <1>3, <1>4, <1>5
<1>7. GoesOn(t, r, M, Y)
  BY <1>1, <1>4, <1>6, HgfirstIs
<1>8. Y1 \in [Block -> {0, 1}]
  OBVIOUS
<1>9. CASE r = Idle
  <2>1. M = {}
    BY <1>7, <1>9 DEF GoesOn
  <2>2. M1 = {} /\ Y1 = Nothing
    BY <1>2, <2>1 DEF Nothing
  <2>3. GenIs(t, r, M1, Y1)
    BY <1>8, <1>9, <2>2 DEF GenIs
  <2>4. QED
    BY <1>2, <1>9, <2>1, <2>2, <2>3
<1>10. CASE r # Idle
  <2>1. PICK p, k0, kg : Ahead(t, r, M, Y, p, k0, kg)
    BY <1>7, <1>10 DEF GoesOn
  <2>2. Path(t, p) /\ p[1] = r.ep /\ r.ep \in Block
    BY <2>1 DEF Ahead, Stands
  <2>3. PICK n : n = Len(p)
    OBVIOUS
  <2>4. n \in Nat /\ n >= 1 /\ ~(1 \in 1..n - 1)
    BY <2>2, <2>3 DEF Path
  <2>5. n = 1
    BY <2>4
  <2>6. 1..Len(p) - 1 = {}
    BY <2>3, <2>5
  <2>7. Kept(t, t, p)
    BY <2>6 DEF Kept
  <2>8. r.ep \in Members(t)
    BY <1>2, <1>4, <2>2, <2>3, <2>5, HashIs DEF Path
  <2>9. \A b : (In(t, b) \/ b \in DOMAIN t.stale) /\ b # r.ep => Y1[b] = Y[b]
    BY <1>2, <1>3, <1>4, <1>5
  <2>10. \A b \in M1 : b \in M /\ b # r.ep
    BY <1>2
  <2>11. Track(t, r, M1, Y1, p, k0, kg)
    BY <1>1, <2>1, <2>7, <2>9, <2>10, AheadTracks
  <2>12. GenIs(t, r, M1, Y1)
    BY <1>8, <1>10, <2>11 DEF GenIs
  <2>13. QED
    BY <1>10, <2>8, <2>12
<1>11. QED
  BY <1>9, <1>10

\* What may be produced after r: not that element again.
Resumed(Y, r, d) ==
  IF r = Idle THEN Nothing ELSE Remembered([Y EXCEPT ![r.ep] = @ - 1], d)
Produced(Y, Y1, x, d) ==
  \A e \in Block : Y1[e] = [Y EXCEPT ![x] = 0][e] \/ (e \notin Members(d) /\ Y1[e] = 0)

LEMMA ResumeStep ==
  ASSUME NEW t, TabOK(t), Loaded(t), NEW g, NEW M, NEW Y, GenIs(t, g, M, Y), g # Idle,
         NEW r, r = Hgnext(t, g), NEW d, d = Collected(t, r.ep), NEW M1, M1 = M \ {r.ep},
         NEW Y1, Y1 = Resumed(Y, r, d)
  PROVE  /\ TabOK(d) /\ Loaded(d) /\ Members(d) = Members(t) /\ GenIs(d, r, M1, Y1)
         /\ r = Idle => M = {} /\ M1 = {} /\ Y1 = Nothing
         /\ r # Idle => r.ep \in Block /\ Y[r.ep] = 1 /\ Produced(Y, Y1, r.ep, d)
<1>1. Shape(t)
  BY DEF TabOK
<1>2. PICK p, k0, kg : Track(t, g, M, Y, p, k0, kg)
  BY DEF GenIs
<1>3. GoesOn(t, r, M, Y)
  BY <1>1, <1>2, HgnextIs
<1>4. /\ \A x \in DOMAIN t.stale : x \in Block /\ x # NULL /\ ~In(t, x)
      /\ IsFiniteSet(DOMAIN t.stale)
  BY StaleIs
<1>5. Y \in [Block -> {0, 1}]
  BY DEF GenIs
<1>6. CASE r = Idle
  <2>1. M = {} /\ d = Collected(t, NULL) /\ NULL \notin DOMAIN t.stale
    BY <1>3, <1>4, <1>6, IdleIs DEF GoesOn
  <2>2. t = [size |-> t.size, mask |-> t.mask, chains |-> t.chains, stale |-> t.stale]
    BY <1>1 DEF Shape
  <2>3. /\ d = [size |-> t.size, mask |-> t.mask, chains |-> t.chains, stale |-> d.stale]
        /\ DOMAIN d.stale = {}
    BY <1>4, <2>1, <2>2, CollectedAll
  <2>4. TabOK(d) /\ Loaded(d) /\ Members(d) = Members(t)
    BY <2>3, StaleTab
  <2>5. M1 = {} /\ Y1 = Nothing /\ Y1 \in [Block -> {0, 1}]
    BY <1>6, <2>1 DEF Nothing, Resumed
  <2>6. GenIs(d, r, M1, Y1)
    BY <1>6, <2>3, <2>5 DEF GenIs
  <2>7. QED
    BY <1>6, <2>1, <2>4, <2>5, <2>6
<1>7. CASE r # Idle
  <2>1. r.ep \in Block /\ Y[r.ep] = 1
    BY <1>1, <1>3, <1>7, GoneTo
  <2>2. PICK Z : Z = [Y EXCEPT ![r.ep] = 0]
    OBVIOUS
  <2>3. Z \in [Block -> {0, 1}] /\ Z = [Y EXCEPT ![r.ep] = @ - 1]
    <3>1. Z \in [Block -> {0, 1}] /\ Z[r.ep] = 0 /\ \A e \in Block : e # r.ep => Z[e] = Y[e]
      BY <1>5, <2>1, <2>2
    <3>2. [Y EXCEPT ![r.ep] = Y[r.ep] - 1] = [Y EXCEPT ![r.ep] = 0]
      BY <2>1
    <3>3. QED
      BY <2>2, <3>1, <3>2
  <2>4. Y1 = Remembered(Z, d)
    BY <1>7, <2>3 DEF Resumed
  <2>5. Y1 \in [Block -> {0, 1}]
    BY <2>3, <2>4 DEF Remembered
  <2>6. \A e \in Block : Y1[e] = Z[e] \/ (e \notin Members(d) /\ Y1[e] = 0)
    BY <2>4 DEF Remembered
  <2>7. \A e \in Block : e \in Members(d) \cup DOMAIN d.stale => Y1[e] = Z[e]
    BY <2>4 DEF Remembered
  <2>8. Members(d) = Members(t)
    <3>1. d.chains = t.chains /\ d.mask = t.mask
      BY DEF Collected
    <3>2. QED
      BY <3>1 DEF Members
  <2>9. \A e \in Block : e \in Members(t) \cup DOMAIN d.stale /\ e # r.ep => Y1[e] = Y[e]
    BY <1>5, <2>1, <2>2, <2>7, <2>8
  <2>10. TabOK(d) /\ Loaded(d) /\ GenIs(d, r, M1, Y1)
    <3>1. PICK T, G, D, N, Y0, Y2 : T = t /\ G = r /\ D = d /\ N = M1 /\ Y0 = Y /\ Y2 = Y1
      OBVIOUS
    <3>2. /\ TabOK(T) /\ Loaded(T) /\ IsFiniteSet(DOMAIN T.stale)
          /\ \A x \in DOMAIN T.stale : x \in Block /\ x # NULL /\ ~In(T, x)
          /\ Y0 \in [Block -> {0, 1}] /\ GoesOn(T, G, M, Y0) /\ G # Idle
          /\ D = Collected(T, G.ep) /\ N = M \ {G.ep} /\ Y2 \in [Block -> {0, 1}]
      BY <1>3, <1>4, <1>5, <1>7, <2>5, <3>1
    <3>3. \A b \in Block : b \in Members(T) \cup DOMAIN D.stale /\ b # G.ep => Y2[b] = Y0[b]
      BY <2>9, <3>1
    <3>4. TabOK(D) /\ Loaded(D) /\ GenIs(D, G, N, Y2)
      BY <3>2, <3>3, GoneOn
    <3>5. QED
      BY <3>1, <3>4
  <2>11. Produced(Y, Y1, r.ep, d)
    BY <2>2, <2>6 DEF Produced
  <2>12. QED
    BY <1>7, <2>1, <2>8, <2>10, <2>11
<1>8. QED
  BY <1>6, <1>7

LEMMA AbandonStep ==
  ASSUME NEW t, TabOK(t), Loaded(t), NEW g, NEW M, NEW Y, GenIs(t, g, M, Y),
         NEW d, d = Collected(t, NULL)
  PROVE  TabOK(d) /\ Loaded(d) /\ Members(d) = Members(t) /\ GenIs(d, Idle, {}, Nothing)
<1>1. t = [size |-> t.size, mask |-> t.mask, chains |-> t.chains, stale |-> t.stale]
  BY DEF TabOK, Shape
<1>2. IsFiniteSet(DOMAIN t.stale) /\ NULL \notin DOMAIN t.stale
  BY StaleIs
<1>3. /\ d = [size |-> t.size, mask |-> t.mask, chains |-> t.chains, stale |-> d.stale]
      /\ DOMAIN d.stale = {}
  BY <1>1, <1>2, CollectedAll
<1>4. TabOK(d) /\ Loaded(d) /\ Members(d) = Members(t)
  BY <1>3, StaleTab
<1>5. Nothing \in [Block -> {0, 1}]
  BY DEF Nothing
<1>6. QED
  BY <1>3, <1>4, <1>5 DEF GenIs

LEMMA CopyStep ==
  ASSUME load \in Loading, NEW t, TabOK(t), Loaded(t), NEW M, NEW Y, GenIs(t, Idle, M, Y),
         NEW d, d = Shrunk(t)
  PROVE  TabOK(d) /\ Loaded(d) /\ GenIs(d, Idle, M, Y)
<1>1. SameAs(d, t) /\ Loaded(d)
  BY ShrunkIs
<1>2. QED
  BY <1>1 DEF SameAs, GenIs

LEMMA UnionStep ==
  ASSUME load \in Loading, NEW t, TabOK(t), Loaded(t), NEW M, NEW Y, GenIs(t, Idle, M, Y),
         NEW ys \in Seq(Key), Len(ys) <= t.size, NEW u, u = WithKeys(Shrunk(t), ys),
         NEW d, d = IF TooCrowded(u) THEN Grown(u) ELSE u
  PROVE  TabOK(d) /\ Loaded(d) /\ GenIs(d, Idle, M, Y)
<1>1. PICK s : s = Shrunk(t)
  OBVIOUS
<1>2. TabOK(s) /\ Loaded(s) /\ s.size = t.size /\ s.stale = t.stale
  BY <1>1, ShrunkIs DEF SameAs
<1>3. TabOK(u) /\ u.mask = s.mask /\ u.stale = s.stale /\ u.size <= s.size + Len(ys)
  BY <1>1, <1>2, WithKeysIs DEF Put
<1>4. u.mask + 1 < MaxSlots => u.size <= 2 * (MaxHLoad * (u.mask + 1))
  <2>1. PICK w, z, l : w = MaxHLoad * (u.mask + 1) /\ z = t.size /\ l = Len(ys)
    OBVIOUS
  <2>2. w \in Nat /\ z \in Nat /\ l \in Nat /\ l <= z /\ u.size \in Nat /\ u.size <= z + l
    BY <1>2, <1>3, <2>1, LoadIs DEF TabOK, Shape
  <2>3. u.mask + 1 < MaxSlots => z <= w
    BY <1>2, <1>3, <2>1 DEF Loaded
  <2>4. u.mask + 1 < MaxSlots => u.size <= 2 * w
    BY <2>2, <2>3
  <2>5. QED
    BY <2>1, <2>4
<1>5. TabOK(d) /\ Loaded(d) /\ d.stale = u.stale
  BY <1>3, <1>4, RelievedIs
<1>6. QED
  BY <1>2, <1>3, <1>5 DEF GenIs

LEMMA OperandsAre ==
  ASSUME NEW K \in SUBSET Key, NEW ks \in SetToSeqs(K)
  PROVE  ks \in Seq(Key) /\ Len(ks) = Cardinality(K)
<1>1. IsFiniteSet(K)
  BY KeyAssumption, FS_Subset
<1>2. Cardinality(K) \in Nat
  BY <1>1, FS_CardinalityType
<1>3. ks \in [1..Cardinality(K) -> K]
  BY DEF SetToSeqs
<1>4. QED
  BY <1>2, <1>3

LEMMA InitStep ==
  ASSUME load \in Loading, NEW K \in SUBSET Key, NEW n \in 0..MaxMake, Cardinality(K) <= n,
         NEW ks \in SetToSeqs(K), NEW u, u = WithKeys(Hmake(n), ks),
         NEW d, d = u \/ d = Shrunk(u)
  PROVE  TabOK(d) /\ Loaded(d) /\ GenIs(d, Idle, {}, Nothing)
<1>1. n \in Nat
  BY BoundsAssumption
<1>2. PICK t : t = Hmake(n)
  OBVIOUS
<1>3. TabOK(t) /\ t.size = 0 /\ t.stale = <<>>
  BY <1>1, <1>2, HmakeIs
<1>4. t.mask + 1 < MaxSlots => n <= MaxHLoad * (t.mask + 1)
  BY <1>1, <1>2, HmakeIs
<1>5. ks \in Seq(Key) /\ Len(ks) <= n /\ Len(ks) \in Nat
  BY OperandsAre
<1>6. TabOK(u) /\ u.mask = t.mask /\ u.stale = <<>> /\ u.size \in Nat /\ u.size <= n
  <2>1. Put(WithKeys(t, ks), t, Len(ks))
    BY <1>3, <1>5, WithKeysIs
  <2>2. u = WithKeys(t, ks)
    BY <1>2
  <2>3. PICK l : l = Len(ks)
    OBVIOUS
  <2>4. Put(u, t, l) /\ l \in Nat /\ l <= n
    BY <1>5, <2>1, <2>2, <2>3
  <2>5. TabOK(u) /\ u.mask = t.mask /\ u.stale = t.stale /\ u.size <= t.size + l
    BY <2>4 DEF Put
  <2>6. u.size \in Nat
    BY <2>5 DEF TabOK
  <2>7. QED
    BY <1>1, <1>3, <2>4, <2>5, <2>6
<1>7. Loaded(u)
  <2>1. PICK w : w = MaxHLoad * (t.mask + 1)
    OBVIOUS
  <2>2. w \in Nat
    BY <1>3, <2>1, LoadIs DEF TabOK, Shape
  <2>3. t.mask + 1 < MaxSlots => u.size <= w
    BY <1>1, <1>4, <1>6, <2>1, <2>2
  <2>4. QED
    BY <1>6, <2>1, <2>3 DEF Loaded
<1>8. TabOK(d) /\ Loaded(d) /\ d.stale = u.stale
  BY <1>6, <1>7, ShrunkIs DEF SameAs
<1>9. DOMAIN d.stale = {}
  BY <1>6, <1>8
<1>10. Nothing \in [Block -> {0, 1}]
  BY DEF Nothing
<1>11. QED
  BY <1>8, <1>9, <1>10 DEF GenIs

-----------------------------------------------------------------------------
(* Steps of the specification: what each does to the invariant, and to     *)
(* what Generation promises.                                               *)

LEMMA Keeps ==
  ASSUME IInv, NEW d, TabOK(d), Loaded(d), NEW g, NEW M, NEW Y, GenIs(d, g, M, Y),
         tab' = d, gen' = g, must' = M, may' = Y, load' = load
  PROVE  IInv'
<1>1. load' \in Loading
  BY DEF IInv
<1>2. TabOK(tab)'
  OBVIOUS
<1>3. Loaded(tab)'
  BY DEF Loaded, MaxHLoad
<1>4. GenIs(tab, gen, must, may)'
  OBVIOUS
<1>5. QED
  BY <1>1, <1>2, <1>3, <1>4 DEF IInv

LEMMA InitIs == Init => IInv /\ Elements!Init
<1> SUFFICES ASSUME Init PROVE IInv /\ Elements!Init
  OBVIOUS
<1>1. load \in Loading /\ gen = Idle /\ must = {} /\ may = Nothing
  BY DEF Init
<1>2. TabOK(tab) /\ Loaded(tab) /\ GenIs(tab, Idle, {}, Nothing)
  BY InitStep DEF Init
<1>3. IInv
  BY <1>1, <1>2 DEF IInv
<1>4. Members(tab) \subseteq Block
  BY <1>2, MembersAre DEF TabOK
<1>5. Elements!Init
  BY <1>1, <1>4 DEF Elements!Init, Elements!Nothing, Nothing
<1>6. QED
  BY <1>3, <1>5

LEMMA InsertIs ==
  ASSUME IInv, NEW k \in Key, Insert(k), load' = load
  PROVE  IInv' /\ \E e \in Block : Elements!Insert(e)
<1>1. PICK free : free = {i \in 1..MaxCopies : <<k, i>> \notin DOMAIN tab.stale}
  OBVIOUS
<1>2. PICK i : i = Min(free)
  OBVIOUS
<1>3. PICK u : u = Linked(tab, <<k, i>>)
  OBVIOUS
<1>4. /\ ~Found(tab, k) /\ free # {}
      /\ tab' = IF TooCrowded(u) THEN Grown(u) ELSE u
      /\ may' = IF gen = Idle THEN may ELSE [may EXCEPT ![<<k, i>>] = 1]
      /\ gen' = gen /\ must' = must
  BY <1>1, <1>2, <1>3 DEF Insert
<1>5. i \in free
  <2>1. free \in SUBSET Nat /\ free # {}
    BY <1>1, <1>4, BoundsAssumption
  <2>2. QED
    BY <1>2, <2>1, MinIn
<1>6. PICK b : b = <<k, i>>
  OBVIOUS
<1>7. i \in 1..MaxCopies /\ <<k, i>> \notin DOMAIN tab.stale
  BY <1>1, <1>5
<1>8. PICK t, g, M, Y : t = tab /\ g = gen /\ M = must /\ Y = may
  OBVIOUS
<1>9. load \in Loading /\ TabOK(t) /\ Loaded(t) /\ GenIs(t, g, M, Y)
  BY <1>8 DEF IInv
<1>10. PICK d, Y1 : d = tab' /\ Y1 = may'
  OBVIOUS
<1>11. /\ b \in Block /\ ~Found(t, b[1]) /\ b \notin DOMAIN t.stale /\ u = Linked(t, b)
       /\ d = IF TooCrowded(u) THEN Grown(u) ELSE u
       /\ Y1 = IF g = Idle THEN Y ELSE [Y EXCEPT ![b] = 1]
  BY <1>3, <1>4, <1>6, <1>7, <1>8, <1>10 DEF Block
<1>12. /\ TabOK(d) /\ Loaded(d) /\ GenIs(d, g, M, Y1)
       /\ b \notin Members(t) /\ Members(d) = Members(t) \cup {b}
  BY <1>9, <1>11, InsertStep
<1>13. IInv'
  BY <1>4, <1>8, <1>10, <1>12, Keeps
<1>14. Elements!Insert(b)
  <2>1. Members(tab)' = Members(tab) \cup {b}
    BY <1>8, <1>10, <1>12
  <2>2. b \notin Members(tab)
    BY <1>8, <1>12
  <2>3. (gen # Idle)' = (gen # Idle)
    BY <1>4
  <2>4. may' = IF gen # Idle THEN [may EXCEPT ![b] = 1] ELSE may
    BY <1>4, <1>6
  <2>5. QED
    BY <1>4, <2>1, <2>2, <2>3, <2>4 DEF Elements!Insert
<1>15. QED
  BY <1>11, <1>13, <1>14

LEMMA DeleteIs ==
  ASSUME IInv, NEW k \in Key, Delete(k), load' = load
  PROVE  IInv' /\ \E e \in Block : Elements!Delete(e)
<1>1. PICK t, g, M, Y : t = tab /\ g = gen /\ M = must /\ Y = may
  OBVIOUS
<1>2. PICK d, M1, Y1 : d = tab' /\ M1 = must' /\ Y1 = may'
  OBVIOUS
<1>3. load \in Loading /\ TabOK(t) /\ Loaded(t) /\ GenIs(t, g, M, Y)
  BY <1>1 DEF IInv
<1>4. Found(t, k) /\ d = Collected(Unlinked(t, k), g.ep) /\ gen' = gen
  BY <1>1, <1>2 DEF Delete
<1>5. M1 = {x \in M : x[1] # k}
  BY <1>1, <1>2 DEF Delete
<1>6. Y1 = Remembered(Y, d)
  BY <1>1, <1>2 DEF Delete
<1>7. /\ TabOK(d) /\ Loaded(d) /\ GenIs(d, g, M1, Y1)
      /\ \E b \in Members(t) : Members(d) = Members(t) \ {b} /\ M1 = M \ {b}
      /\ \A e \in Block : Y1[e] = Y[e] \/ (e \notin Members(d) /\ Y1[e] = 0)
  BY <1>3, <1>4, <1>5, <1>6, DeleteStep
<1>8. IInv'
  BY <1>1, <1>2, <1>4, <1>7, Keeps
<1>9. PICK b \in Members(t) : Members(d) = Members(t) \ {b} /\ M1 = M \ {b}
  BY <1>7
<1>10. b \in Block
  BY <1>3, <1>9, MembersAre DEF TabOK
<1>11. Elements!Delete(b)
  <2>1. Members(tab)' = Members(tab) \ {b} /\ b \in Members(tab) /\ must' = must \ {b}
    BY <1>1, <1>2, <1>9
  <2>2. (gen # Idle)' = (gen # Idle)
    BY <1>4
  <2>3. Y1 \in [Block -> {0, 1}]
    BY <1>7 DEF GenIs
  <2>4. DOMAIN may' = Block
    BY <1>2, <2>3
  <2>5. \A e \in Block : may'[e] = may[e] \/ (e \notin Members(tab)' /\ may'[e] = 0)
    BY <1>1, <1>2, <1>7
  <2>6. Elements!MayBe(may)
    BY <2>4, <2>5 DEF Elements!MayBe
  <2>7. QED
    BY <2>1, <2>2, <2>6 DEF Elements!Delete
<1>12. QED
  BY <1>8, <1>10, <1>11

LEMMA StartIs ==
  ASSUME IInv, Start, load' = load
  PROVE  IInv' /\ (Elements!Start \/ UNCHANGED Elements!vars)
<1>1. PICK t, g, M, Y : t = tab /\ g = gen /\ M = must /\ Y = may
  OBVIOUS
<1>2. PICK r, M1, Y1 : r = gen' /\ M1 = must' /\ Y1 = may'
  OBVIOUS
<1>3. load \in Loading /\ TabOK(t) /\ Loaded(t) /\ GenIs(t, g, M, Y)
  BY <1>1 DEF IInv
<1>4. g = Idle /\ r = Hgfirst(t) /\ M1 = Members(t) \ {r.ep} /\ tab' = tab
  BY <1>1, <1>2 DEF Start
<1>5. Y1 = [b \in Block |-> IF b \in Members(t) \ {r.ep} THEN 1 ELSE 0]
  BY <1>1, <1>2 DEF Start
<1>6. DOMAIN t.stale = {} /\ M = {} /\ Y = Nothing
  BY <1>3, <1>4 DEF GenIs
<1>7. /\ GenIs(t, r, M1, Y1)
      /\ r = Idle => Members(t) = {} /\ M1 = {} /\ Y1 = Nothing
      /\ r # Idle => r.ep \in Members(t)
  BY <1>3, <1>4, <1>5, <1>6, StartStep
<1>8. IInv'
  BY <1>1, <1>2, <1>3, <1>4, <1>7, Keeps
<1>9. Members(tab)' = Members(tab)
  BY <1>4
<1>10. CASE r = Idle
  <2>1. must' = must /\ may' = may
    BY <1>1, <1>2, <1>6, <1>7, <1>10
  <2>2. (gen # Idle)' = (gen # Idle)
    BY <1>1, <1>2, <1>4, <1>10
  <2>3. QED
    BY <1>8, <1>9, <2>1, <2>2 DEF Elements!vars
<1>11. CASE r # Idle
  <2>1. PICK e : e = r.ep
    OBVIOUS
  <2>2. e \in Members(tab) /\ must' = Members(tab) \ {e}
    BY <1>1, <1>2, <1>4, <1>7, <1>11, <2>1
  <2>3. may' = [b \in Block |-> IF b \in Members(tab) \ {e} THEN 1 ELSE 0]
    BY <1>1, <1>2, <1>5, <2>1
  <2>4. ~(gen # Idle) /\ (gen # Idle)' = TRUE
    BY <1>1, <1>2, <1>4, <1>11
  <2>5. Elements!Start
    BY <1>9, <2>2, <2>3, <2>4 DEF Elements!Start
  <2>6. QED
    BY <1>8, <2>5
<1>12. QED
  BY <1>10, <1>11

LEMMA ResumeIs ==
  ASSUME IInv, Resume, load' = load
  PROVE  IInv' /\ (Elements!End \/ \E e \in Block : Elements!Produce(e))
<1>1. PICK t, g, M, Y : t = tab /\ g = gen /\ M = must /\ Y = may
  OBVIOUS
<1>2. PICK r, d, M1, Y1 : r = gen' /\ d = tab' /\ M1 = must' /\ Y1 = may'
  OBVIOUS
<1>3. load \in Loading /\ TabOK(t) /\ Loaded(t) /\ GenIs(t, g, M, Y)
  BY <1>1 DEF IInv
<1>4. g # Idle /\ r = Hgnext(t, g) /\ d = Collected(t, r.ep) /\ M1 = M \ {r.ep}
  BY <1>1, <1>2 DEF Resume
<1>5. Y1 = Resumed(Y, r, d)
  BY <1>1, <1>2 DEF Resume, Resumed
<1>6. /\ TabOK(d) /\ Loaded(d) /\ Members(d) = Members(t) /\ GenIs(d, r, M1, Y1)
      /\ r = Idle => M = {} /\ M1 = {} /\ Y1 = Nothing
      /\ r # Idle => r.ep \in Block /\ Y[r.ep] = 1 /\ Produced(Y, Y1, r.ep, d)
  BY <1>3, <1>4, <1>5, ResumeStep
<1>7. IInv'
  BY <1>1, <1>2, <1>6, Keeps
<1>8. Members(tab)' = Members(tab) /\ gen # Idle
  BY <1>1, <1>2, <1>4, <1>6
<1>9. CASE r = Idle
  <2>1. must = {} /\ must' = must /\ may' = Nothing
    BY <1>1, <1>2, <1>6, <1>9
  <2>2. (gen # Idle)' = FALSE
    BY <1>2, <1>9
  <2>3. Elements!End
    BY <1>8, <2>1, <2>2 DEF Elements!End, Elements!Nothing, Nothing
  <2>4. QED
    BY <1>7, <2>3
<1>10. CASE r # Idle
  <2>1. PICK e : e = r.ep
    OBVIOUS
  <2>2. e \in Block /\ may[e] = 1 /\ must' = must \ {e}
    BY <1>1, <1>2, <1>4, <1>6, <1>10, <2>1
  <2>3. (gen # Idle)' = (gen # Idle)
    BY <1>1, <1>2, <1>4, <1>10
  <2>4. DOMAIN may' = Block
    BY <1>2, <1>6 DEF GenIs
  <2>5. \A x \in Block : \/ may'[x] = [may EXCEPT ![e] = 0][x]
                         \/ x \notin Members(tab)' /\ may'[x] = 0
    BY <1>1, <1>2, <1>6, <1>10, <2>1 DEF Produced
  <2>6. Elements!MayBe([may EXCEPT ![e] = 0])
    BY <2>4, <2>5 DEF Elements!MayBe
  <2>7. Elements!Produce(e)
    BY <1>8, <2>2, <2>3, <2>6 DEF Elements!Produce
  <2>8. QED
    BY <1>7, <2>2, <2>7
<1>11. QED
  BY <1>9, <1>10

LEMMA AbandonIs ==
  ASSUME IInv, Abandon, load' = load
  PROVE  IInv' /\ Elements!Abandon
<1>1. PICK t, g, M, Y, d : t = tab /\ g = gen /\ M = must /\ Y = may /\ d = tab'
  OBVIOUS
<1>2. TabOK(t) /\ Loaded(t) /\ GenIs(t, g, M, Y)
  BY <1>1 DEF IInv
<1>3. gen # Idle /\ gen' = Idle /\ d = Collected(t, NULL) /\ must' = {} /\ may' = Nothing
  BY <1>1 DEF Abandon
<1>4. TabOK(d) /\ Loaded(d) /\ Members(d) = Members(t) /\ GenIs(d, Idle, {}, Nothing)
  BY <1>2, <1>3, AbandonStep
<1>5. IInv'
  BY <1>1, <1>3, <1>4, Keeps
<1>6. Members(tab)' = Members(tab) /\ (gen # Idle)' = FALSE
  BY <1>1, <1>3, <1>4
<1>7. Elements!Abandon
  BY <1>3, <1>6 DEF Elements!Abandon, Elements!Nothing, Nothing
<1>8. QED
  BY <1>5, <1>7

\* The program goes on with d.
LEMMA ReplaceIs ==
  ASSUME IInv, gen = Idle, UNCHANGED <<gen, must, may>>, load' = load,
         NEW d, tab' = d, TabOK(d), Loaded(d), GenIs(d, Idle, must, may)
  PROVE  IInv' /\ Elements!Replace
<1>1. PICK M, Y : M = must /\ Y = may
  OBVIOUS
<1>2. GenIs(d, Idle, M, Y)
  BY <1>1
<1>3. IInv'
  BY <1>1, <1>2, Keeps
<1>4. Members(d) \subseteq Block
  BY MembersAre DEF TabOK
<1>5. Members(tab)' \subseteq Block /\ (gen # Idle)' = (gen # Idle)
  BY <1>4
<1>6. QED
  BY <1>3, <1>5 DEF Elements!Replace

LEMMA CopyIs ==
  ASSUME IInv, Copy, load' = load
  PROVE  IInv' /\ Elements!Replace
<1>1. PICK t, M, Y, d : t = tab /\ M = must /\ Y = may /\ d = tab'
  OBVIOUS
<1>2. gen = Idle /\ d = Shrunk(t) /\ UNCHANGED <<gen, must, may>>
  BY <1>1 DEF Copy
<1>3. load \in Loading /\ TabOK(t) /\ Loaded(t) /\ GenIs(t, Idle, M, Y)
  BY <1>1, <1>2 DEF IInv
<1>4. TabOK(d) /\ Loaded(d) /\ GenIs(d, Idle, M, Y)
  BY <1>2, <1>3, CopyStep
<1>5. QED
  BY <1>1, <1>2, <1>4, ReplaceIs

LEMMA UnionIs ==
  ASSUME IInv, NEW ys \in Operands, Union(ys), load' = load
  PROVE  IInv' /\ Elements!Replace
<1>1. PICK t, M, Y, d : t = tab /\ M = must /\ Y = may /\ d = tab'
  OBVIOUS
<1>2. PICK u : u = WithKeys(Shrunk(t), ys)
  OBVIOUS
<1>3. gen = Idle /\ Len(ys) <= t.size /\ UNCHANGED <<gen, must, may>>
  BY <1>1 DEF Union
<1>4. d = IF TooCrowded(u) THEN Grown(u) ELSE u
  BY <1>1, <1>2 DEF Union
<1>5. load \in Loading /\ TabOK(t) /\ Loaded(t) /\ GenIs(t, Idle, M, Y)
  BY <1>1, <1>3 DEF IInv
<1>6. ys \in Seq(Key)
  BY OperandsAre DEF Operands
<1>7. TabOK(d) /\ Loaded(d) /\ GenIs(d, Idle, M, Y)
  BY <1>2, <1>3, <1>4, <1>5, <1>6, UnionStep
<1>8. QED
  BY <1>1, <1>3, <1>7, ReplaceIs

LEMMA TypeIs ==
  ASSUME IInv
  PROVE  TypeOK
<1>1. PICK t, g, M, Y : t = tab /\ g = gen /\ M = must /\ Y = may
  OBVIOUS
<1>2. TabOK(t) /\ GenIs(t, g, M, Y)
  BY <1>1 DEF IInv
<1>3. Shape(t)
  BY <1>2 DEF TabOK
<1>4. \A b : b \in Members(t) <=> In(t, b)
  BY <1>3, MembersAre
<1>5. /\ \A b \in DOMAIN t.stale : b \in Block /\ b # NULL /\ ~In(t, b)
      /\ \A b \in M : In(t, b)
  BY <1>2, StaleIs
<1>6. tab.mask + 1 \in {Slots[i] : i \in 0..HSegs - 1}
  BY <1>1, <1>3 DEF Shape, IsSize, Top
<1>7. tab.chains \in [0..tab.mask -> Seq(Block)]
  BY <1>1, <1>3 DEF Shape
<1>8. /\ \A b \in DOMAIN t.stale : t.stale[b] \in Members(t) \cup DOMAIN t.stale \cup {NULL}
      /\ g = Idle \/ g.ep \in Members(t) \cup DOMAIN t.stale
  <2>1. CASE g = Idle
    BY <1>2, <2>1 DEF GenIs
  <2>2. CASE g # Idle
    <3>1. PICK p, k0, kg : Track(t, g, M, Y, p, k0, kg)
      BY <1>2, <2>2 DEF GenIs
    <3>2. /\ Path(t, p) /\ p[1] = g.ep /\ g.ep \in Block
          /\ \A b \in DOMAIN t.stale : \E i \in 1..Len(p) - 1 : p[i] = b
      BY <3>1 DEF Track, Trails, Stands
    <3>3. PICK n : n = Len(p)
      OBVIOUS
    <3>4. n \in Nat /\ n >= 1 /\ (p[n] # NULL => In(t, p[n]))
      BY <3>2, <3>3 DEF Path
    <3>5. \A i \in 1..n - 1 : p[i] \in DOMAIN t.stale /\ t.stale[p[i]] = p[i + 1]
      BY <3>2, <3>3 DEF Path
    <3>6. \A i \in 1..n : p[i] \in Members(t) \cup DOMAIN t.stale \cup {NULL}
      <4> SUFFICES ASSUME NEW i \in 1..n PROVE p[i] \in Members(t) \cup DOMAIN t.stale \cup {NULL}
        OBVIOUS
      <4>1. CASE i = n
        BY <1>4, <3>4, <4>1
      <4>2. CASE i # n
        <5>1. i \in 1..n - 1
          BY <3>4, <4>2
        <5>2. QED
          BY <3>5, <5>1
      <4>3. QED
        BY <4>1, <4>2
    <3>7. \A i \in 1..n - 1 : i + 1 \in 1..n
      BY <3>4
    <3>8. \A b \in DOMAIN t.stale : t.stale[b] \in Members(t) \cup DOMAIN t.stale \cup {NULL}
      BY <3>2, <3>3, <3>5, <3>6, <3>7
    <3>9. 1 \in 1..n /\ g.ep # NULL
      BY <3>2, <3>4, HashIs
    <3>10. g.ep \in Members(t) \cup DOMAIN t.stale
      BY <3>2, <3>6, <3>9
    <3>11. QED
      BY <3>8, <3>10
  <2>3. QED
    BY <2>1, <2>2
<1>9. \A b \in DOMAIN t.stale : b \in Block \ Members(t)
  BY <1>4, <1>5
<1>10. M \subseteq Members(t)
  BY <1>4, <1>5
<1>11. Y \in [Block -> {0, 1}]
  BY <1>2 DEF GenIs
<1>12. QED
  BY <1>1, <1>6, <1>7, <1>8, <1>9, <1>10, <1>11 DEF TypeOK

LEMMA FindableIs ==
  ASSUME IInv
  PROVE  Findable
<1>1. PICK t : t = tab
  OBVIOUS
<1>2. Shape(t)
  BY <1>1 DEF IInv, TabOK
<1>3. ASSUME NEW s \in 0..t.mask, NEW c, c = t.chains[s], NEW i \in 1..Len(c)
      PROVE  Hchain(t, Hash(c[i])) = s /\ Memb(t, c[i][1]) = i
  <2>1. ChainOK(c) /\ Within(c, c[i])
    BY <1>2, <1>3 DEF Shape, Within
  <2>2. PICK b : b = c[i]
    OBVIOUS
  <2>3. b \in Block /\ Hchain(t, Hash(b)) = s
    BY <1>2, <1>3, <2>1, <2>2, PlaceIs
  <2>4. PICK k : k = b[1]
    OBVIOUS
  <2>5. k \in Key /\ c = t.chains[Hchain(t, HashOf[k])]
    BY <1>3, <2>3, <2>4, HashIs
  <2>6. Found(t, k)
    BY <2>1, <2>2, <2>4, <2>5, MembIs
  <2>7. Memb(t, k) \in 1..Len(c) /\ c[Memb(t, k)][1] = k
    BY <2>1, <2>5, <2>6, MembIs
  <2>8. Memb(t, k) = i
    BY <1>3, <2>1, <2>2, <2>4, <2>7, ChainFacts
  <2>9. QED
    BY <2>2, <2>3, <2>4, <2>8
<1>4. QED
  BY <1>1, <1>3 DEF Findable

LEMMA SoundIs ==
  ASSUME IInv
  PROVE  Sound
<1>1. Counted
  BY DEF IInv, TabOK, Counted
<1>2. Uncrowded
  BY DEF IInv, Loaded, Uncrowded
<1>3. QED
  BY <1>1, <1>2, TypeIs, FindableIs DEF Sound

LEMMA Steps == IInv /\ [Next]_vars => IInv' /\ [Elements!Next]_Elements!vars
<1> SUFFICES ASSUME IInv, [Next]_vars PROVE IInv' /\ [Elements!Next]_Elements!vars
  OBVIOUS
<1>1. ASSUME NEW k \in Key, Insert(k), load' = load PROVE IInv' /\ Elements!Next
  BY <1>1, InsertIs DEF Elements!Next
<1>2. ASSUME NEW k \in Key, Delete(k), load' = load PROVE IInv' /\ Elements!Next
  BY <1>2, DeleteIs DEF Elements!Next
<1>3. ASSUME Start, load' = load PROVE IInv' /\ [Elements!Next]_Elements!vars
  BY <1>3, StartIs DEF Elements!Next
<1>4. ASSUME Resume, load' = load PROVE IInv' /\ Elements!Next
  BY <1>4, ResumeIs DEF Elements!Next
<1>5. ASSUME Abandon, load' = load PROVE IInv' /\ Elements!Next
  BY <1>5, AbandonIs DEF Elements!Next
<1>6. ASSUME Copy, load' = load PROVE IInv' /\ Elements!Next
  BY <1>6, CopyIs DEF Elements!Next
<1>7. ASSUME NEW ys \in Operands, Union(ys), load' = load PROVE IInv' /\ Elements!Next
  BY <1>7, UnionIs DEF Elements!Next
<1>8. CASE UNCHANGED vars
  <2>1. tab' = tab /\ gen' = gen /\ must' = must /\ may' = may /\ load' = load
    BY <1>8 DEF vars
  <2>2. PICK d, g, M, Y : d = tab /\ g = gen /\ M = must /\ Y = may
    OBVIOUS
  <2>3. TabOK(d) /\ Loaded(d) /\ GenIs(d, g, M, Y)
    BY <2>2 DEF IInv
  <2>4. IInv'
    BY <2>1, <2>2, <2>3, Keeps
  <2>5. Members(tab)' = Members(tab) /\ (gen # Idle)' = (gen # Idle)
    BY <2>1
  <2>6. QED
    BY <2>1, <2>4, <2>5 DEF Elements!vars
<1>9. CASE Next
  BY <1>1, <1>2, <1>3, <1>4, <1>5, <1>6, <1>7, <1>9 DEF Next, Step
<1>10. QED
  BY <1>8, <1>9

\* hgrow, hshrink, hmake, memb and their callers (oset.r, rstruct.r,
\* fstruct.r): what the members of a structure are is what its chains hold,
\* in their order, whatever a suspended generator has noted.
THEOREM TableInvariant == Spec => []IInv
  BY InitIs, Steps, PTL DEF Spec

(* However chains are split and merged, memb finds every element where it  *)
(* is, size counts them, and a structure is not left too crowded while     *)
(* segments can still be allocated (hmemb, hgrow, hshrink, hmake).         *)
THEOREM TableSound == Spec => []Sound
  BY TableInvariant, SoundIs, PTL

(* hgfirst and hgnext generate every element that stays in the structure   *)
(* exactly once, and one that is inserted or deleted meanwhile at most     *)
(* once, even if the chains are split between calls.                       *)
THEOREM EachElementOnce == Spec => ImplementsGeneration
<1>1. Init => Elements!Init
  BY InitIs
<1>2. QED
  BY <1>1, Steps, TableInvariant, PTL DEF Spec, ImplementsGeneration, Elements!Spec
=============================================================================
