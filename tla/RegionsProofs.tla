--------------------------- MODULE RegionsProofs ---------------------------
(***************************************************************************)
(* Proofs about Regions, for any sizes, requests, number of regions and    *)
(* memory: RegionsSound and AdvanceKept are invariants, reserve collects   *)
(* only when no region has room, and what programs see is an Arena.        *)
(***************************************************************************)
EXTENDS Regions, ProofLemmas, FiniteSetTheorems

-----------------------------------------------------------------------------
(* The chains.                                                             *)

Down(r) == [i \in 1..r |-> r - i + 1]
Up(r, k) == [i \in 1..(k - r + 1) |-> r + i - 1]
NextOf(k) == [r \in Region |-> IF r < k THEN r + 1 ELSE NULL]
PrevOf(k) == [r \in Region |-> IF r <= k THEN r - 1 ELSE NULL]

\* One step of a loop that has seen p.
Follow(link, p) ==
  IF p = <<>> \/ link[Last(p)] = NULL THEN p ELSE Append(p, link[Last(p)])

IsPath(f, link, r) ==
  f = [n \in 0..MaxRegions |->
         IF n = 0 THEN IF r = NULL THEN <<>> ELSE <<r>> ELSE Follow(link, f[n - 1])]

LEMMA AlongIs ==
  ASSUME NEW link, NEW r
  PROVE  Along(link, r) = (CHOOSE f : IsPath(f, link, r))[MaxRegions - 1]
  BY DEF Along, IsPath, Follow

\* The first n regions of q, or all of them.
Seen(q, n) == [i \in 1..(IF n < Len(q) THEN n ELSE Len(q)) |-> q[i]]

LEMMA SeenStep ==
  ASSUME NEW q \in Seq(Region), NEW link, NEW n \in Nat \ {0}, Len(q) # 0,
         \A i \in 1..(Len(q) - 1) : link[q[i]] = q[i + 1],
         link[q[Len(q)]] = NULL
  PROVE  Follow(link, Seen(q, n)) = Seen(q, n + 1)
<1>1. PICK L \in Nat : L = Len(q) /\ L # 0
  OBVIOUS
<1>2. PICK p : p = Seen(q, n)
  OBVIOUS
<1>3. NULL \notin Region
  BY SizesAssumption DEF NULL, Region
<1>4. CASE n < L
  <2>1. p = [i \in 1..n |-> q[i]]
    BY <1>1, <1>2, <1>4 DEF Seen
  <2>2. \A i \in 1..n : q[i] \in Region
    BY <1>1, <1>4
  <2>3. p \in Seq(Region) /\ Len(p) = n /\ p # <<>> /\ \A i \in 1..n : p[i] = q[i]
    <3>1. p \in Seq(Region) /\ Len(p) = n
      BY <2>1, <2>2
    <3>2. p # <<>>
      BY <3>1
    <3>3. QED
      BY <2>1, <3>1, <3>2
  <2>4. Last(p) = q[n]
    BY <2>3 DEF Last
  <2>5. link[Last(p)] = q[n + 1] /\ q[n + 1] \in Region
    BY <1>1, <1>4, <2>4
  <2>6. Follow(link, p) = Append(p, q[n + 1])
    BY <1>3, <2>3, <2>5 DEF Follow
  <2>7. Seen(q, n + 1) = [i \in 1..(n + 1) |-> q[i]]
    BY <1>1, <1>4 DEF Seen
  <2>8. Append(p, q[n + 1]) = [i \in 1..(n + 1) |-> q[i]]
    <3>1. PICK a : a = Append(p, q[n + 1])
      OBVIOUS
    <3>2. a \in Seq(Region) /\ Len(a) = n + 1 /\ \A i \in 1..(n + 1) : a[i] = q[i]
      BY <2>3, <2>5, <3>1
    <3>3. a = [i \in 1..(n + 1) |-> q[i]]
      BY <3>2
    <3>4. QED
      BY <3>1, <3>3
  <2>9. QED
    BY <1>2, <2>6, <2>7, <2>8
<1>5. CASE ~(n < L)
  <2>1. p = [i \in 1..L |-> q[i]] /\ Seen(q, n + 1) = [i \in 1..L |-> q[i]]
    BY <1>1, <1>2, <1>5 DEF Seen
  <2>2. p = q
    BY <1>1, <2>1
  <2>3. Last(p) = q[L]
    BY <1>1, <2>2 DEF Last
  <2>4. Follow(link, p) = p
    BY <1>1, <2>3 DEF Follow
  <2>5. QED
    BY <1>2, <2>1, <2>4
<1>6. QED
  BY <1>4, <1>5

\* A loop sees the regions of q when their links lead from each to the next.
LEMMA Walk ==
  ASSUME NEW q \in Seq(Region), NEW link, NEW r, Len(q) \in 1..MaxRegions, q[1] = r,
         \A i \in 1..(Len(q) - 1) : link[q[i]] = q[i + 1],
         link[q[Len(q)]] = NULL
  PROVE  Along(link, r) = q
<1>1. PICK M \in Nat : M = MaxRegions /\ M # 0
  BY SizesAssumption
<1>2. PICK g : g = [n \in 0..M |-> Seen(q, n + 1)]
  OBVIOUS
<1>3. PICK L \in Nat : L = Len(q) /\ L # 0 /\ L <= M
  BY <1>1
<1>4. r \in Region /\ r # NULL
  <2>1. q[1] \in Region
    BY <1>3
  <2>2. QED
    BY <2>1 DEF NULL, Region
<1>5. Seen(q, 1) = <<r>>
  BY <1>3 DEF Seen
<1>6. \A n \in Nat \ {0} : Follow(link, Seen(q, n)) = Seen(q, n + 1)
  <2> TAKE n \in Nat \ {0}
  <2>1. Len(q) # 0
    BY <1>3
  <2>2. QED
    BY <2>1, SeenStep
<1>7. \A n \in 0..M : g[n] = IF n = 0 THEN <<r>> ELSE Follow(link, g[n - 1])
  <2> SUFFICES ASSUME NEW n \in 0..M, n # 0 PROVE g[n] = Follow(link, g[n - 1])
    <3>1. 0 \in 0..M /\ 0 + 1 = 1
      OBVIOUS
    <3>2. g[0] = <<r>>
      BY <1>2, <1>5, <3>1
    <3>3. QED
      BY <3>2
  <2>1. PICK m \in Nat : m = n - 1 /\ m \in 0..M
    OBVIOUS
  <2>2. g[m] = Seen(q, n) /\ n \in Nat \ {0} /\ g[n] = Seen(q, n + 1)
    BY <1>2, <2>1
  <2>3. QED
    BY <1>6, <2>1, <2>2
<1>8. IsPath(g, link, r)
  <2>1. g = [n \in 0..M |-> IF n = 0 THEN <<r>> ELSE Follow(link, g[n - 1])]
    BY <1>2, <1>7
  <2>2. QED
    BY <1>1, <1>4, <2>1 DEF IsPath
<1>9. ASSUME NEW f, IsPath(f, link, r)
      PROVE  \A n \in 0..M : f[n] = g[n]
  <2>1. \A n \in 0..M : f[n] = IF n = 0 THEN <<r>> ELSE Follow(link, f[n - 1])
    BY <1>1, <1>4, <1>9 DEF IsPath
  <2>2. PICK S : S = {n \in Nat : n \in 0..M => f[n] = g[n]}
    OBVIOUS
  <2>3. 0 \in S
    BY <1>7, <2>1, <2>2
  <2>4. ASSUME NEW n \in S PROVE n + 1 \in S
    <3>1. n \in Nat
      BY <2>2
    <3>2. CASE n + 1 \in 0..M
      <4>1. n \in 0..M /\ n + 1 # 0 /\ (n + 1) - 1 = n
        BY <1>1, <3>1, <3>2
      <4>2. f[n] = g[n]
        BY <2>2, <4>1
      <4>3. f[n + 1] = Follow(link, f[n]) /\ g[n + 1] = Follow(link, g[n])
        BY <1>7, <2>1, <3>2, <4>1
      <4>4. QED
        BY <2>2, <3>1, <4>2, <4>3
    <3>3. CASE n + 1 \notin 0..M
      BY <2>2, <3>1, <3>3
    <3>4. QED
      BY <3>2, <3>3
  <2>5. S = Nat
    BY <2>2, <2>3, <2>4, Inductive
  <2>6. QED
    BY <2>2, <2>5
<1>10. Along(link, r) = g[M - 1]
  <2>1. PICK f : f = CHOOSE h : IsPath(h, link, r)
    OBVIOUS
  <2>2. IsPath(f, link, r)
    BY <1>8, <2>1
  <2>3. f[M - 1] = g[M - 1]
    BY <1>1, <1>9, <2>2
  <2>4. QED
    BY <1>1, <2>1, <2>3, AlongIs
<1>11. g[M - 1] = Seen(q, M)
  BY <1>1, <1>2
<1>12. Seen(q, M) = q
  <2>1. Seen(q, M) = [i \in 1..L |-> q[i]]
    BY <1>1, <1>3 DEF Seen
  <2>2. QED
    BY <1>3, <2>1
<1>13. QED
  BY <1>10, <1>11, <1>12

LEMMA AlongDown ==
  ASSUME NEW k \in Region, NEW r \in 1..k
  PROVE  Along(PrevOf(k), r) = Down(r)
<1>1. PICK q, M : q = Down(r) /\ M = MaxRegions
  OBVIOUS
<1>2. M \in Nat /\ M # 0 /\ k \in 1..M /\ r \in 1..M /\ Region = 1..M
  BY <1>1, SizesAssumption DEF Region
<1>3. q \in Seq(Region) /\ Len(q) = r /\ \A i \in 1..r : q[i] = r - i + 1
  BY <1>1, <1>2 DEF Down
<1>4. \A i \in 1..M : i <= k => PrevOf(k)[i] = i - 1
  BY <1>2 DEF PrevOf
<1>5. \A i \in 1..(Len(q) - 1) : PrevOf(k)[q[i]] = q[i + 1]
  <2> TAKE i \in 1..(Len(q) - 1)
  <2>1. q[i] = r - i + 1 /\ q[i + 1] = r - i /\ q[i] \in 1..M /\ q[i] <= k
    <3>1. i \in 1..r /\ i + 1 \in 1..r
      BY <1>2, <1>3
    <3>2. q[i] = r - i + 1 /\ q[i + 1] = r - (i + 1) + 1
      BY <1>3, <3>1
    <3>3. QED
      BY <1>2, <3>1, <3>2
  <2>2. QED
    BY <1>2, <1>4, <2>1
<1>6. PrevOf(k)[q[Len(q)]] = NULL
  <2>1. q[Len(q)] = 1
    BY <1>2, <1>3
  <2>2. QED
    BY <1>2, <1>4, <2>1 DEF NULL
<1>7. q[1] = r /\ Len(q) \in 1..MaxRegions
  BY <1>1, <1>2, <1>3
<1>8. Along(PrevOf(k), r) = q
  BY <1>3, <1>5, <1>6, <1>7, Walk
<1>9. QED
  BY <1>1, <1>8

LEMMA AlongUp ==
  ASSUME NEW k \in Region, NEW r \in 1..k
  PROVE  Along(NextOf(k), r) = Up(r, k)
<1>1. PICK q, M, L : q = Up(r, k) /\ M = MaxRegions /\ L = k - r + 1
  OBVIOUS
<1>2. M \in Nat /\ M # 0 /\ k \in 1..M /\ r \in 1..M /\ Region = 1..M /\ r <= k
  BY <1>1, SizesAssumption DEF Region
<1>3. L \in Nat /\ L # 0 /\ L <= M
  BY <1>1, <1>2
<1>4. q \in Seq(Region) /\ Len(q) = L /\ \A i \in 1..L : q[i] = r + i - 1
  BY <1>1, <1>2, <1>3 DEF Up
<1>5. \A i \in 1..M : NextOf(k)[i] = IF i < k THEN i + 1 ELSE NULL
  BY <1>2 DEF NextOf
<1>6. \A i \in 1..(Len(q) - 1) : NextOf(k)[q[i]] = q[i + 1]
  <2> TAKE i \in 1..(Len(q) - 1)
  <2>1. q[i] = r + i - 1 /\ q[i + 1] = r + i /\ q[i] \in 1..M /\ q[i] < k
    BY <1>1, <1>2, <1>3, <1>4
  <2>2. QED
    BY <1>2, <1>5, <2>1
<1>7. NextOf(k)[q[Len(q)]] = NULL
  <2>1. q[Len(q)] = k
    BY <1>1, <1>2, <1>3, <1>4
  <2>2. QED
    BY <1>2, <1>5, <2>1
<1>8. q[1] = r /\ Len(q) \in 1..MaxRegions
  BY <1>1, <1>2, <1>3, <1>4
<1>9. Along(NextOf(k), r) = q
  BY <1>4, <1>6, <1>7, <1>8, Walk
<1>10. QED
  BY <1>1, <1>9

\* What a concatenation is made of.
Joined(s, S, a, m, b, n) ==
  /\ s \in Seq(S) /\ Len(s) = m + n
  /\ \A i \in 1..m : s[i] = a[i]
  /\ \A i \in 1..n : s[m + i] = b[i]

LEMMA Concat ==
  ASSUME NEW S, NEW a \in Seq(S), NEW b \in Seq(S), NEW m \in Nat, NEW n \in Nat,
         Len(a) = m, Len(b) = n
  PROVE  Joined(a \o b, S, a, m, b, n)
  BY DEF Joined

\* A loop that goes one way and then the other comes to all of them.
All(s, k) ==
  s \in Seq(1..k) /\ Len(s) = k /\ \A x \in 1..k : \E i \in 1..k : s[i] = x

LEMMA DownUp ==
  ASSUME NEW k \in Nat, NEW r \in 1..k
  PROVE  All(Down(r) \o Tail(Up(r, k)), k)
<1>1. PICK d, u, t, s : /\ d = Down(r) /\ u = Up(r, k) /\ t = Tail(u) /\ s = d \o t
  OBVIOUS
<1>2. d \in Seq(1..k) /\ Len(d) = r /\ \A i \in 1..r : d[i] = r - i + 1
  BY <1>1 DEF Down
<1>3. u \in Seq(1..k) /\ Len(u) = k - r + 1 /\ \A i \in 1..(k - r + 1) : u[i] = r + i - 1
  BY <1>1 DEF Up
<1>4. t \in Seq(1..k) /\ Len(t) = k - r /\ \A i \in 1..(k - r) : t[i] = r + i
  BY <1>1, <1>3
<1>5. /\ s \in Seq(1..k) /\ Len(s) = k /\ \A i \in 1..r : s[i] = r - i + 1
      /\ \A i \in 1..(k - r) : s[r + i] = r + i
  <2>1. PICK m \in Nat : m = k - r
    OBVIOUS
  <2>2. /\ s \in Seq(1..k) /\ Len(s) = r + m /\ \A i \in 1..r : s[i] = d[i]
        /\ \A i \in 1..m : s[r + i] = t[i]
    <3>1. d \in Seq(1..k) /\ t \in Seq(1..k) /\ r \in Nat /\ Len(d) = r /\ Len(t) = m
      BY <1>2, <1>4, <2>1
    <3>2. Joined(s, 1..k, d, r, t, m)
      BY <1>1, <2>1, <3>1, Concat
    <3>3. QED
      BY <3>2 DEF Joined
  <2>3. r + m = k
    BY <2>1
  <2>4. QED
    BY <1>2, <1>4, <2>1, <2>2, <2>3
<1>6. ASSUME NEW x \in 1..k PROVE \E i \in 1..k : s[i] = x
  <2>1. CASE x <= r
    <3>1. r - x + 1 \in 1..r /\ r - x + 1 \in 1..k /\ r - (r - x + 1) + 1 = x
      BY <2>1
    <3>2. QED
      BY <1>5, <3>1
  <2>2. CASE r < x
    <3>1. x - r \in 1..(k - r) /\ r + (x - r) = x
      BY <2>2
    <3>2. QED
      BY <1>5, <3>1
  <2>3. QED
    BY <2>1, <2>2
<1>7. QED
  BY <1>1, <1>5, <1>6 DEF All

LEMMA UpDown ==
  ASSUME NEW k \in Nat, NEW r \in 1..k
  PROVE  All(Up(r, k) \o Tail(Down(r)), k)
<1>1. PICK d, u, t, s, L : /\ d = Down(r) /\ u = Up(r, k) /\ t = Tail(d) /\ s = u \o t
                           /\ L = k - r + 1
  OBVIOUS
<1>2. d \in Seq(1..k) /\ Len(d) = r /\ \A i \in 1..r : d[i] = r - i + 1
  BY <1>1 DEF Down
<1>3. L \in Nat /\ u \in Seq(1..k) /\ Len(u) = L /\ \A i \in 1..L : u[i] = r + i - 1
  BY <1>1 DEF Up
<1>4. t \in Seq(1..k) /\ Len(t) = r - 1 /\ \A i \in 1..(r - 1) : t[i] = r - i
  BY <1>1, <1>2
<1>5. /\ s \in Seq(1..k) /\ Len(s) = L + (r - 1) /\ \A i \in 1..L : s[i] = r + i - 1
      /\ \A i \in 1..(r - 1) : s[L + i] = r - i
  <2>1. PICK m \in Nat : m = r - 1
    OBVIOUS
  <2>2. /\ s \in Seq(1..k) /\ Len(s) = L + m /\ \A i \in 1..L : s[i] = u[i]
        /\ \A i \in 1..m : s[L + i] = t[i]
    <3>1. u \in Seq(1..k) /\ t \in Seq(1..k) /\ Len(u) = L /\ Len(t) = m
      BY <1>3, <1>4, <2>1
    <3>2. Joined(s, 1..k, u, L, t, m)
      BY <1>1, <1>3, <2>1, <3>1, Concat
    <3>3. QED
      BY <3>2 DEF Joined
  <2>3. QED
    BY <1>3, <1>4, <2>1, <2>2
<1>6. L + (r - 1) = k
  BY <1>1
<1>7. ASSUME NEW x \in 1..k PROVE \E i \in 1..k : s[i] = x
  <2>1. CASE r <= x
    <3>1. x - r + 1 \in 1..L /\ x - r + 1 \in 1..k /\ r + (x - r + 1) - 1 = x
      BY <1>1, <2>1
    <3>2. QED
      BY <1>5, <3>1
  <2>2. CASE x < r
    <3>1. r - x \in 1..(r - 1) /\ r - (r - x) = x /\ L + (r - x) \in 1..k
      BY <1>1, <2>2
    <3>2. QED
      BY <1>5, <3>1
  <2>3. QED
    BY <2>1, <2>2
<1>8. QED
  BY <1>1, <1>5, <1>6, <1>7 DEF All

-----------------------------------------------------------------------------
(* The invariant.                                                          *)

\* Regions are numbered as they are made, and the chains lead from each to its
\* neighbours, the global ones the other way.
Ring(k) ==
  /\ \A r \in Region : (size[r] # 0) <=> (r <= k)
  /\ next = NextOf(k) /\ prev = PrevOf(k) /\ Gnext = PrevOf(k) /\ Gprev = NextOf(k)
  /\ pcurr \in 1..k /\ rp \in 0..k /\ ahead.region \in 0..k

\* While reserve collects, nothing is reserved and there is a request to meet.
Asked ==
  /\ kind \in Kinds
  /\ pc = "idle" => nbytes = 0
  /\ pc # "idle" => nbytes \in Request /\ nbytes <= want /\ credit = 0 /\ ahead = NoBlock

\* What is got in advance is the last block of its region.
InAdvance ==
  /\ credit <= Gap(pcurr) /\ ~botched
  /\ result # NULL => kind = "Strings"
  /\ ahead # NoBlock => /\ kind = "Blocks" /\ ahead.region # NULL
                        /\ ahead.at + ahead.len = used[ahead.region]
                        /\ ahead.len <= live[ahead.region]

\* The loops of reserve leave no garbage behind, unless it cannot be collected.
Settled(r) == used[r] = live[r] \/ r \in stuck
Collected ==
  /\ pc = "large" => \A r \in Region : rp < r /\ want <= size[r] => Settled(r)
  /\ pc = "small" => \A r \in Region : rp < r \/ want <= size[r] => Settled(r)

Ringed == \E k \in Region : Ring(k)
IInv == TypeOK /\ Ringed /\ Asked /\ InAdvance /\ Collected

-----------------------------------------------------------------------------
(* What the loops find.                                                    *)

\* The first of the regions s that has room for n, or NULL.
FirstFit(s, n) ==
  LET T == {i \in 1..Len(s) : Gap(s[i]) >= n}
  IN IF T = {} THEN NULL ELSE s[Min(T)]

LEMMA FirstFits ==
  ASSUME NEW k \in Nat, NEW s, All(s, k), NEW n
  PROVE  /\ FirstFit(s, n) = NULL => \A r \in 1..k : ~(Gap(r) >= n)
         /\ FirstFit(s, n) # NULL => /\ FirstFit(s, n) \in 1..k
                                     /\ Gap(FirstFit(s, n)) >= n
<1>1. PICK T : T = {i \in 1..Len(s) : Gap(s[i]) >= n}
  OBVIOUS
<1>2. s \in Seq(1..k) /\ Len(s) = k /\ \A x \in 1..k : \E i \in 1..k : s[i] = x
  BY DEF All
<1>3. FirstFit(s, n) = IF T = {} THEN NULL ELSE s[Min(T)]
  BY <1>1 DEF FirstFit
<1>4. CASE T = {}
  <2>1. \A i \in 1..k : ~(Gap(s[i]) >= n)
    BY <1>1, <1>2, <1>4
  <2>2. QED
    BY <1>2, <1>3, <1>4, <2>1
<1>5. CASE T # {}
  <2>1. T \subseteq Nat
    BY <1>1
  <2>2. PICK i : i = Min(T) /\ i \in T
    BY <1>5, <2>1, MinIn
  <2>3. i \in 1..k /\ Gap(s[i]) >= n
    BY <1>1, <1>2, <2>2
  <2>4. s[i] \in 1..k /\ s[i] # NULL
    <3>1. s \in Seq(1..k) /\ Len(s) = k
      BY DEF All
    <3>2. i \in DOMAIN s
      BY <2>3, <3>1
    <3>3. s[i] \in 1..k
      BY <3>1, <3>2
    <3>4. QED
      BY <3>3 DEF NULL
  <2>5. QED
    BY <1>3, <1>5, <2>2, <2>3, <2>4
<1>6. QED
  BY <1>4, <1>5

LEMMA FindGap ==
  ASSUME NEW k \in Region, Ring(k), NEW curr \in 1..k, NEW n
  PROVE  /\ findgap(curr, n) = NULL => \A r \in 1..k : ~(Gap(r) >= n)
         /\ findgap(curr, n) # NULL => /\ findgap(curr, n) \in 1..k
                                       /\ Gap(findgap(curr, n)) >= n
<1>1. PICK s : s = Down(curr) \o Tail(Up(curr, k))
  OBVIOUS
<1>2. k \in Nat
  BY SizesAssumption DEF Region
<1>3. All(s, k)
  BY <1>1, <1>2, DownUp
<1>4. s = Along(prev, curr) \o Tail(Along(next, curr))
  BY <1>1, AlongDown, AlongUp DEF Ring
<1>5. findgap(curr, n) = FirstFit(s, n)
  <2>1. PICK T : T = {i \in 1..Len(s) : Gap(s[i]) >= n}
    OBVIOUS
  <2>2. findgap(curr, n) = IF (IF T # {} THEN Min(T) ELSE 0) = 0 THEN NULL
                           ELSE s[IF T # {} THEN Min(T) ELSE 0]
    BY <1>4, <2>1 DEF findgap, SelectInSeq
  <2>3. T \subseteq Nat \ {0}
    BY <2>1
  <2>4. T # {} => Min(T) # 0
    BY <2>3, MinIn
  <2>5. FirstFit(s, n) = IF T = {} THEN NULL ELSE s[Min(T)]
    BY <2>1 DEF FirstFit
  <2>6. QED
    BY <2>2, <2>4, <2>5
<1>6. QED
  BY <1>2, <1>3, <1>5, FirstFits

LEMMA NewestIs ==
  ASSUME NEW k \in Region, Ring(k)
  PROVE  Newest = k
<1>1. PICK q, r : q = Up(r, k) /\ r = pcurr /\ r \in 1..k
  BY DEF Ring
<1>2. k \in Nat
  BY SizesAssumption DEF Region
<1>3. Along(next, pcurr) = q
  BY <1>1, AlongUp DEF Ring
<1>4. Len(q) = k - r + 1 /\ \A i \in 1..(k - r + 1) : q[i] = r + i - 1
  BY <1>1, <1>2 DEF Up
<1>5. Last(q) = k
  BY <1>1, <1>2, <1>4 DEF Last
<1>6. QED
  BY <1>3, <1>5 DEF Newest

LEMMA MadeIs ==
  ASSUME NEW k \in Region, Ring(k)
  PROVE  Made = 1..k /\ Cardinality(Made) = k /\ k \in Nat
<1>1. k \in Nat /\ \A r \in Region : r \in 1..k <=> r <= k
  BY SizesAssumption DEF Region
<1>2. 1..k \subseteq Region
  BY SizesAssumption DEF Region
<1>3. Made = 1..k
  BY <1>1, <1>2 DEF Made, Ring
<1>4. Cardinality(1..k) = k
  BY <1>1, FS_Interval
<1>5. QED
  BY <1>1, <1>3, <1>4

\* The loops of findgap and of the collector come to every region once.
LEMMA Covers ==
  ASSUME NEW k \in Region, Ring(k)
  PROVE  ChainsCover
<1>1. PICK r \in 1..k : r = pcurr
  BY DEF Ring
<1>2. k \in Nat /\ Made = 1..k /\ Cardinality(Made) = k
  BY MadeIs
<1>3. \A s : All(s, k) => ToSet(s) = Made /\ Len(s) = Cardinality(Made)
  <2> SUFFICES ASSUME NEW s, All(s, k) PROVE ToSet(s) = 1..k /\ Len(s) = k
    BY <1>2
  <2>1. s \in Seq(1..k) /\ Len(s) = k /\ \A x \in 1..k : \E i \in 1..k : s[i] = x
    BY DEF All
  <2>2. DOMAIN s = 1..k
    BY <2>1
  <2>3. QED
    <3>1. \A i \in 1..k : s[i] \in 1..k
      <4>1. s \in Seq(1..k) /\ Len(s) = k
        BY <2>1
      <4>2. QED
        BY <4>1
    <3>2. ToSet(s) = {s[i] : i \in 1..k}
      BY <2>2 DEF ToSet
    <3>3. \A x : x \in ToSet(s) <=> x \in 1..k
      BY <2>1, <3>1, <3>2
    <3>4. ToSet(s) = 1..k
      BY <3>3
    <3>5. QED
      BY <2>1, <3>4
<1>4. All(Down(r) \o Tail(Up(r, k)), k) /\ All(Up(r, k) \o Tail(Down(r)), k)
  BY <1>2, DownUp, UpDown
<1>5. /\ Along(prev, pcurr) \o Tail(Along(next, pcurr)) = Down(r) \o Tail(Up(r, k))
      /\ Along(Gnext, pcurr) \o Tail(Along(Gprev, pcurr)) = Down(r) \o Tail(Up(r, k))
  BY <1>1, AlongDown, AlongUp DEF Ring
<1>6. QED
  BY <1>3, <1>4, <1>5 DEF ChainsCover

-----------------------------------------------------------------------------
(* The sizes that newregion asks for.                                      *)

Half(s, n) == (s + n) \div 2 - 1
Halved(f, n, least) ==
  f = [s \in Nat |-> IF s < least THEN {} ELSE {s} \cup f[Half(s, n)]]

LEMMA HalfLess ==
  ASSUME NEW n \in Nat \ {0}, NEW s \in Nat, n <= s
  PROVE  Half(s, n) \in Nat /\ Half(s, n) < s
<1>1. PICK h : h = (s + n) \div 2
  OBVIOUS
<1>2. h \in Int /\ 2 * h <= s + n /\ s + n < 2 * h + 2
  BY <1>1
<1>3. s + n >= 2 /\ s + n <= 2 * s
  OBVIOUS
<1>4. h >= 1 /\ h <= s
  BY <1>2, <1>3
<1>5. QED
  BY <1>1, <1>2, <1>4 DEF Half

\* There is such a function: its values are the least sets that have s and the
\* halves of what they have.
Closed(S, n, least) == \A y \in S : y >= least => Half(y, n) \in S
LeastClosed(s, n, least) ==
  {x \in Nat : x >= least /\ \A S \in SUBSET Nat : s \in S /\ Closed(S, n, least) => x \in S}

LEMMA HalvedExists ==
  ASSUME NEW n \in Nat \ {0}, NEW least \in Nat, n <= least
  PROVE  \E f : Halved(f, n, least)
<1>1. PICK f : f = [s \in Nat |-> LeastClosed(s, n, least)]
  OBVIOUS
<1>2. ASSUME NEW s \in Nat, s < least
      PROVE  LeastClosed(s, n, least) = {}
  <2>1. {s} \in SUBSET Nat /\ Closed({s}, n, least)
    BY <1>2 DEF Closed
  <2>2. \A x \in LeastClosed(s, n, least) : x \in {s} /\ x >= least
    BY <2>1 DEF LeastClosed
  <2>3. QED
    BY <1>2, <2>2
<1>3. ASSUME NEW s \in Nat, s >= least
      PROVE  LeastClosed(s, n, least) = {s} \cup LeastClosed(Half(s, n), n, least)
  <2>1. PICK h : h = Half(s, n)
    OBVIOUS
  <2>2. h \in Nat
    BY <1>3, <2>1, HalfLess
  <2>3. ASSUME NEW x \in LeastClosed(s, n, least), x # s
        PROVE  x \in LeastClosed(h, n, least)
    <3>1. x \in Nat /\ x >= least
      BY DEF LeastClosed
    <3>2. ASSUME NEW S \in SUBSET Nat, h \in S, Closed(S, n, least) PROVE x \in S
      <4>1. Closed(S \cup {s}, n, least)
        BY <2>1, <3>2 DEF Closed
      <4>2. S \cup {s} \in SUBSET Nat /\ s \in S \cup {s}
        OBVIOUS
      <4>3. x \in S \cup {s}
        BY <4>1, <4>2 DEF LeastClosed
      <4>4. QED
        BY <2>3, <4>3
    <3>3. QED
      BY <3>1, <3>2 DEF LeastClosed
  <2>4. s \in LeastClosed(s, n, least)
    BY <1>3 DEF LeastClosed
  <2>5. ASSUME NEW x \in LeastClosed(h, n, least)
        PROVE  x \in LeastClosed(s, n, least)
    <3>1. x \in Nat /\ x >= least
      BY DEF LeastClosed
    <3>2. ASSUME NEW S \in SUBSET Nat, s \in S, Closed(S, n, least) PROVE x \in S
      <4>1. h \in S
        BY <1>3, <2>1, <3>2 DEF Closed
      <4>2. QED
        BY <3>2, <4>1 DEF LeastClosed
    <3>3. QED
      BY <3>1, <3>2 DEF LeastClosed
  <2>6. QED
    BY <2>1, <2>3, <2>4, <2>5
<1>4. \A s \in Nat : f[s] = IF s < least THEN {} ELSE {s} \cup f[Half(s, n)]
  <2> TAKE s \in Nat
  <2>1. CASE s < least
    BY <1>1, <1>2, <2>1
  <2>2. CASE ~(s < least)
    <3>1. s >= least /\ n <= s
      BY <2>2
    <3>2. Half(s, n) \in Nat
      BY <3>1, HalfLess
    <3>3. QED
      BY <1>1, <1>3, <2>2, <3>1, <3>2
  <2>3. QED
    BY <2>1, <2>2
<1>5. f = [s \in Nat |-> IF s < least THEN {} ELSE {s} \cup f[Half(s, n)]]
  BY <1>1, <1>4
<1>6. QED
  BY <1>5 DEF Halved

LEMMA HalvedBound ==
  ASSUME NEW n \in Nat \ {0}, NEW least \in Nat, n <= least, NEW f, Halved(f, n, least)
  PROVE  \A s \in Nat : \A x \in f[s] : x \in Nat /\ x >= least
<1> DEFINE Fine(s) == \A x \in f[s] : x \in Nat /\ x >= least
<1>1. PICK T : T = {s \in Nat : ~Fine(s)}
  OBVIOUS
<1>2. \A s \in Nat : f[s] = IF s < least THEN {} ELSE {s} \cup f[Half(s, n)]
  BY DEF Halved
<1>3. ASSUME T # {} PROVE FALSE
  <2>1. PICK s \in T : \A y \in T : s <= y
    BY <1>1, <1>3, Minimum
  <2>2. s \in Nat /\ ~Fine(s)
    BY <1>1, <2>1
  <2>3. ~(s < least)
    BY <1>2, <2>2
  <2>4. Half(s, n) \in Nat /\ Half(s, n) < s
    BY <2>2, <2>3, HalfLess
  <2>5. Half(s, n) \notin T
    BY <2>1, <2>2, <2>4
  <2>6. Fine(Half(s, n))
    BY <1>1, <2>4, <2>5
  <2>7. f[s] = {s} \cup f[Half(s, n)]
    BY <1>2, <2>2, <2>3
  <2>8. QED
    BY <2>2, <2>3, <2>6, <2>7
<1>4. QED
  BY <1>1, <1>3

\* A region that is added has room for the request.
LEMMA SizesFit ==
  ASSUME NEW n \in Nat \ {0}, NEW stdsize \in Nat, n <= stdsize, NEW s \in Sizes(n, stdsize)
  PROVE  s \in Nat /\ n <= s
<1>1. PICK least : least = Max({MinAbrSize, n})
  OBVIOUS
<1>2. least \in Nat /\ n <= least
  BY <1>1, MaxTwo, SizesAssumption
<1>3. PICK f : f = CHOOSE g : Halved(g, n, least)
  OBVIOUS
<1>4. Halved(f, n, least)
  BY <1>2, <1>3, HalvedExists
<1>5. Sizes(n, stdsize) = {stdsize} \cup f[stdsize]
  BY <1>1, <1>3 DEF Sizes, Halved, Half
<1>6. \A x \in f[stdsize] : x \in Nat /\ x >= least
  BY <1>2, <1>4, HalvedBound
<1>7. QED
  BY <1>2, <1>5, <1>6

LEMMA Goals ==
  ASSUME NEW k \in Region, Ring(k), size \in [Region -> Nat], NEW n \in Nat \ {0}
  PROVE  /\ Cushion(n) \in Nat /\ n <= Cushion(n)
         /\ StdSize(n) \in Nat /\ n <= StdSize(n)
<1>1. PICK a : a = size[k] \div 100
  OBVIOUS
<1>2. a \in Nat
  <2>1. PICK z \in Nat : z = size[k]
    OBVIOUS
  <2>2. z \div 100 \in Nat
    OBVIOUS
  <2>3. QED
    BY <1>1, <2>1, <2>2
<1>3. PICK b, c : b = a * memcushion /\ c = a * memgrowth
  OBVIOUS
<1>4. b \in Nat /\ c \in Nat /\ MinAbrSize \in Nat
  BY <1>2, <1>3, SizesAssumption
<1>5. Cushion(n) = Max({b, n})
  BY <1>1, <1>3, NewestIs DEF Cushion
<1>6. StdSize(n) = Max({c, n, MinAbrSize})
  BY <1>1, <1>3, NewestIs DEF StdSize
<1>7. Cushion(n) \in Nat /\ n <= Cushion(n)
  BY <1>4, <1>5, MaxTwo
<1>8. StdSize(n) \in Nat /\ n <= StdSize(n)
  BY <1>4, <1>6, MaxThree
<1>9. QED
  BY <1>7, <1>8

-----------------------------------------------------------------------------
(* The steps of reserve.                                                   *)

LEMMA Links ==
  ASSUME NEW k \in Region
  PROVE  /\ NextOf(k) \in [Region -> Region \cup {NULL}]
         /\ PrevOf(k) \in [Region -> Region \cup {NULL}]
         /\ \A r \in 1..k : PrevOf(k)[r] = r - 1
         /\ k \in Nat /\ 1..k \subseteq Region /\ Region \subseteq Nat \ {0}
<1>1. PICK M \in Nat : Region = 1..M /\ k \in 1..M
  BY SizesAssumption DEF Region
<1>2. \A r \in 1..M : r < k => r + 1 \in 1..M
  BY <1>1
<1>3. \A r \in 1..M : r - 1 \in 0..M
  BY <1>1
<1>4. \A r \in 1..M : (IF r < k THEN r + 1 ELSE NULL) \in 1..M \cup {NULL}
  BY <1>2
<1>5. \A r \in 1..M : (IF r <= k THEN r - 1 ELSE NULL) \in 1..M \cup {NULL}
  BY <1>3 DEF NULL
<1>6. NextOf(k) \in [Region -> Region \cup {NULL}]
  BY <1>1, <1>4 DEF NextOf
<1>7. PrevOf(k) \in [Region -> Region \cup {NULL}]
  BY <1>1, <1>5 DEF PrevOf
<1>8. \A r \in 1..k : PrevOf(k)[r] = r - 1
  BY <1>1 DEF PrevOf
<1>9. QED
  BY <1>1, <1>6, <1>7, <1>8

LEMMA Unmade ==
  ASSUME TypeOK, NEW k \in Region, Ring(k), NEW r \in Region, k < r
  PROVE  size[r] = 0 /\ used[r] = 0 /\ live[r] = 0
<1>1. r \in Nat /\ k \in Nat
  BY Links
<1>2. size[r] = 0
  BY <1>1 DEF Ring
<1>3. used[r] \in Nat /\ live[r] \in Nat /\ live[r] <= used[r] /\ used[r] <= size[r]
  BY DEF TypeOK
<1>4. QED
  BY <1>2, <1>3

LEMMA ReserveKeeps ==
  ASSUME IInv, NEW n \in Request, Reserve(n), kind' = kind
  PROVE  IInv'
<1>1. PICK k \in Region : Ring(k)
  BY DEF IInv, Ringed
<1>2. /\ TypeOK /\ Asked /\ InAdvance /\ Collected
  BY DEF IInv
<1>3. /\ pc = "idle" /\ ahead = NoBlock /\ stuck' = {}
      /\ UNCHANGED <<size, used, live, chain, qualfail, ahead, result, botched>>
  BY DEF Reserve
<1>4. n \in Nat \ {0} /\ k \in Nat
  BY RequestAssumption, Links
<1>5. pcurr \in 1..k /\ pcurr \in Region /\ \A r \in 1..k : Gap(r) \in Int
  BY <1>1, <1>2, Links DEF Ring, TypeOK, Gap
<1>6. CASE Gap(pcurr) >= n /\ credit' = Max({credit, n}) /\ answer' = 0 /\ UNCHANGED <<pcurr, locals>>
  <2>1. credit' \in Nat /\ credit' <= Gap(pcurr)
    BY <1>2, <1>4, <1>5, <1>6, MaxTwo DEF TypeOK, InAdvance
  <2>2. TypeOK'
    BY <1>2, <1>3, <1>6, <2>1 DEF TypeOK, chain, locals
  <2>3. Ring(k)'
    BY <1>1, <1>3, <1>6 DEF Ring, chain, locals
  <2>4. Asked' /\ Collected'
    BY <1>2, <1>3, <1>6 DEF Asked, Collected, locals
  <2>5. InAdvance'
    BY <1>2, <1>3, <1>6, <2>1 DEF InAdvance, Gap
  <2>6. QED
    BY <2>2, <2>3, <2>4, <2>5 DEF IInv, Ringed
<1>7. CASE /\ Gap(pcurr) < n /\ findgap(pcurr, n) # NULL
           /\ pcurr' = findgap(pcurr, n) /\ credit' = n /\ answer' = 0 /\ UNCHANGED locals
  <2>1. pcurr' \in 1..k /\ pcurr' \in Region /\ Gap(pcurr') >= n
    BY <1>1, <1>5, <1>7, FindGap, Links
  <2>2. TypeOK'
    BY <1>2, <1>3, <1>4, <1>7, <2>1 DEF TypeOK, chain, locals
  <2>3. Ring(k)'
    BY <1>1, <1>3, <1>7, <2>1 DEF Ring, chain, locals
  <2>4. Asked' /\ Collected'
    BY <1>2, <1>3, <1>7 DEF Asked, Collected, locals
  <2>5. credit' <= Gap(pcurr')
    BY <1>4, <1>5, <1>7, <2>1
  <2>6. InAdvance'
    BY <1>2, <1>3, <1>7, <2>5 DEF InAdvance, Gap
  <2>7. QED
    BY <2>2, <2>3, <2>4, <2>6 DEF IInv, Ringed
<1>8. CASE /\ pc' = "large" /\ nbytes' = n /\ want' = Cushion(n) /\ rp' = Newest
           /\ credit' = 0 /\ UNCHANGED <<pcurr, answer>>
  <2>1. want' \in Nat /\ n <= want' /\ rp' = k
    BY <1>1, <1>2, <1>4, <1>8, Goals, NewestIs DEF TypeOK
  <2>2. TypeOK'
    BY <1>2, <1>3, <1>4, <1>8, <2>1 DEF TypeOK, chain
  <2>3. Ring(k)'
    BY <1>1, <1>3, <1>4, <1>8, <2>1 DEF Ring, chain
  <2>4. Asked'
    BY <1>2, <1>3, <1>8, <2>1 DEF Asked
  <2>5. Collected'
    <3>1. \A r \in Region : k < r => used'[r] = live'[r]
      BY <1>1, <1>2, <1>3, Unmade
    <3>2. QED
      BY <1>8, <2>1, <3>1 DEF Collected, Settled
  <2>6. InAdvance'
    <3>1. 0 <= Gap(pcurr)
      BY <1>2, <1>5 DEF TypeOK, Gap
    <3>2. QED
      BY <1>2, <1>3, <1>8, <3>1 DEF InAdvance, Gap
  <2>7. QED
    BY <2>2, <2>3, <2>4, <2>5, <2>6 DEF IInv, Ringed
<1>9. QED
  BY <1>6, <1>7, <1>8 DEF Reserve

\* What a collection of r does to the sizes.
LEMMA CollectTakes ==
  ASSUME TypeOK, NEW r \in Region, Collect(r)
  PROVE  /\ used' \in [Region -> Nat] /\ qualfail' \in BOOLEAN
         /\ \A q \in Region : live[q] <= used'[q] /\ used'[q] <= used[q]
         /\ \A q \in Region : q # r => used'[q] = used[q]
         /\ used'[r] = live[r] \/ r \in stuck'
         /\ stuck \subseteq stuck' /\ stuck' \subseteq Region
<1>1. qualfail' \in BOOLEAN
  BY DEF Collect
<1>2. \A q \in Region : used[q] \in Nat /\ live[q] \in Nat /\ live[q] <= used[q]
  BY DEF TypeOK
<1>3. CASE qualfail'
  BY <1>1, <1>2, <1>3 DEF Collect, TypeOK
<1>4. CASE ~qualfail'
  BY <1>1, <1>2, <1>4 DEF Collect, TypeOK
<1>5. QED
  BY <1>3, <1>4

LEMMA GiveKeeps ==
  ASSUME IInv, pc \in {"large", "small"}, rp # NULL, GiveWhenGoalMet,
         UNCHANGED <<kind, size, live, chain, ahead, result, botched>>
  PROVE  IInv'
<1>1. PICK k \in Region : Ring(k)
  BY DEF IInv, Ringed
<1>2. /\ TypeOK /\ Asked /\ InAdvance /\ Collected
  BY DEF IInv
<1>3. rp \in 1..k /\ rp \in Region /\ k \in Nat /\ rp \in Nat /\ prev[rp] = rp - 1
  BY <1>1, Links DEF Ring, NULL
<1>4. /\ used' \in [Region -> Nat] /\ qualfail' \in BOOLEAN
      /\ \A q \in Region : live[q] <= used'[q] /\ used'[q] <= used[q]
      /\ \A q \in Region : q # rp => used'[q] = used[q]
      /\ used'[rp] = live[rp] \/ rp \in stuck'
      /\ stuck \subseteq stuck' /\ stuck' \subseteq Region
  BY <1>2, <1>3, CollectTakes DEF GiveWhenGoalMet
<1>5. pcurr' = rp
  BY DEF GiveWhenGoalMet
<1>6. \A q \in Region : live[q] <= used'[q] /\ used'[q] <= size[q]
  <2> TAKE q \in Region
  <2>1. used'[q] \in Nat /\ used[q] \in Nat /\ size[q] \in Nat /\ used[q] <= size[q]
    BY <1>2, <1>4 DEF TypeOK
  <2>2. QED
    BY <1>4, <2>1
<1>7. nbytes \in Nat /\ want \in Nat /\ nbytes <= want /\ ahead = NoBlock
  BY <1>2 DEF TypeOK, Asked
<1>8. size[rp] \in Nat /\ used'[rp] \in Nat
  BY <1>2, <1>3, <1>4 DEF TypeOK
<1>9. CASE size[rp] - used'[rp] >= want
  <2>1. /\ pc' = "idle" /\ nbytes' = 0 /\ want' = 0 /\ rp' = NULL /\ answer' = 0
        /\ credit' = nbytes
    BY <1>9 DEF GiveWhenGoalMet, Return
  <2>2. TypeOK'
    BY <1>2, <1>3, <1>4, <1>5, <1>6, <1>7, <2>1 DEF TypeOK, chain
  <2>3. Ring(k)'
    BY <1>1, <1>3, <1>5, <2>1 DEF Ring, chain, NULL
  <2>4. Asked' /\ Collected'
    BY <1>2, <2>1 DEF Asked, Collected
  <2>5. credit' <= size[rp] - used'[rp]
    BY <1>7, <1>8, <1>9, <2>1
  <2>6. InAdvance'
    BY <1>2, <1>5, <1>7, <2>5 DEF InAdvance, Gap
  <2>7. QED
    BY <2>2, <2>3, <2>4, <2>6 DEF IInv, Ringed
<1>10. CASE ~(size[rp] - used'[rp] >= want)
  <2>1. rp' = prev[rp] /\ UNCHANGED <<pc, nbytes, want, answer, credit>>
    BY <1>10 DEF GiveWhenGoalMet
  <2>2. rp' = rp - 1 /\ rp' \in 0..k /\ rp' \in Region \cup {NULL}
    <3>1. prev[rp] \in Region \cup {NULL}
      BY <1>1, <1>3, Links DEF Ring
    <3>2. QED
      BY <1>3, <2>1, <3>1
  <2>3. TypeOK'
    BY <1>2, <1>3, <1>4, <1>5, <1>6, <2>1, <2>2 DEF TypeOK, chain
  <2>4. Ring(k)'
    BY <1>1, <1>3, <1>5, <2>1, <2>2 DEF Ring, chain
  <2>5. Asked'
    BY <1>2, <2>1 DEF Asked
  <2>6. \A r \in Region : Settled(r) \/ r = rp => Settled(r)'
    BY <1>4 DEF Settled
  <2>7. \A r \in Region : rp' < r => rp < r \/ r = rp
    <3>1. \A r \in Region : r \in Nat
      BY Links
    <3>2. QED
      BY <1>3, <2>2, <3>1
  <2>8. Collected'
    BY <1>2, <2>1, <2>6, <2>7 DEF Collected
  <2>9. InAdvance'
    <3>1. credit = 0 /\ 0 <= size[rp] - used'[rp]
      BY <1>2, <1>3, <1>6, <1>8 DEF Asked
    <3>2. QED
      BY <1>2, <1>5, <1>7, <2>1, <3>1 DEF InAdvance, Gap
  <2>10. QED
    BY <2>3, <2>4, <2>5, <2>8, <2>9 DEF IInv, Ringed
<1>11. QED
  BY <1>9, <1>10

LEMMA PassKeeps ==
  ASSUME IInv, rp # NULL, PassOver,
         (pc = "large" /\ ~(size[rp] >= want)) \/ (pc = "small" /\ ~(size[rp] < want)),
         UNCHANGED <<kind, size, live, chain, ahead, result, botched>>
  PROVE  IInv'
<1>1. PICK k \in Region : Ring(k)
  BY DEF IInv, Ringed
<1>2. /\ TypeOK /\ Asked /\ InAdvance /\ Collected
  BY DEF IInv
<1>3. rp \in 1..k /\ rp \in Region /\ k \in Nat /\ rp \in Nat /\ prev[rp] = rp - 1
  BY <1>1, Links DEF Ring, NULL
<1>4. UNCHANGED <<pcurr, used, qualfail, stuck, pc, nbytes, want, answer, credit>>
  BY DEF PassOver
<1>5. rp' = rp - 1 /\ rp' \in 0..k /\ rp' \in Region \cup {NULL}
  <2>1. prev[rp] \in Region \cup {NULL}
    BY <1>1, <1>3, Links DEF Ring
  <2>2. QED
    BY <1>3, <2>1 DEF PassOver
<1>6. TypeOK'
  BY <1>2, <1>4, <1>5 DEF TypeOK, chain
<1>7. Ring(k)'
  BY <1>1, <1>4, <1>5 DEF Ring, chain
<1>8. Asked' /\ InAdvance'
  BY <1>2, <1>4 DEF Asked, InAdvance, Gap
<1>9. Collected'
  <2>1. \A r \in Region : rp' < r => rp < r \/ r = rp
    <3>1. \A r \in Region : r \in Nat
      BY Links
    <3>2. QED
      BY <1>3, <1>5, <3>1
  <2>2. \A r \in Region : Settled(r)' <=> Settled(r)
    BY <1>4 DEF Settled
  <2>3. size[rp] \in Nat /\ want \in Nat
    BY <1>2, <1>3 DEF TypeOK
  <2>4. CASE pc = "large"
    <3>1. ~(want <= size[rp])
      BY <2>3, <2>4
    <3>2. QED
      BY <1>2, <1>4, <2>1, <2>2, <2>4, <3>1 DEF Collected
  <2>5. CASE pc = "small"
    <3>1. want <= size[rp]
      BY <2>3, <2>5
    <3>2. QED
      BY <1>2, <1>4, <2>1, <2>2, <2>5, <3>1 DEF Collected
  <2>6. QED
    BY <2>4, <2>5
<1>10. QED
  BY <1>6, <1>7, <1>8, <1>9 DEF IInv, Ringed

\* A region that is added is the newest of both chains.
LEMMA Added ==
  ASSUME TypeOK, NEW k \in Region, Ring(k), Made # Region, NEW b \in Nat \ {0}, AddRegion(b),
         rp' = NULL, UNCHANGED ahead
  PROVE  /\ k + 1 \in Region /\ Ring(k + 1)'
         /\ size' = [size EXCEPT ![k + 1] = b] /\ pcurr' = k + 1
<1>1. PICK M \in Nat : Region = 1..M /\ k \in 1..M
  BY SizesAssumption DEF Region
<1>2. k # M
  BY <1>1, MadeIs
<1>3. PICK c : c = k + 1
  OBVIOUS
<1>4. c \in 1..M /\ c # k /\ c - 1 = k /\ c \in Nat
  BY <1>1, <1>2, <1>3
<1>5. Cardinality(Made) + 1 = c /\ Newest = k
  BY <1>3, MadeIs, NewestIs
<1>6. /\ next = [r \in 1..M |-> IF r < k THEN r + 1 ELSE NULL]
      /\ prev = [r \in 1..M |-> IF r <= k THEN r - 1 ELSE NULL]
      /\ Gnext = prev /\ Gprev = next
  BY <1>1 DEF Ring, NextOf, PrevOf
<1>7. Gprev[k] = NULL
  BY <1>1, <1>6
<1>8. /\ size' = [size EXCEPT ![c] = b]
      /\ prev' = [prev EXCEPT ![c] = k]
      /\ next' = [next EXCEPT ![k] = c]
      /\ Gnext' = [Gnext EXCEPT ![c] = k]
      /\ Gprev' = [Gprev EXCEPT ![c] = NULL, ![k] = c]
      /\ pcurr' = c
  BY <1>5, <1>7 DEF AddRegion
<1>9. \A r \in 1..M : (IF r = c THEN k ELSE IF r <= k THEN r - 1 ELSE NULL)
                       = (IF r <= c THEN r - 1 ELSE NULL)
  <2> TAKE r \in 1..M
  <2>1. r \in Nat /\ k \in Nat /\ c = k + 1
    BY <1>1, <1>3
  <2>2. CASE r = c
    BY <1>4, <2>1, <2>2
  <2>3. CASE r # c
    <3>1. r <= k <=> r <= c
      BY <2>1, <2>3
    <3>2. QED
      BY <2>3, <3>1
  <2>4. QED
    BY <2>2, <2>3
<1>10. prev' = [r \in 1..M |-> IF r <= c THEN r - 1 ELSE NULL]
  BY <1>6, <1>8, <1>9
<1>11. Gnext' = prev'
  BY <1>6, <1>8
<1>12. \A r \in 1..M : (IF r = k THEN c ELSE IF r < k THEN r + 1 ELSE NULL)
                        = (IF r < c THEN r + 1 ELSE NULL)
  <2> TAKE r \in 1..M
  <2>1. r \in Nat /\ k \in Nat /\ c = k + 1
    BY <1>1, <1>3
  <2>2. CASE r = k
    <3>1. r < c /\ r + 1 = c
      BY <2>1, <2>2
    <3>2. QED
      BY <2>2, <3>1
  <2>3. CASE r # k
    <3>1. r < k <=> r < c
      BY <2>1, <2>3
    <3>2. QED
      BY <2>3, <3>1
  <2>4. QED
    BY <2>2, <2>3
<1>13. next' = [r \in 1..M |-> IF r < c THEN r + 1 ELSE NULL]
  BY <1>6, <1>8, <1>12
<1>14. next[c] = NULL
  BY <1>3, <1>4, <1>6
<1>15. Gprev' = next'
  <2>1. [next EXCEPT ![c] = NULL] = next
    BY <1>4, <1>6, <1>14
  <2>2. QED
    BY <1>6, <1>8, <2>1
<1>16. \A r \in Region : (size'[r] # 0) <=> (r <= c)
  <2> TAKE r \in Region
  <2>1. CASE r = c
    <3>1. size'[c] = b
      BY <1>1, <1>4, <1>8 DEF TypeOK
    <3>2. QED
      BY <1>4, <2>1, <3>1
  <2>2. CASE r # c
    <3>1. size'[r] = size[r]
      BY <1>8, <2>2 DEF TypeOK
    <3>2. (size[r] # 0) <=> (r <= k)
      BY DEF Ring
    <3>3. r <= k <=> r <= c
      BY <1>1, <1>3, <2>2
    <3>4. QED
      BY <3>1, <3>2, <3>3
  <2>3. QED
    BY <2>1, <2>2
<1>17. pcurr' \in 1..c /\ rp' \in 0..c /\ ahead'.region \in 0..c
  <2>1. ahead.region \in 0..k
    BY DEF Ring
  <2>2. QED
    BY <1>1, <1>3, <1>4, <1>8, <2>1 DEF NULL
<1>18. Ring(c)'
  BY <1>1, <1>10, <1>11, <1>13, <1>15, <1>16, <1>17 DEF Ring, NextOf, PrevOf
<1>19. QED
  BY <1>1, <1>3, <1>4, <1>8, <1>18

LEMMA GrowKeeps ==
  ASSUME IInv, Grow, kind' = kind
  PROVE  IInv'
<1>1. PICK k \in Region : Ring(k)
  BY DEF IInv, Ringed
<1>2. /\ TypeOK /\ Asked /\ InAdvance /\ Collected
  BY DEF IInv
<1>3. /\ pc = "large" /\ rp = NULL
      /\ UNCHANGED <<used, live, qualfail, ahead, result, botched, stuck>>
  BY DEF Grow
<1>4. /\ nbytes \in Nat \ {0} /\ want \in Nat /\ nbytes <= want
      /\ credit = 0 /\ ahead = NoBlock /\ k \in Nat
  BY <1>2, <1>3, RequestAssumption, Links DEF Asked, TypeOK
<1>5. ASSUME NEW s \in Sizes(nbytes, StdSize(nbytes)), Made # Region, AddRegion(s), Return(0)
      PROVE  IInv'
  <2>1. s \in Nat \ {0} /\ nbytes <= s
    <3>1. PICK n, z : n = nbytes /\ z = StdSize(nbytes) /\ s \in Sizes(n, z)
      OBVIOUS
    <3>2. n \in Nat \ {0} /\ z \in Nat /\ n <= z
      BY <1>1, <1>2, <1>4, <3>1, Goals DEF TypeOK
    <3>3. s \in Nat /\ n <= s
      BY <3>1, <3>2, SizesFit
    <3>4. QED
      BY <3>1, <3>2, <3>3
  <2>2. /\ pc' = "idle" /\ nbytes' = 0 /\ want' = 0 /\ rp' = NULL /\ answer' = 0
        /\ credit' = nbytes
    BY <1>5 DEF Return
  <2>3. PICK c : c = k + 1
    OBVIOUS
  <2>4. c \in Region /\ Ring(c)' /\ size' = [size EXCEPT ![c] = s] /\ pcurr' = c
    BY <1>1, <1>2, <1>3, <1>5, <2>1, <2>2, <2>3, Added
  <2>5. size[c] = 0 /\ used[c] = 0 /\ live[c] = 0
    BY <1>1, <1>2, <1>4, <2>3, <2>4, Unmade
  <2>6. /\ size' \in [Region -> Nat] /\ size'[c] = s
        /\ \A r \in Region : r # c => size'[r] = size[r]
    BY <1>2, <2>1, <2>4 DEF TypeOK
  <2>7. \A r \in Region : live[r] <= used[r] /\ used[r] <= size'[r]
    <3> TAKE r \in Region
    <3>1. live[r] <= used[r] /\ used[r] <= size[r]
      BY <1>2 DEF TypeOK
    <3>2. QED
      BY <2>1, <2>5, <2>6, <3>1
  <2>8. {next, prev, Gnext, Gprev}' \subseteq [Region -> Region \cup {NULL}]
    BY <2>4, Links DEF Ring
  <2>9. TypeOK'
    BY <1>2, <1>3, <1>4, <2>2, <2>4, <2>6, <2>7, <2>8 DEF TypeOK
  <2>10. Asked' /\ Collected'
    BY <1>2, <2>2 DEF Asked, Collected
  <2>11. InAdvance'
    <3>1. credit' <= size'[c] - used'[c]
      BY <1>3, <1>4, <2>1, <2>2, <2>5, <2>6
    <3>2. QED
      BY <1>2, <1>3, <1>4, <2>4, <3>1 DEF InAdvance, Gap
  <2>12. QED
    BY <2>4, <2>9, <2>10, <2>11 DEF IInv, Ringed
<1>6. ASSUME pc' = "small", rp' = Newest, UNCHANGED <<size, chain, pcurr, nbytes, want, answer, credit>>
      PROVE  IInv'
  <2>1. rp' = k
    BY <1>1, <1>6, NewestIs
  <2>2. TypeOK'
    BY <1>2, <1>3, <1>6, <2>1 DEF TypeOK, chain
  <2>3. Ring(k)'
    BY <1>1, <1>3, <1>4, <1>6, <2>1 DEF Ring, chain
  <2>4. Asked' /\ InAdvance'
    BY <1>2, <1>3, <1>6 DEF Asked, InAdvance, Gap
  <2>5. Collected'
    <3>1. \A r \in Region : k < r => Settled(r)
      BY <1>1, <1>2, Unmade DEF Settled
    <3>2. \A r \in Region : want <= size[r] => Settled(r)
      <4>1. \A r \in Region : rp < r
        BY <1>3, Links DEF NULL
      <4>2. QED
        BY <1>2, <1>3, <4>1 DEF Collected
    <3>3. \A r \in Region : Settled(r)' <=> Settled(r)
      BY <1>3 DEF Settled
    <3>4. QED
      BY <1>6, <2>1, <3>1, <3>2, <3>3 DEF Collected
  <2>6. QED
    BY <2>2, <2>3, <2>4, <2>5 DEF IInv, Ringed
<1>7. QED
  BY <1>5, <1>6 DEF Grow

LEMMA SearchKeeps ==
  ASSUME IInv, Search, kind' = kind
  PROVE  IInv'
<1>1. PICK k \in Region : Ring(k)
  BY DEF IInv, Ringed
<1>2. /\ TypeOK /\ Asked /\ InAdvance /\ Collected
  BY DEF IInv
<1>3. /\ pc = "small" /\ rp = NULL
      /\ UNCHANGED <<size, used, live, chain, qualfail, ahead, result, botched, stuck>>
  BY DEF Search
<1>4. /\ nbytes \in Nat /\ credit = 0 /\ ahead = NoBlock /\ k \in Nat /\ pcurr \in Region
  BY <1>2, <1>3, Links DEF Asked, TypeOK
<1>5. PICK r : r = findgap(Newest, nbytes)
  OBVIOUS
<1>6. \A q \in Region : 0 <= Gap(q)
  BY <1>2 DEF Gap, TypeOK
<1>7. r # NULL => r \in 1..k /\ r \in Region /\ Gap(r) >= nbytes
  <2>1. Newest = k /\ k \in 1..k
    BY <1>1, <1>4, NewestIs, Links
  <2>2. QED
    BY <1>1, <1>5, <2>1, FindGap, Links
<1>8. \E a \in {0, 304, 306, 307} : /\ Return(a)
                                   /\ \/ a = 0 /\ r # NULL /\ pcurr' = r
                                      \/ a # 0 /\ UNCHANGED pcurr
  <2>1. CASE r # NULL
    BY <1>5, <2>1 DEF Search
  <2>2. CASE r = NULL
    BY <1>5, <2>2 DEF Search, GiveUp
  <2>3. QED
    BY <2>1, <2>2
<1>9. PICK a \in {0, 304, 306, 307} : /\ Return(a)
                                     /\ \/ a = 0 /\ r # NULL /\ pcurr' = r
                                        \/ a # 0 /\ UNCHANGED pcurr
  BY <1>8
<1>10. /\ pc' = "idle" /\ nbytes' = 0 /\ want' = 0 /\ rp' = NULL /\ answer' = a
       /\ credit' = IF a = 0 THEN nbytes ELSE 0
  BY <1>9 DEF Return
<1>11. pcurr' \in 1..k /\ pcurr' \in Region
  BY <1>1, <1>4, <1>7, <1>9 DEF Ring
<1>12. TypeOK'
  BY <1>2, <1>3, <1>4, <1>10, <1>11 DEF TypeOK, chain
<1>13. Ring(k)'
  BY <1>1, <1>3, <1>4, <1>10, <1>11 DEF Ring, chain, NULL
<1>14. Asked' /\ Collected'
  BY <1>2, <1>10 DEF Asked, Collected
<1>15. credit' <= Gap(pcurr')
  <2>1. Gap(pcurr') \in Int
    BY <1>2, <1>11 DEF Gap, TypeOK
  <2>2. CASE a = 0
    BY <1>4, <1>7, <1>9, <1>10, <2>1, <2>2
  <2>3. CASE a # 0
    BY <1>6, <1>10, <1>11, <2>3
  <2>4. QED
    BY <2>2, <2>3
<1>16. InAdvance'
  BY <1>2, <1>3, <1>15 DEF InAdvance, Gap
<1>17. QED
  BY <1>12, <1>13, <1>14, <1>16 DEF IInv, Ringed

-----------------------------------------------------------------------------
(* The steps of the program.                                               *)

\* n bytes are taken from the current region.
LEMMA BumpKeeps ==
  ASSUME IInv, NEW n \in Request, pc = "idle", Gap(pcurr) >= n, Bump(n),
         ahead = NoBlock,
         UNCHANGED <<kind, size, chain, pcurr, locals, qualfail, answer, result, botched, stuck>>,
         \/ UNCHANGED ahead
         \/ kind = "Blocks" /\ ahead' = [region |-> pcurr, at |-> used[pcurr], len |-> n]
  PROVE  IInv'
<1>1. PICK k \in Region : Ring(k)
  BY DEF IInv, Ringed
<1>2. /\ TypeOK /\ Asked /\ InAdvance /\ Collected
  BY DEF IInv
<1>3. n \in Nat \ {0} /\ pcurr \in 1..k /\ pcurr \in Region /\ k \in Nat /\ NULL \notin Region
  BY <1>1, RequestAssumption, Links DEF Ring, NULL
<1>4. PICK u, l, z \in Nat : u = used[pcurr] /\ l = live[pcurr] /\ z = size[pcurr]
  BY <1>2, <1>3 DEF TypeOK
<1>5. l <= u /\ u <= z /\ z - u >= n /\ credit <= z - u /\ credit \in Nat
  BY <1>2, <1>3, <1>4 DEF TypeOK, InAdvance, Gap
<1>6. /\ used' = [used EXCEPT ![pcurr] = u + n] /\ live' = [live EXCEPT ![pcurr] = l + n]
      /\ credit' = Max({credit - n, 0})
  BY <1>4 DEF Bump
<1>7. credit' \in Nat /\ credit' <= z - (u + n)
  <2>1. PICK m : m = credit - n
    OBVIOUS
  <2>2. m \in Int /\ m <= z - (u + n) /\ 0 <= z - (u + n)
    BY <1>3, <1>4, <1>5, <2>1
  <2>3. \E x \in {m, 0} : \A y \in {m, 0} : x >= y
    BY <2>2
  <2>4. credit' \in {m, 0} /\ \A y \in {m, 0} : credit' >= y
    BY <1>6, <2>1, <2>3 DEF Max
  <2>5. QED
    BY <2>2, <2>4
<1>8. /\ used' \in [Region -> Nat] /\ live' \in [Region -> Nat]
      /\ used'[pcurr] = u + n /\ live'[pcurr] = l + n
      /\ \A r \in Region : r # pcurr => used'[r] = used[r] /\ live'[r] = live[r]
  BY <1>2, <1>3, <1>4, <1>6 DEF TypeOK
<1>9. \A r \in Region : live'[r] <= used'[r] /\ used'[r] <= size'[r]
  <2> TAKE r \in Region
  <2>1. CASE r = pcurr
    BY <1>3, <1>4, <1>5, <1>8, <2>1
  <2>2. CASE r # pcurr
    BY <1>2, <1>8, <2>2 DEF TypeOK
  <2>3. QED
    BY <2>1, <2>2
<1>10. /\ ahead' \in [region : Region \cup {NULL}, at : Nat, len : Nat]
       /\ ahead'.region \in 0..k
  <2>1. CASE UNCHANGED ahead
    BY <1>1, <1>2, <2>1 DEF TypeOK, Ring
  <2>2. CASE ahead' = [region |-> pcurr, at |-> used[pcurr], len |-> n]
    BY <1>3, <1>4, <2>2
  <2>3. QED
    BY <2>1, <2>2
<1>11. TypeOK'
  BY <1>2, <1>3, <1>7, <1>8, <1>9, <1>10 DEF TypeOK, chain, locals
<1>12. Ring(k)'
  BY <1>1, <1>10 DEF Ring, chain, locals
<1>13. Asked' /\ Collected'
  BY <1>2 DEF Asked, Collected, locals
<1>14. InAdvance'
  <2>1. credit' <= Gap(pcurr)'
    BY <1>4, <1>7, <1>8 DEF Gap
  <2>2. ~botched' /\ (result' # NULL => kind' = "Strings")
    BY <1>2 DEF InAdvance
  <2>3. CASE UNCHANGED ahead
    BY <2>1, <2>2, <2>3 DEF InAdvance
  <2>4. CASE kind = "Blocks" /\ ahead' = [region |-> pcurr, at |-> used[pcurr], len |-> n]
    <3>1. /\ ahead'.region = pcurr /\ ahead'.region # NULL
          /\ ahead'.at + ahead'.len = used'[pcurr] /\ ahead'.len <= live'[pcurr]
      BY <1>3, <1>4, <1>8, <2>4
    <3>2. QED
      BY <2>1, <2>2, <2>4, <3>1 DEF InAdvance
  <2>5. QED
    BY <2>3, <2>4
<1>15. QED
  BY <1>11, <1>12, <1>13, <1>14 DEF IInv, Ringed

LEMMA AllocateKeeps ==
  ASSUME IInv, NEW n \in Request, kind' = kind, Allocate(n) \/ AllocateAhead(n) \/ Piece(n)
  PROVE  IInv'
<1>1. CASE Allocate(n)
  <2>1. pc = "idle" /\ Gap(pcurr) >= n /\ Bump(n) /\ ahead = NoBlock /\ UNCHANGED ahead
    BY <1>1 DEF Allocate
  <2>2. UNCHANGED <<kind, size, chain, pcurr, locals, qualfail, answer, result, botched, stuck>>
    BY <1>1 DEF Allocate
  <2>3. QED
    BY <2>1, <2>2, BumpKeeps
<1>2. CASE AllocateAhead(n)
  <2>1. pc = "idle" /\ Gap(pcurr) >= n /\ Bump(n) /\ ahead = NoBlock
    BY <1>2 DEF AllocateAhead
  <2>2. kind = "Blocks" /\ ahead' = [region |-> pcurr, at |-> used[pcurr], len |-> n]
    BY <1>2 DEF AllocateAhead
  <2>3. UNCHANGED <<kind, size, chain, pcurr, locals, qualfail, answer, result, botched, stuck>>
    BY <1>2 DEF AllocateAhead
  <2>4. QED
    BY <2>1, <2>2, <2>3, BumpKeeps
<1>3. CASE Piece(n)
  <2>1. pc = "idle" /\ Gap(pcurr) >= n /\ Bump(n) /\ UNCHANGED ahead
    BY <1>3 DEF Piece
  <2>2. ahead = NoBlock
    BY <1>3 DEF Piece, IInv, InAdvance
  <2>3. UNCHANGED <<kind, size, chain, pcurr, locals, qualfail, answer, result, botched, stuck>>
    BY <1>3 DEF Piece
  <2>4. QED
    BY <2>1, <2>2, <2>3, BumpKeeps
<1>4. QED
  BY <1>1, <1>2, <1>3

LEMMA HoldKeeps ==
  ASSUME IInv, Keep \/ Build \/ Built, kind' = kind
  PROVE  IInv'
<1>1. PICK k \in Region : Ring(k)
  BY DEF IInv, Ringed
<1>2. /\ TypeOK /\ Asked /\ InAdvance /\ Collected
  BY DEF IInv
<1>3. UNCHANGED <<size, used, live, chain, pcurr, locals, qualfail, answer, credit, botched, stuck>>
  BY DEF Keep, Build, Built
<1>4. /\ ahead' \in {ahead, NoBlock} /\ result' \in {result, pcurr, NULL}
      /\ result' # NULL => result # NULL \/ kind = "Strings"
  BY DEF Keep, Build, Built
<1>5. NoBlock.region = NULL /\ NULL = 0 /\ NoBlock \in [region : Region \cup {NULL}, at : Nat, len : Nat]
  BY DEF NoBlock, NULL
<1>6. TypeOK'
  BY <1>2, <1>3, <1>4, <1>5 DEF TypeOK, chain, locals
<1>7. Ring(k)'
  <2>1. ahead'.region \in 0..k
    BY <1>1, <1>4, <1>5, Links DEF Ring
  <2>2. QED
    BY <1>1, <1>3, <2>1 DEF Ring, chain, locals
<1>8. Asked' /\ Collected'
  BY <1>2, <1>3, <1>4 DEF Asked, Collected, Settled, locals
<1>9. InAdvance'
  BY <1>2, <1>3, <1>4 DEF InAdvance, Gap
<1>10. QED
  BY <1>6, <1>7, <1>8, <1>9 DEF IInv, Ringed

LEMMA DeallocateKeeps ==
  ASSUME IInv, deallocate, kind' = kind
  PROVE  IInv' /\ (\E q \in Region : \A r \in Region :
                      IF r = q THEN live'[r] <= live[r] ELSE live'[r] = live[r])
<1>1. PICK k \in Region : Ring(k)
  BY DEF IInv, Ringed
<1>2. /\ TypeOK /\ Asked /\ InAdvance /\ Collected
  BY DEF IInv
<1>3. /\ ahead # NoBlock /\ ahead' = NoBlock
      /\ UNCHANGED <<size, chain, pcurr, locals, qualfail, answer, credit, result, stuck>>
  BY DEF deallocate
<1>4. PICK q \in 1..k : /\ q = ahead.region /\ q \in Region /\ ahead.at + ahead.len = used[q]
                        /\ ahead.len <= live[q]
  <2>1. ahead.region \in 0..k /\ ahead.region # 0
    BY <1>1, <1>2, <1>3 DEF Ring, InAdvance, NULL
  <2>2. ahead.region \in 1..k /\ ahead.region \in Region
    BY <2>1, Links
  <2>3. QED
    BY <1>2, <1>3, <2>2 DEF InAdvance
<1>5. PICK a, l, u, v \in Nat : a = ahead.at /\ l = ahead.len /\ u = used[q] /\ v = live[q]
  BY <1>2, <1>4 DEF TypeOK
<1>6. a + l = u /\ l <= v /\ v <= u
  BY <1>2, <1>4, <1>5 DEF TypeOK
<1>7. PICK s : s = Along(next, pcurr) \o Tail(Along(prev, pcurr))
  OBVIOUS
<1>8. All(s, k)
  <2>1. PICK r \in 1..k : r = pcurr
    BY <1>1 DEF Ring
  <2>2. s = Up(r, k) \o Tail(Down(r))
    BY <1>1, <1>7, <2>1, AlongDown, AlongUp DEF Ring
  <2>3. QED
    BY <2>1, <2>2, UpDown, Links
<1>9. PICK T : T = {i \in 1..Len(s) : s[i] = ahead.region /\ ahead.at + ahead.len = used[s[i]]}
  OBVIOUS
<1>10. PICK i : i = IF T # {} THEN Min(T) ELSE 0
  OBVIOUS
<1>11. i # 0 /\ s[i] = q
  <2>1. s \in Seq(1..k) /\ Len(s) = k /\ \E x \in 1..k : s[x] = q
    BY <1>8 DEF All
  <2>2. T # {}
    BY <1>4, <1>9, <2>1
  <2>3. T \subseteq Nat \ {0}
    BY <1>9
  <2>4. i \in T
    BY <1>10, <2>2, <2>3, MinIn
  <2>5. QED
    BY <1>4, <1>9, <2>3, <2>4
<1>12. /\ used' = [used EXCEPT ![q] = ahead.at]
       /\ live' = [live EXCEPT ![q] = @ - ahead.len]
       /\ botched' = botched
  <2>1. IF i = 0 THEN botched' = TRUE /\ UNCHANGED <<used, live>>
        ELSE /\ used' = [used EXCEPT ![s[i]] = ahead.at]
             /\ live' = [live EXCEPT ![s[i]] = @ - ahead.len]
             /\ UNCHANGED botched
    BY <1>7, <1>9, <1>10 DEF deallocate, SelectInSeq
  <2>2. QED
    BY <1>11, <2>1
<1>13. /\ used' \in [Region -> Nat] /\ live' \in [Region -> Nat]
       /\ used'[q] = a /\ live'[q] = v - l
       /\ \A r \in Region : r # q => used'[r] = used[r] /\ live'[r] = live[r]
  <2>1. v - l \in Nat
    BY <1>5, <1>6
  <2>2. QED
    BY <1>2, <1>4, <1>5, <1>12, <2>1 DEF TypeOK
<1>14. \A r \in Region : /\ live'[r] <= used'[r] /\ used'[r] <= size'[r] /\ used'[r] <= used[r]
                         /\ (IF r = q THEN live'[r] <= live[r] ELSE live'[r] = live[r])
  <2> TAKE r \in Region
  <2>1. CASE r = q
    <3>1. u <= size[q] /\ size[q] \in Nat
      BY <1>2, <1>4, <1>5 DEF TypeOK
    <3>2. v - l <= a /\ a <= u /\ v - l <= v /\ a <= size[q]
      BY <1>5, <1>6, <3>1
    <3>3. QED
      BY <1>3, <1>4, <1>5, <1>13, <2>1, <3>2
  <2>2. CASE r # q
    <3>1. live[r] <= used[r] /\ used[r] <= size[r] /\ used[r] \in Nat
      BY <1>2 DEF TypeOK
    <3>2. QED
      BY <1>3, <1>13, <2>2, <3>1
  <2>3. QED
    BY <2>1, <2>2
<1>15. NoBlock.region = NULL /\ NULL = 0 /\ NoBlock \in [region : Region \cup {NULL}, at : Nat, len : Nat]
  BY DEF NoBlock, NULL
<1>16. TypeOK'
  BY <1>2, <1>3, <1>12, <1>13, <1>14, <1>15 DEF TypeOK, chain, locals
<1>17. Ring(k)'
  <2>1. ahead'.region \in 0..k
    BY <1>3, <1>15, Links
  <2>2. QED
    BY <1>1, <1>3, <2>1 DEF Ring, chain, locals
<1>18. pc = "idle"
  BY <1>2, <1>3 DEF Asked
<1>19. Asked' /\ Collected'
  BY <1>2, <1>3, <1>18 DEF Asked, Collected, locals
<1>20. InAdvance'
  <2>1. credit' <= Gap(pcurr)'
    <3>1. PICK c, x, y, z \in Nat : c = credit /\ x = used'[pcurr] /\ y = used[pcurr] /\ z = size[pcurr]
      <4>1. credit \in Nat /\ pcurr \in Region
        BY <1>2 DEF TypeOK
      <4>2. used'[pcurr] \in Nat /\ used[pcurr] \in Nat /\ size[pcurr] \in Nat
        BY <1>2, <1>13, <4>1 DEF TypeOK
      <4>3. QED
        BY <4>1, <4>2
    <3>2. c <= z - y /\ x <= y
      BY <1>2, <1>14, <3>1 DEF InAdvance, Gap, TypeOK
    <3>3. QED
      BY <1>3, <3>1, <3>2 DEF Gap
  <2>2. QED
    BY <1>2, <1>3, <1>12, <2>1 DEF InAdvance
<1>21. \A r \in Region : IF r = q THEN live'[r] <= live[r] ELSE live'[r] = live[r]
  BY <1>14
<1>22. IInv'
  BY <1>1, <1>16, <1>17, <1>19, <1>20 DEF IInv, Ringed
<1>23. QED
  BY <1>4, <1>21, <1>22

LEMMA DropKeeps ==
  ASSUME IInv, NEW r \in Made, NEW n \in Request, Drop(r, n), kind' = kind
  PROVE  IInv' /\ (\A x \in Region : IF x = r THEN live'[x] <= live[x] ELSE live'[x] = live[x])
<1>1. PICK k \in Region : Ring(k)
  BY DEF IInv, Ringed
<1>2. /\ TypeOK /\ Asked /\ InAdvance /\ Collected
  BY DEF IInv
<1>3. r \in Region /\ n \in Nat \ {0}
  BY RequestAssumption DEF Made
<1>4. PICK l \in Nat : l = live[r]
  BY <1>2, <1>3 DEF TypeOK
<1>5. /\ pc = "idle" /\ ahead = NoBlock /\ l >= n /\ live' = [live EXCEPT ![r] = l - n]
      /\ UNCHANGED <<size, used, chain, pcurr, locals, qualfail, answer, client, stuck>>
  BY <1>4 DEF Drop
<1>6. l - n \in Nat /\ l - n <= l
  BY <1>3, <1>5
<1>7. /\ live' \in [Region -> Nat] /\ live'[r] = l - n
      /\ \A x \in Region : x # r => live'[x] = live[x]
  BY <1>2, <1>3, <1>5, <1>6 DEF TypeOK
<1>8. \A x \in Region : IF x = r THEN live'[x] <= live[x] ELSE live'[x] = live[x]
  BY <1>4, <1>6, <1>7
<1>9. \A x \in Region : live'[x] <= used[x]
  <2> TAKE x \in Region
  <2>1. live'[x] \in Nat /\ live[x] \in Nat /\ used[x] \in Nat /\ live[x] <= used[x]
    BY <1>2, <1>7 DEF TypeOK
  <2>2. live'[x] <= live[x]
    BY <1>8, <2>1
  <2>3. QED
    BY <2>1, <2>2
<1>10. TypeOK'
  BY <1>2, <1>5, <1>7, <1>9 DEF TypeOK, chain, locals, client
<1>11. Ring(k)' /\ Asked' /\ Collected'
  BY <1>1, <1>2, <1>5 DEF Ring, Asked, Collected, chain, locals, client
<1>12. InAdvance'
  BY <1>2, <1>5 DEF InAdvance, Gap, client
<1>13. QED
  BY <1>8, <1>10, <1>11, <1>12 DEF IInv, Ringed

LEMMA CollectCurrentKeeps ==
  ASSUME IInv, CollectCurrent, kind' = kind
  PROVE  IInv' /\ stuck' \subseteq Region
<1>1. PICK k \in Region : Ring(k)
  BY DEF IInv, Ringed
<1>2. /\ TypeOK /\ Asked /\ InAdvance /\ Collected
  BY DEF IInv
<1>3. /\ pc = "idle" /\ ahead = NoBlock /\ result = NULL
      /\ UNCHANGED <<size, live, chain, pcurr, locals, answer, client>>
  BY DEF CollectCurrent
<1>4. pcurr \in Region
  BY <1>2 DEF TypeOK
<1>5. /\ used' \in [Region -> Nat] /\ qualfail' \in BOOLEAN
      /\ \A q \in Region : live[q] <= used'[q] /\ used'[q] <= used[q]
      /\ stuck' \subseteq Region
  BY <1>2, <1>4, CollectTakes DEF CollectCurrent
<1>6. \A q \in Region : live[q] <= used'[q] /\ used'[q] <= size[q]
  <2> TAKE q \in Region
  <2>1. used'[q] \in Nat /\ used[q] \in Nat /\ size[q] \in Nat /\ used[q] <= size[q]
    BY <1>2, <1>5 DEF TypeOK
  <2>2. QED
    BY <1>5, <2>1
<1>7. TypeOK'
  BY <1>2, <1>3, <1>5, <1>6 DEF TypeOK, chain, locals, client
<1>8. Ring(k)' /\ Asked' /\ Collected'
  BY <1>1, <1>2, <1>3 DEF Ring, Asked, Collected, chain, locals, client
<1>9. InAdvance'
  <2>1. PICK c, x, y, z \in Nat : c = credit /\ x = used'[pcurr] /\ y = used[pcurr] /\ z = size[pcurr]
    <3>1. credit \in Nat /\ pcurr \in Region
      BY <1>2 DEF TypeOK
    <3>2. used'[pcurr] \in Nat /\ used[pcurr] \in Nat /\ size[pcurr] \in Nat
      BY <1>2, <1>5, <3>1 DEF TypeOK
    <3>3. QED
      BY <3>1, <3>2
  <2>2. c <= z - y /\ x <= y
    BY <1>2, <1>4, <1>5, <2>1 DEF InAdvance, Gap
  <2>3. c <= z - x
    BY <2>1, <2>2
  <2>4. QED
    BY <1>2, <1>3, <2>1, <2>3 DEF InAdvance, Gap, client
<1>10. QED
  BY <1>5, <1>7, <1>8, <1>9 DEF IInv, Ringed

LEMMA RegionsStep ==
  ASSUME IInv, [Next]_vars
  PROVE  IInv'
<1>1. CASE UNCHANGED vars
  <2>1. PICK k \in Region : Ring(k)
    BY DEF IInv, Ringed
  <2>2. TypeOK'
    BY <1>1 DEF vars, chain, locals, client, IInv, TypeOK
  <2>3. Ring(k)'
    BY <1>1, <2>1 DEF vars, chain, locals, client, Ring
  <2>4. Asked' /\ InAdvance'
    BY <1>1 DEF vars, chain, locals, client, IInv, Asked, InAdvance, Gap
  <2>5. Collected'
    BY <1>1 DEF vars, chain, locals, client, IInv, Collected, Settled
  <2>6. QED
    BY <2>2, <2>3, <2>4, <2>5 DEF IInv, Ringed
<1>2. CASE Next
  <2>1. Step /\ kind' = kind
    BY <1>2 DEF Next
  <2>2. CASE CollectLarge
    <3>1. /\ pc = "large" /\ rp # NULL /\ UNCHANGED <<size, live, chain, ahead, result, botched>>
          /\ IF size[rp] >= want THEN GiveWhenGoalMet ELSE PassOver
      BY <2>2 DEF CollectLarge
    <3>2. CASE size[rp] >= want
      BY <2>1, <3>1, <3>2, GiveKeeps
    <3>3. CASE ~(size[rp] >= want)
      <4>1. PassOver /\ rp # NULL /\ pc = "large" /\ ~(size[rp] >= want)
        BY <3>1, <3>3
      <4>2. UNCHANGED <<kind, size, live, chain, ahead, result, botched>>
        BY <2>1, <3>1
      <4>3. (pc = "large" /\ ~(size[rp] >= want)) \/ (pc = "small" /\ ~(size[rp] < want))
        BY <4>1
      <4>4. QED
        BY <4>1, <4>2, <4>3, PassKeeps
    <3>4. QED
      BY <3>2, <3>3
  <2>3. CASE CollectSmall
    <3>1. /\ pc = "small" /\ rp # NULL /\ UNCHANGED <<size, live, chain, ahead, result, botched>>
          /\ IF size[rp] < want THEN GiveWhenGoalMet ELSE PassOver
      BY <2>3 DEF CollectSmall
    <3>2. CASE size[rp] < want
      BY <2>1, <3>1, <3>2, GiveKeeps
    <3>3. CASE ~(size[rp] < want)
      <4>1. PassOver /\ rp # NULL /\ pc = "small" /\ ~(size[rp] < want)
        BY <3>1, <3>3
      <4>2. UNCHANGED <<kind, size, live, chain, ahead, result, botched>>
        BY <2>1, <3>1
      <4>3. QED
        BY <4>1, <4>2, PassKeeps
    <3>4. QED
      BY <3>2, <3>3
  <2>4. CASE Grow
    BY <2>1, <2>4, GrowKeeps
  <2>5. CASE Search
    BY <2>1, <2>5, SearchKeeps
  <2>6. ASSUME NEW n \in Request, Reserve(n) PROVE IInv'
    BY <2>1, <2>6, ReserveKeeps
  <2>7. ASSUME NEW n \in Request, Allocate(n) \/ AllocateAhead(n) \/ Piece(n) PROVE IInv'
    BY <2>1, <2>7, AllocateKeeps
  <2>8. CASE Keep \/ Build \/ Built
    BY <2>1, <2>8, HoldKeeps
  <2>9. CASE deallocate
    BY <2>1, <2>9, DeallocateKeeps
  <2>10. ASSUME NEW r \in Made, NEW n \in Request, Drop(r, n) PROVE IInv'
    BY <2>1, <2>10, DropKeeps
  <2>11. CASE CollectCurrent
    BY <2>1, <2>11, CollectCurrentKeeps
  <2>12. QED
    BY <2>1, <2>2, <2>3, <2>4, <2>5, <2>6, <2>7, <2>8, <2>9, <2>10, <2>11 DEF Step, reserve
<1>3. QED
  BY <1>1, <1>2

LEMMA RegionsStart ==
  ASSUME Init
  PROVE  IInv
<1>1. PICK M \in Nat : M = MaxRegions /\ M # 0 /\ Region = 1..M
  BY SizesAssumption DEF Region
<1>2. PICK o : o = [r \in Region |-> NULL]
  OBVIOUS
<1>3. /\ kind \in Kinds /\ size = [r \in Region |-> IF r = 1 THEN FirstSize ELSE 0]
      /\ used = [r \in Region |-> 0] /\ live = [r \in Region |-> 0]
      /\ next = o /\ prev = o /\ Gnext = o /\ Gprev = o
      /\ pcurr = 1 /\ pc = "idle" /\ nbytes = 0 /\ want = 0 /\ rp = NULL
      /\ qualfail = FALSE /\ answer = 0
      /\ credit = 0 /\ ahead = NoBlock /\ result = NULL /\ botched = FALSE /\ stuck = {}
  BY <1>2 DEF Init
<1>4. 1 \in Region /\ FirstSize \in Nat \ {0}
  BY <1>1, SizesAssumption
<1>5. o \in [Region -> Region \cup {NULL}]
  BY <1>2
<1>6. /\ size \in [Region -> Nat] /\ used \in [Region -> Nat] /\ live \in [Region -> Nat]
      /\ size[1] = FirstSize
      /\ \A r \in Region : live[r] = 0 /\ used[r] = 0 /\ (r # 1 => size[r] = 0)
  BY <1>3, <1>4
<1>7. NoBlock.region = NULL /\ NULL = 0 /\ NoBlock \in [region : Region \cup {NULL}, at : Nat, len : Nat]
  BY DEF NoBlock, NULL
<1>8. \A r \in Region : live[r] <= used[r] /\ used[r] <= size[r]
  <2> TAKE r \in Region
  <2>1. size[r] \in Nat
    BY <1>6
  <2>2. QED
    BY <1>6, <2>1
<1>9. TypeOK
  BY <1>3, <1>4, <1>5, <1>6, <1>7, <1>8 DEF TypeOK
<1>10. Ring(1)
  <2>1. \A r \in Region : r \in Nat \ {0} /\ (r <= 1 <=> r = 1)
    BY <1>1
  <2>2. \A r \in Region : (size[r] # 0) <=> (r <= 1)
    BY <1>4, <1>6, <2>1
  <2>3. \A r \in Region : (IF r < 1 THEN r + 1 ELSE NULL) = NULL
    BY <2>1 DEF NULL
  <2>4. \A r \in Region : (IF r <= 1 THEN r - 1 ELSE NULL) = NULL
    BY <2>1 DEF NULL
  <2>5. NextOf(1) = o /\ PrevOf(1) = o
    BY <1>2, <2>3, <2>4 DEF NextOf, PrevOf
  <2>6. QED
    BY <1>3, <1>7, <2>2, <2>5 DEF Ring
<1>11. Asked /\ Collected
  BY <1>3 DEF Asked, Collected
<1>12. InAdvance
  <2>1. Gap(pcurr) = FirstSize
    BY <1>3, <1>4, <1>6 DEF Gap
  <2>2. QED
    BY <1>3, <1>4, <2>1 DEF InAdvance
<1>13. QED
  BY <1>4, <1>9, <1>10, <1>11, <1>12 DEF IInv, Ringed

\* The regions are as the other functions of storage management suppose them:
\* none is used beyond its end, and the loops of findgap, deallocate and the
\* collector come to every one of them (ralc.r, rmemmgt.r).
THEOREM RegionsInvariant == Spec => []RegionsSound
<1>1. Init => IInv
  BY RegionsStart
<1>2. IInv /\ [Next]_vars => IInv'
  BY RegionsStep
<1>3. IInv => RegionsSound
  BY Covers DEF IInv, Ringed, RegionsSound
<1>4. QED
  BY <1>1, <1>2, <1>3, PTL DEF Spec

\* What the program has reserved is there until it is used, in the current
\* region, and deallocate finds the region of its block (ralc.r).
THEOREM ReservationsKept == Spec => []AdvanceKept
<1>1. Init => IInv
  BY RegionsStart
<1>2. IInv /\ [Next]_vars => IInv'
  BY RegionsStep
<1>3. IInv => AdvanceKept
  BY DEF IInv, InAdvance, AdvanceKept
<1>4. QED
  BY <1>1, <1>2, <1>3, PTL DEF Spec

\* reserve collects only when no region has room (step 2 of its comment, ralc.r).
THEOREM CollectionsNeeded == Spec => NoNeedlessCollection
<1>1. Init => IInv
  BY RegionsStart
<1>2. IInv /\ [Next]_vars => IInv'
  BY RegionsStep
<1>3. IInv /\ [Next]_vars => [pc = "idle" /\ pc' # "idle" => \A r \in Made : Gap(r) < nbytes']_vars
  <2> SUFFICES ASSUME IInv, Next, pc = "idle", pc' # "idle"
               PROVE  \A r \in Made : Gap(r) < nbytes'
    BY DEF vars, locals
  <2>1. PICK n \in Request : Reserve(n)
    <3>1. Step
      BY DEF Next
    <3>2. ~CollectLarge /\ ~CollectSmall /\ ~Grow /\ ~Search
      BY DEF CollectLarge, CollectSmall, Grow, Search
    <3>3. ~deallocate /\ ~Keep /\ ~Build /\ ~Built /\ ~CollectCurrent
      BY DEF deallocate, Keep, Build, Built, CollectCurrent, locals
    <3>4. \A n \in Request : ~Allocate(n) /\ ~AllocateAhead(n) /\ ~Piece(n)
      BY DEF Allocate, AllocateAhead, Piece, locals
    <3>5. \A r \in Made, n \in Request : ~Drop(r, n)
      BY DEF Drop, locals
    <3>6. QED
      BY <3>1, <3>2, <3>3, <3>4, <3>5 DEF Step, reserve
  <2>2. findgap(pcurr, n) = NULL /\ nbytes' = n
    BY <2>1 DEF Reserve, locals
  <2>3. PICK k \in Region : Ring(k)
    BY DEF IInv, Ringed
  <2>4. Made = 1..k /\ 1..k \subseteq Region
    BY <2>3, MadeIs, Links
  <2>5. \A r \in 1..k : ~(Gap(r) >= n)
    BY <2>2, <2>3, FindGap DEF Ring
  <2>6. \A r \in 1..k : Gap(r) \in Int
    BY <2>4 DEF IInv, TypeOK, Gap
  <2>7. QED
    BY <2>2, <2>4, <2>5, <2>6, RequestAssumption
<1>4. QED
  BY <1>1, <1>2, <1>3, PTL DEF Spec, NoNeedlessCollection

-----------------------------------------------------------------------------
(* Every step is one that Arena allows.                                    *)

\* An answer to a request that no region had room for at first.
LEMMA GiveGrants ==
  ASSUME IInv, pc \in {"large", "small"}, rp # NULL, GiveWhenGoalMet, UNCHANGED <<size, live>>
  PROVE  A!Next
<1>1. PICK k \in Region : Ring(k)
  BY DEF IInv, Ringed
<1>2. TypeOK /\ Asked
  BY DEF IInv
<1>3. rp \in Region
  BY <1>2 DEF TypeOK
<1>4. /\ used' \in [Region -> Nat] /\ live[rp] <= used'[rp] /\ stuck' \subseteq Region
  BY <1>2, <1>3, CollectTakes DEF GiveWhenGoalMet
<1>5. /\ nbytes \in Request /\ nbytes \in Nat \ {0} /\ want \in Nat /\ nbytes <= want
      /\ size[rp] \in Nat /\ live[rp] \in Nat /\ used'[rp] \in Nat
  BY <1>2, <1>3, <1>4, RequestAssumption DEF TypeOK, Asked
<1>6. CASE size[rp] - used'[rp] >= want
  <2>1. nbytes' = 0 /\ answer' = 0 /\ credit' = nbytes
    BY <1>6 DEF GiveWhenGoalMet, Return
  <2>2. size'[rp] - live[rp] >= nbytes
    BY <1>4, <1>5, <1>6
  <2>3. A!Grant(nbytes)
    BY <1>3, <1>4, <1>5, <2>1, <2>2 DEF A!Grant
  <2>4. QED
    BY <1>5, <2>3 DEF A!Next
<1>7. CASE ~(size[rp] - used'[rp] >= want)
  <2>1. UNCHANGED <<nbytes, answer, credit>>
    BY <1>7 DEF GiveWhenGoalMet
  <2>2. A!Stick
    BY <1>4, <2>1 DEF A!Stick
  <2>3. QED
    BY <2>2 DEF A!Next
<1>8. QED
  BY <1>6, <1>7

LEMMA ReserveAsks ==
  ASSUME IInv, NEW n \in Request, Reserve(n)
  PROVE  A!Next
<1>1. PICK k \in Region : Ring(k)
  BY DEF IInv, Ringed
<1>2. TypeOK /\ Asked /\ InAdvance
  BY DEF IInv
<1>3. pc = "idle" /\ nbytes = 0 /\ stuck' = {} /\ UNCHANGED <<size, live>>
  BY <1>2 DEF Reserve, Asked
<1>4. n \in Nat \ {0} /\ credit \in Nat /\ pcurr \in Region /\ pcurr \in 1..k
  BY <1>1, <1>2, RequestAssumption DEF TypeOK, Ring
<1>5. \A r \in Region : Gap(r) \in Int /\ size[r] - live[r] \in Int /\ Gap(r) <= size[r] - live[r]
  <2> TAKE r \in Region
  <2>1. size[r] \in Nat /\ used[r] \in Nat /\ live[r] \in Nat /\ live[r] <= used[r]
    BY <1>2 DEF TypeOK
  <2>2. QED
    BY <2>1 DEF Gap
<1>6. ASSUME NEW r \in Region, Gap(r) >= n, credit' = A!Max({credit, n}), nbytes' = 0, answer' = 0
      PROVE  A!Grant(n)
  <2>1. size'[r] - live[r] >= n
    BY <1>3, <1>4, <1>5, <1>6
  <2>2. QED
    BY <1>3, <1>6, <2>1 DEF A!Grant
<1>7. CASE Gap(pcurr) >= n /\ credit' = Max({credit, n}) /\ answer' = 0 /\ UNCHANGED <<pcurr, locals>>
  <2>1. credit' = A!Max({credit, n})
    BY <1>7 DEF Max, A!Max
  <2>2. QED
    BY <1>3, <1>4, <1>6, <1>7, <2>1 DEF A!Next, locals
<1>8. CASE /\ Gap(pcurr) < n /\ findgap(pcurr, n) # NULL
           /\ pcurr' = findgap(pcurr, n) /\ credit' = n /\ answer' = 0 /\ UNCHANGED locals
  <2>1. pcurr' \in Region /\ Gap(pcurr') >= n
    BY <1>1, <1>4, <1>8, FindGap, Links
  <2>2. credit <= n
    BY <1>2, <1>4, <1>5, <1>8 DEF InAdvance
  <2>3. Max({credit, n}) = n
    BY <1>4, <2>2, MaxTwo
  <2>4. credit' = A!Max({credit, n})
    BY <1>8, <2>3 DEF Max, A!Max
  <2>5. QED
    BY <1>3, <1>6, <1>8, <2>1, <2>4 DEF A!Next, locals
<1>9. CASE /\ pc' = "large" /\ nbytes' = n /\ want' = Cushion(n) /\ rp' = Newest
           /\ credit' = 0 /\ UNCHANGED <<pcurr, answer>>
  BY <1>3, <1>9 DEF A!Ask, A!Next
<1>10. QED
  BY <1>7, <1>8, <1>9 DEF Reserve

LEMMA GrowGrants ==
  ASSUME IInv, Grow
  PROVE  A!Next \/ UNCHANGED A!vars
<1>1. PICK k \in Region : Ring(k)
  BY DEF IInv, Ringed
<1>2. TypeOK /\ Asked
  BY DEF IInv
<1>3. pc = "large" /\ rp = NULL /\ UNCHANGED <<live, ahead, stuck>> /\ stuck \subseteq Region
  BY <1>2 DEF Grow, TypeOK
<1>4. nbytes \in Nat \ {0} /\ nbytes \in Request
  BY <1>2, <1>3, RequestAssumption DEF Asked
<1>5. ASSUME NEW s \in Sizes(nbytes, StdSize(nbytes)), Made # Region, AddRegion(s), Return(0)
      PROVE  A!Next
  <2>1. s \in Nat \ {0} /\ nbytes <= s
    <3>1. PICK n, z : n = nbytes /\ z = StdSize(nbytes) /\ s \in Sizes(n, z)
      OBVIOUS
    <3>2. n \in Nat \ {0} /\ z \in Nat /\ n <= z
      BY <1>1, <1>2, <1>4, <3>1, Goals DEF TypeOK
    <3>3. s \in Nat /\ n <= s
      BY <3>1, <3>2, SizesFit
    <3>4. QED
      BY <3>1, <3>2, <3>3
  <2>2. nbytes' = 0 /\ rp' = NULL /\ answer' = 0 /\ credit' = nbytes
    BY <1>5 DEF Return
  <2>3. PICK c : c = k + 1
    OBVIOUS
  <2>4. c \in Region /\ size' = [size EXCEPT ![c] = s]
    BY <1>1, <1>2, <1>3, <1>5, <2>1, <2>2, <2>3, Added
  <2>5. size[c] = 0 /\ live[c] = 0
    BY <1>1, <1>2, <2>3, <2>4, Unmade, Links
  <2>6. size'[c] = s
    BY <1>2, <2>4 DEF TypeOK
  <2>7. \E r \in Region : size'[r] - live[r] >= nbytes
    BY <1>4, <2>1, <2>4, <2>5, <2>6
  <2>8. \E r \in Region : size[r] = 0 /\ size' = [size EXCEPT ![r] = size'[r]]
    BY <2>4, <2>5, <2>6
  <2>9. A!Grant(nbytes)
    BY <1>3, <1>4, <2>2, <2>7, <2>8 DEF A!Grant
  <2>10. QED
    BY <1>4, <2>9 DEF A!Next
<1>6. ASSUME pc' = "small", UNCHANGED <<size, chain, pcurr, nbytes, want, answer, credit>>
      PROVE  UNCHANGED A!vars
  BY <1>3, <1>6 DEF A!vars
<1>7. QED
  BY <1>5, <1>6 DEF Grow

\* A request is refused when no region could hold it without its garbage.
LEMMA SearchAnswers ==
  ASSUME IInv, Search
  PROVE  A!Next
<1>1. PICK k \in Region : Ring(k)
  BY DEF IInv, Ringed
<1>2. TypeOK /\ Asked /\ Collected
  BY DEF IInv
<1>3. pc = "small" /\ rp = NULL /\ UNCHANGED <<size, live, stuck>> /\ stuck \subseteq Region
  BY <1>2 DEF Search, TypeOK
<1>4. /\ nbytes \in Request /\ nbytes \in Nat \ {0} /\ want \in Nat /\ nbytes <= want
      /\ k \in 1..k /\ k \in Nat
  BY <1>2, <1>3, RequestAssumption, Links DEF Asked, TypeOK
<1>5. PICK r : r = findgap(k, nbytes)
  OBVIOUS
<1>6. \A q \in Region : size[q] \in Nat /\ used[q] \in Nat /\ live[q] \in Nat /\ live[q] <= used[q]
  BY <1>2 DEF TypeOK
<1>7. Newest = k
  BY <1>1, NewestIs
<1>8. CASE r # NULL
  <2>1. nbytes' = 0 /\ answer' = 0 /\ credit' = nbytes
    BY <1>5, <1>7, <1>8 DEF Search, Return
  <2>2. r \in Region /\ Gap(r) >= nbytes
    BY <1>1, <1>4, <1>5, <1>8, FindGap, Links
  <2>3. size'[r] - live[r] >= nbytes
    BY <1>3, <1>4, <1>6, <2>2 DEF Gap
  <2>4. A!Grant(nbytes)
    BY <1>3, <1>4, <2>1, <2>2, <2>3 DEF A!Grant
  <2>5. QED
    BY <1>4, <2>4 DEF A!Next
<1>9. CASE r = NULL
  <2>1. Return(GiveUp)
    BY <1>5, <1>7, <1>9 DEF Search
  <2>2. GiveUp # 0
    BY DEF GiveUp
  <2>3. nbytes' = 0 /\ answer' # 0 /\ credit' = 0
    BY <2>1, <2>2 DEF Return
  <2>4. \A q \in 1..k : ~(Gap(q) >= nbytes)
    BY <1>1, <1>4, <1>5, <1>9, FindGap
  <2>5. ASSUME NEW q \in Region \ stuck
        PROVE  size[q] - live[q] < nbytes
    <3>1. CASE q <= k
      <4>1. q \in 1..k /\ ~(Gap(q) >= nbytes)
        BY <2>4, <3>1, Links
      <4>2. CASE size[q] < want
        <5>1. rp < q
          BY <1>3, <4>1 DEF NULL
        <5>2. used[q] = live[q]
          BY <1>2, <1>3, <5>1 DEF Collected, Settled
        <5>3. QED
          BY <1>4, <1>6, <4>1, <5>2 DEF Gap
      <4>3. CASE ~(size[q] < want)
        <5>1. want <= size[q]
          BY <1>4, <1>6, <4>3
        <5>2. used[q] = live[q]
          BY <1>2, <1>3, <5>1 DEF Collected, Settled
        <5>3. QED
          BY <1>4, <1>6, <4>1, <5>2 DEF Gap
      <4>4. QED
        BY <4>2, <4>3
    <3>2. CASE ~(q <= k)
      <4>1. k < q
        BY <3>2, Links
      <4>2. size[q] = 0 /\ live[q] = 0
        BY <1>1, <1>2, <4>1, Unmade
      <4>3. QED
        BY <1>4, <4>2
    <3>3. QED
      BY <3>1, <3>2
  <2>6. A!Hopeless(nbytes)
    BY <2>5 DEF A!Hopeless
  <2>7. A!Refuse
    BY <1>3, <1>4, <2>3, <2>6 DEF A!Refuse
  <2>8. QED
    BY <2>7 DEF A!Next
<1>10. QED
  BY <1>8, <1>9

LEMMA BumpPlaces ==
  ASSUME IInv, NEW n \in Request, pc = "idle", Gap(pcurr) >= n, Bump(n),
         UNCHANGED <<size, locals, answer, stuck>>
  PROVE  A!Next
<1>1. TypeOK /\ Asked
  BY DEF IInv
<1>2. pcurr \in Region /\ nbytes = 0 /\ n \in Nat
  BY <1>1, RequestAssumption DEF TypeOK, Asked
<1>3. size[pcurr] \in Nat /\ used[pcurr] \in Nat /\ live[pcurr] \in Nat /\ live[pcurr] <= used[pcurr]
  BY <1>1, <1>2 DEF TypeOK
<1>4. live[pcurr] + n <= size[pcurr]
  BY <1>2, <1>3 DEF Gap
<1>5. credit' = A!Max({credit - n, 0})
  BY DEF Bump, Max, A!Max
<1>6. A!Place(pcurr, n)
  BY <1>2, <1>4, <1>5 DEF A!Place, Bump, locals
<1>7. QED
  BY <1>2, <1>6 DEF A!Next

LEMMA RegionsStepArena ==
  ASSUME IInv, IInv', [Next]_vars
  PROVE  [A!Next]_(A!vars)
<1>1. CASE UNCHANGED vars
  BY <1>1 DEF vars, A!vars, locals, client
<1>2. CASE Next
  <2>1. Step /\ kind' = kind
    BY <1>2 DEF Next
  <2>2. CASE CollectLarge \/ CollectSmall
    <3>1. /\ pc \in {"large", "small"} /\ rp # NULL
          /\ UNCHANGED <<size, live, chain, ahead, result, botched>>
          /\ GiveWhenGoalMet \/ PassOver
      BY <2>2 DEF CollectLarge, CollectSmall
    <3>2. CASE GiveWhenGoalMet
      BY <3>1, <3>2, GiveGrants
    <3>3. CASE PassOver
      BY <3>1, <3>3 DEF PassOver, A!vars
    <3>4. QED
      BY <3>1, <3>2, <3>3
  <2>3. CASE Grow
    BY <2>3, GrowGrants
  <2>4. CASE Search
    BY <2>4, SearchAnswers
  <2>5. ASSUME NEW n \in Request, Reserve(n) PROVE A!Next
    BY <2>5, ReserveAsks
  <2>6. ASSUME NEW n \in Request, Allocate(n) \/ AllocateAhead(n) \/ Piece(n) PROVE A!Next
    <3>1. pc = "idle" /\ Gap(pcurr) >= n /\ Bump(n) /\ UNCHANGED <<size, locals, answer, stuck>>
      BY <2>6 DEF Allocate, AllocateAhead, Piece
    <3>2. QED
      BY <3>1, BumpPlaces
  <2>7. CASE Keep \/ Build \/ Built
    BY <2>7 DEF Keep, Build, Built, locals, A!vars
  <2>8. TypeOK /\ TypeOK' /\ Asked
    BY DEF IInv
  <2>9. live' \in [Region -> Nat] /\ stuck' \subseteq Region
    BY <2>8 DEF TypeOK
  <2>10. CASE deallocate
    <3>1. PICK q \in Region : \A r \in Region :
                 IF r = q THEN live'[r] <= live[r] ELSE live'[r] = live[r]
      BY <2>1, <2>10, DeallocateKeeps
    <3>2. nbytes = 0 /\ UNCHANGED <<size, nbytes, answer, credit, stuck>>
      BY <2>8, <2>10 DEF deallocate, locals, Asked
    <3>3. A!Drop(q)
      BY <2>9, <3>1, <3>2 DEF A!Drop
    <3>4. QED
      BY <3>3 DEF A!Next
  <2>11. ASSUME NEW r \in Made, NEW n \in Request, Drop(r, n) PROVE A!Next
    <3>1. \A x \in Region : IF x = r THEN live'[x] <= live[x] ELSE live'[x] = live[x]
      BY <2>1, <2>11, DropKeeps
    <3>2. nbytes = 0 /\ UNCHANGED <<size, nbytes, answer, credit, stuck>>
      BY <2>8, <2>11 DEF Drop, locals, client, Asked
    <3>3. A!Drop(r)
      BY <2>9, <3>1, <3>2 DEF A!Drop
    <3>4. r \in Region
      BY DEF Made
    <3>5. QED
      BY <3>3, <3>4 DEF A!Next
  <2>12. CASE CollectCurrent
    <3>1. UNCHANGED <<size, live, nbytes, answer, credit>>
      BY <2>12 DEF CollectCurrent, locals, client
    <3>2. QED
      BY <2>9, <3>1 DEF A!Stick, A!Next
  <2>13. QED
    BY <2>1, <2>2, <2>3, <2>4, <2>5, <2>6, <2>7, <2>10, <2>11, <2>12 DEF Step, reserve
<1>3. QED
  BY <1>1, <1>2

\* Programs see room that what they still use takes up, and a request is
\* refused only when no region could hold it even without its garbage.
THEOREM RegionsImplementArena == Spec => ImplementsArena
<1>1. Init => IInv
  BY RegionsStart
<1>2. IInv /\ [Next]_vars => IInv'
  BY RegionsStep
<1>3. Init => A!Init
  <2> SUFFICES ASSUME Init PROVE A!Init
    OBVIOUS
  <2>1. size \in [Region -> Nat]
    BY RegionsStart DEF IInv, TypeOK
  <2>2. QED
    BY <2>1 DEF Init, A!Init
<1>4. IInv /\ IInv' /\ [Next]_vars => [A!Next]_(A!vars)
  BY RegionsStepArena
<1>5. QED
  BY <1>1, <1>2, <1>3, <1>4, PTL DEF Spec, ImplementsArena, A!Spec
=============================================================================
