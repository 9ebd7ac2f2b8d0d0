-------------------------- MODULE ActivationProofs --------------------------
(***************************************************************************)
(* Proofs about Activation, for any number of co-expressions, records in a *)
(* block and pending activations: StacksSound is an invariant, and the     *)
(* chains of blocks implement the plain sequences of ActivatorStacks.      *)
(*                                                                         *)
(* First what the operations on a chain do to the sequence that it stands  *)
(* for, then the counting behind Balanced, then the invariant, its steps   *)
(* and the two theorems.                                                   *)
(***************************************************************************)
EXTENDS Activation, ProofLemmas, FiniteSetTheorems

-----------------------------------------------------------------------------
(* Records unrolled: Flat is this of all records of a chain.               *)

RecordOf(A) == [activator : A, acount : Nat \ {0}]
Run(r) == [j \in 1..r.acount |-> r.activator]
Unrolled(recs) == FlattenSeq([i \in 1..Len(recs) |-> Run(recs[i])])

\* What a record stands for.
LEMMA RunType ==
  ASSUME NEW A, NEW r \in RecordOf(A)
  PROVE  /\ r.activator \in A /\ r.acount \in Nat \ {0}
         /\ Run(r) \in Seq(A) /\ Len(Run(r)) = r.acount
         /\ \A j \in 1..r.acount : Run(r)[j] = r.activator
<1>1. r.activator \in A /\ r.acount \in Nat \ {0}
  BY DEF RecordOf
<1>2. QED
  BY <1>1 DEF Run

\* One record more.
LEMMA UnrolledAppend ==
  ASSUME NEW A, NEW recs \in Seq(RecordOf(A)), NEW r \in RecordOf(A)
  PROVE  /\ Unrolled(recs) \in Seq(A)
         /\ Unrolled(Append(recs, r)) = Unrolled(recs) \o Run(r)
<1>1. PICK n, m, a : n = Len(recs) /\ m = n + 1 /\ a = Append(recs, r)
  OBVIOUS
<1>2. /\ n \in Nat /\ m \in Nat /\ Len(a) = m /\ a[m] = r /\ a \in Seq(RecordOf(A))
      /\ \A i \in 1..n : a[i] = recs[i]
  BY <1>1
<1>3. PICK u, v : /\ u = [i \in 1..n |-> Run(recs[i])]
                  /\ v = [i \in 1..m |-> Run(a[i])]
  OBVIOUS
<1>4. PICK S : S = Seq(A)
  OBVIOUS
<1>5. Run(r) \in S /\ \A i \in 1..n : Run(recs[i]) \in S
  <2>1. \A i \in 1..n : recs[i] \in RecordOf(A)
    BY <1>1
  <2>2. QED
    BY <1>4, <2>1, RunType
<1>6. u \in Seq(S) /\ Len(u) = n
  BY <1>2, <1>3, <1>5
<1>7. v = Append(u, Run(r))
  <2>1. PICK w : w = Append(u, Run(r))
    OBVIOUS
  <2>2. w \in Seq(S) /\ Len(w) = m /\ w[m] = Run(r) /\ \A i \in 1..n : w[i] = u[i]
    BY <1>1, <1>5, <1>6, <2>1
  <2>3. \A i \in 1..m : i = m \/ i \in 1..n
    BY <1>1, <1>2
  <2>4. \A i \in 1..m : v[i] = Run(a[i])
    BY <1>3
  <2>5. \A i \in 1..n : u[i] = Run(recs[i])
    BY <1>3
  <2>6. \A i \in 1..m : w[i] = v[i]
    BY <1>2, <2>2, <2>3, <2>4, <2>5
  <2>7. w = [i \in 1..m |-> w[i]]
    BY <2>2
  <2>8. w = v
    BY <1>3, <2>4, <2>6, <2>7
  <2>9. QED
    BY <2>1, <2>8
<1>8. Unrolled(recs) = FlattenSeq(u) /\ Unrolled(a) = FlattenSeq(v)
  BY <1>1, <1>2, <1>3 DEF Unrolled
<1>9. FlattenSeq(u) \in Seq(A) /\ FlattenSeq(Append(u, Run(r))) = FlattenSeq(u) \o Run(r)
  BY <1>4, <1>5, <1>6, FlattenType, FlattenAppend
<1>10. QED
  BY <1>1, <1>7, <1>8, <1>9

\* A record with count 1, and one with a higher count.
LEMMA UnrolledOne ==
  ASSUME NEW A, NEW recs \in Seq(RecordOf(A)), NEW a \in A,
         NEW r, r = [activator |-> a, acount |-> 1]
  PROVE  r \in RecordOf(A) /\ Unrolled(Append(recs, r)) = Append(Unrolled(recs), a)
<1>1. r \in RecordOf(A)
  BY DEF RecordOf
<1>2. Run(r) = Append(<<>>, a)
  BY DEF Run
<1>3. PICK u : u = Unrolled(recs)
  OBVIOUS
<1>4. u \in Seq(A) /\ Unrolled(Append(recs, r)) = u \o Run(r)
  BY <1>1, <1>3, UnrolledAppend
<1>5. u \o Append(<<>>, a) = Append(u, a)
  BY <1>4
<1>6. QED
  BY <1>1, <1>2, <1>3, <1>4, <1>5

LEMMA UnrolledMore ==
  ASSUME NEW A, NEW recs \in Seq(RecordOf(A)), NEW r \in RecordOf(A),
         NEW q, q = [r EXCEPT !.acount = @ + 1]
  PROVE  /\ q \in RecordOf(A)
         /\ Unrolled(Append(recs, q)) = Append(Unrolled(Append(recs, r)), r.activator)
<1>1. /\ q \in RecordOf(A) /\ q.activator = r.activator /\ q.acount = r.acount + 1
  BY DEF RecordOf
<1>2. Run(q) = Append(Run(r), r.activator)
  <2>1. PICK x, y, n : x = Run(q) /\ y = Append(Run(r), r.activator) /\ n = r.acount
    OBVIOUS
  <2>2. /\ n \in Nat /\ x \in Seq(A) /\ y \in Seq(A) /\ Len(x) = n + 1 /\ Len(y) = n + 1
    <3>1. n \in Nat /\ x \in Seq(A) /\ Len(x) = n + 1
      BY <1>1, <2>1, RunType
    <3>2. Run(r) \in Seq(A) /\ Len(Run(r)) = n /\ r.activator \in A
      BY <2>1, RunType
    <3>3. QED
      BY <2>1, <3>1, <3>2
  <2>3. /\ \A j \in 1..(n + 1) : x[j] = r.activator
    BY <1>1, <2>1, RunType
  <2>4. /\ \A j \in 1..(n + 1) : y[j] = r.activator
    <3>1. Run(r) \in Seq(A) /\ Len(Run(r)) = n /\ r.activator \in A
      BY <2>1, RunType
    <3>2. \A j \in 1..n : Run(r)[j] = r.activator
      BY <2>1, RunType
    <3>3. \A j \in 1..(n + 1) : j = n + 1 \/ j \in 1..n
      BY <2>2
    <3>4. y[n + 1] = r.activator /\ \A j \in 1..n : y[j] = Run(r)[j]
      BY <2>1, <3>1
    <3>5. QED
      BY <3>2, <3>3, <3>4
  <2>5. x = y
    BY <2>2, <2>3, <2>4
  <2>6. QED
    BY <2>1, <2>5
<1>3. PICK u, v : u = Unrolled(recs) /\ v = Run(r)
  OBVIOUS
<1>4. /\ u \in Seq(A) /\ Unrolled(Append(recs, r)) = u \o v
      /\ Unrolled(Append(recs, q)) = u \o Run(q)
  BY <1>1, <1>3, UnrolledAppend
<1>5. u \o Append(v, r.activator) = Append(u \o v, r.activator)
  BY <1>3, <1>4, RunType, ConcatAppend
<1>6. QED
  BY <1>1, <1>2, <1>3, <1>4, <1>5
-----------------------------------------------------------------------------
(* Chains of activator blocks.                                             *)

Chain(A, s) ==
  /\ s \in Seq(Seq(RecordOf(A)))
  /\ \A i \in 1..Len(s) : 
      Len(s[i]) <= ActStkBlkEnts /\ (i < Len(s) => Len(s[i]) = ActStkBlkEnts)

\* A chain that ends in block b, after the blocks f.
LEMMA ChainParts ==
  ASSUME NEW A, NEW f \in Seq(Seq(RecordOf(A))), NEW b \in Seq(RecordOf(A))
  PROVE  /\ FlattenSeq(f) \in Seq(RecordOf(A))
         /\ FlattenSeq(Append(f, b)) = FlattenSeq(f) \o b
         /\ Flat(Append(f, b)) = Unrolled(FlattenSeq(f) \o b)
<1>1. FlattenSeq(f) \in Seq(RecordOf(A)) /\ FlattenSeq(Append(f, b)) = FlattenSeq(f) \o b
  BY FlattenType, FlattenAppend
<1>2. QED
  BY <1>1 DEF Flat, Unrolled, Run

\* The last block of a chain may be changed, if it does not grow too long.
LEMMA ChainLast ==
  ASSUME NEW A, NEW s, Chain(A, s), s # <<>>, NEW b \in Seq(RecordOf(A)), Len(b) <= ActStkBlkEnts
  PROVE  /\ Front(s) \in Seq(Seq(RecordOf(A))) /\ Last(s) \in Seq(RecordOf(A))
         /\ s = Append(Front(s), Last(s))
         /\ Chain(A, Append(Front(s), b)) /\ Append(Front(s), b) # <<>>
         /\ Chain(A, Front(s)) /\ Len(Last(s)) <= ActStkBlkEnts
         /\ Front(s) # <<>> => Len(Last(Front(s))) = ActStkBlkEnts
<1>1. PICK R : R = Seq(RecordOf(A))
  OBVIOUS
<1>2. PICK f, e, n : f = Front(s) /\ e = Last(s) /\ n = Len(s)
  OBVIOUS
<1>3. /\ s \in Seq(R) /\ n \in Nat \ {0} /\ f \in Seq(R) /\ Len(f) = n - 1 /\ e \in R /\ e = s[n]
      /\ \A i \in 1..(n - 1) : f[i] = s[i]
  BY <1>1, <1>2, FrontLast DEF Chain
<1>4. PICK a : a = Append(f, b)
  OBVIOUS
<1>5. /\ a \in Seq(R) /\ Len(a) = n /\ a[n] = b /\ a # <<>>
      /\ \A i \in 1..(n - 1) : a[i] = f[i]
  <2>1. b \in R /\ n - 1 + 1 = n
    BY <1>1, <1>3
  <2>2. /\ a \in Seq(R) /\ Len(a) = Len(f) + 1 /\ a[Len(f) + 1] = b /\ a # <<>>
        /\ \A i \in 1..Len(f) : a[i] = f[i]
    BY <1>3, <1>4, <2>1, AppendOne
  <2>3. QED
    BY <1>3, <2>1, <2>2
<1>6. \A i \in 1..n : 
      Len(s[i]) <= ActStkBlkEnts /\ (i < n => Len(s[i]) = ActStkBlkEnts)
  BY <1>2 DEF Chain
<1>7. \A i \in 1..n : i = n \/ i \in 1..(n - 1)
  BY <1>3
<1>8. \A i \in 1..(n - 1) : i \in 1..n /\ i < n
  BY <1>3
<1>9. Chain(A, a)
  <2>1. \A i \in 1..n : 
      Len(a[i]) <= ActStkBlkEnts /\ (i < n => Len(a[i]) = ActStkBlkEnts)
    BY <1>3, <1>5, <1>6, <1>7, <1>8
  <2>2. QED
    BY <1>1, <1>5, <2>1 DEF Chain
<1>10. Chain(A, f)
  <2>1. \A i \in 1..(n - 1) : Len(f[i]) = ActStkBlkEnts /\ Len(f[i]) <= ActStkBlkEnts
    <3>1. ActStkBlkEnts <= ActStkBlkEnts
      BY EntsAssumption
    <3>2. \A i \in 1..(n - 1) : f[i] = s[i]
      BY <1>3
    <3>3. QED
      BY <1>6, <1>8, <3>1, <3>2, Zenon
  <2>2. QED
    BY <1>1, <1>3, <2>1 DEF Chain
<1>11. s = Append(f, e)
  BY <1>1, <1>2, <1>3, SplitLast
<1>12. Len(e) <= ActStkBlkEnts
  <2>1. n \in 1..n
    BY <1>3
  <2>2. Len(s[n]) <= ActStkBlkEnts
    BY <1>6, <2>1, Zenon
  <2>3. QED
    BY <1>3, <2>2
<1>13. f # <<>> => Len(Last(f)) = ActStkBlkEnts
  <2> SUFFICES ASSUME f # <<>> PROVE Len(Last(f)) = ActStkBlkEnts
    OBVIOUS
  <2>1. Len(f) \in Nat \ {0} /\ Last(f) = f[Len(f)]
    BY <1>3, FrontLast
  <2>2. PICK k : k = n - 1
    OBVIOUS
  <2>3. k \in 1..(n - 1) /\ Last(f) = s[k]
    BY <1>3, <2>1, <2>2
  <2>4. Len(s[k]) = ActStkBlkEnts
    BY <1>6, <1>8, <2>3
  <2>5. QED
    BY <2>3, <2>4
<1>14. QED
  BY <1>1, <1>2, <1>3, <1>4, <1>5, <1>9, <1>10, <1>11, <1>12, <1>13

\* A chain of full blocks may get another block.
LEMMA ChainNext ==
  ASSUME NEW A, NEW s, Chain(A, s), s # <<>>, Len(Last(s)) = ActStkBlkEnts,
         NEW b \in Seq(RecordOf(A)), Len(b) <= ActStkBlkEnts
  PROVE  Chain(A, Append(s, b)) /\ Append(s, b) # <<>>
<1>1. PICK R, n, a : R = Seq(RecordOf(A)) /\ n = Len(s) /\ a = Append(s, b)
  OBVIOUS
<1>2. s \in Seq(R) /\ n \in Nat \ {0} /\ Len(s[n]) = ActStkBlkEnts
  BY <1>1, FrontLast DEF Chain
<1>3. /\ a \in Seq(R) /\ Len(a) = n + 1 /\ a[n + 1] = b /\ a # <<>>
      /\ \A i \in 1..n : a[i] = s[i]
  <2>1. b \in R
    BY <1>1
  <2>2. s \in Seq(R) /\ n = Len(s)
    BY <1>1, <1>2
  <2>3. QED
    BY <1>1, <2>1, <2>2, AppendOne
<1>4. \A i \in 1..n : 
      Len(s[i]) <= ActStkBlkEnts /\ (i < n => Len(s[i]) = ActStkBlkEnts)
  BY <1>1 DEF Chain
<1>5. \A i \in 1..(n + 1) : i = n + 1 \/ i \in 1..n
  BY <1>2
<1>6. \A i \in 1..n : i < n \/ i = n
  BY <1>2
<1>7. \A i \in 1..n : Len(a[i]) = ActStkBlkEnts /\ Len(a[i]) <= ActStkBlkEnts
  <2>1. \A i \in 1..n : Len(s[i]) = ActStkBlkEnts
    BY <1>2, <1>4, <1>6, Zenon
  <2>2. ActStkBlkEnts <= ActStkBlkEnts
    BY EntsAssumption
  <2>3. \A i \in 1..n : a[i] = s[i]
    BY <1>3
  <2> TAKE i \in 1..n
  <2>4. a[i] = s[i] /\ Len(s[i]) = ActStkBlkEnts
    BY <2>1, <2>3
  <2>5. QED
    BY <2>2, <2>4
<1>8. \A i \in 1..(n + 1) : 
      Len(a[i]) <= ActStkBlkEnts /\ (i < n + 1 => Len(a[i]) = ActStkBlkEnts)
  BY <1>3, <1>5, <1>7
<1>9. QED
  BY <1>1, <1>3, <1>8 DEF Chain

\* pushact (rmisc.r) appends to the sequence of activators, whether it counts
\* the activator once more, fills a block or starts another.
LEMMA PushFlat ==
  ASSUME NEW A, NEW s, Chain(A, s), s # <<>>, NEW a \in A
  PROVE  /\ Chain(A, PushAct(s, a)) /\ PushAct(s, a) # <<>>
         /\ Flat(s) \in Seq(A) /\ Flat(PushAct(s, a)) = Append(Flat(s), a)
<1>1. PICK f, b, F : f = Front(s) /\ b = Last(s) /\ F = FlattenSeq(f)
  OBVIOUS
<1>2. /\ f \in Seq(Seq(RecordOf(A))) /\ b \in Seq(RecordOf(A)) /\ s = Append(f, b)
      /\ Len(b) <= ActStkBlkEnts
  <2>1. Len(<<>>) <= ActStkBlkEnts /\ <<>> \in Seq(RecordOf(A))
    BY EntsAssumption
  <2>2. QED
    BY <1>1, <2>1, ChainLast
<1>3. /\ F \in Seq(RecordOf(A)) /\ Flat(s) = Unrolled(F \o b) /\ F \o b \in Seq(RecordOf(A))
      /\ Flat(s) \in Seq(A)
  <2>1. F \in Seq(RecordOf(A)) /\ Flat(s) = Unrolled(F \o b)
    BY <1>1, <1>2, ChainParts
  <2>2. F \o b \in Seq(RecordOf(A))
    BY <1>2, <2>1
  <2>3. PICK r : r = [activator |-> a, acount |-> 1]
    OBVIOUS
  <2>4. r \in RecordOf(A)
    BY <2>3 DEF RecordOf
  <2>5. QED
    BY <2>1, <2>2, <2>4, UnrolledAppend
<1>4. CASE b # NoBlock /\ Last(b).activator = a
  <2>1. PICK g, r, q : g = Front(b) /\ r = Last(b) /\ q = [r EXCEPT !.acount = @ + 1]
    OBVIOUS
  <2>2. b # <<>>
    BY <1>4 DEF NoBlock
  <2>3. g \in Seq(RecordOf(A)) /\ r \in RecordOf(A) /\ b = Append(g, r) /\ Len(g) = Len(b) - 1
    BY <1>2, <2>1, <2>2, FrontLast, SplitLast
  <2>4. q \in RecordOf(A) /\ F \o g \in Seq(RecordOf(A))
    <3>1. q \in RecordOf(A)
      BY <2>1, <2>3, UnrolledMore
    <3>2. QED
      BY <1>3, <2>3, <3>1, ConcatAppend
  <2>5. PushAct(s, a) = Append(f, Append(g, q))
    BY <1>1, <1>4, <2>1 DEF PushAct
  <2>6. Append(g, q) \in Seq(RecordOf(A)) /\ Len(Append(g, q)) <= ActStkBlkEnts
    BY <1>2, <2>3, <2>4
  <2>7. Chain(A, PushAct(s, a)) /\ PushAct(s, a) # <<>>
    <3>1. PICK c, h : c = Append(f, h) /\ h = Append(g, q)
      OBVIOUS
    <3>2. h \in Seq(RecordOf(A)) /\ Len(h) <= ActStkBlkEnts
      BY <2>6, <3>1
    <3>3. Chain(A, c) /\ c # <<>>
      BY <1>1, <3>1, <3>2, ChainLast
    <3>4. QED
      BY <2>5, <3>1, <3>3
  <2>8. Flat(PushAct(s, a)) = Unrolled(F \o Append(g, q))
    BY <1>1, <1>2, <2>5, <2>6, ChainParts
  <2>9. F \o Append(g, q) = Append(F \o g, q) /\ F \o b = Append(F \o g, r)
    BY <1>3, <2>3, <2>4, ConcatAppend
  <2>10. Unrolled(Append(F \o g, q)) = Append(Unrolled(Append(F \o g, r)), r.activator)
    <3>1. PICK P : P = F \o g
      OBVIOUS
    <3>2. P \in Seq(RecordOf(A))
      BY <2>4, <3>1
    <3>3. Unrolled(Append(P, q)) = Append(Unrolled(Append(P, r)), r.activator)
      BY <2>1, <2>3, <3>2, UnrolledMore
    <3>4. QED
      BY <3>1, <3>3
  <2>11. QED
    BY <1>3, <1>4, <2>1, <2>7, <2>8, <2>9, <2>10
<1>5. CASE ~(b # NoBlock /\ Last(b).activator = a)
  <2>1. PICK r : r = [activator |-> a, acount |-> 1]
    OBVIOUS
  <2>2. r \in RecordOf(A) /\ Unrolled(Append(F \o b, r)) = Append(Flat(s), a)
    <3>1. PICK P : P = F \o b
      OBVIOUS
    <3>2. P \in Seq(RecordOf(A))
      BY <1>3, <3>1
    <3>3. r \in RecordOf(A) /\ Unrolled(Append(P, r)) = Append(Unrolled(P), a)
      BY <2>1, <3>2, UnrolledOne
    <3>4. QED
      BY <1>3, <3>1, <3>3
  <2>3. PushAct(s, a) = PushRecord(s, a)
    BY <1>1, <1>5 DEF PushAct
  <2>4. CASE Len(b) + 1 > ActStkBlkEnts
    <3>1. PushAct(s, a) = Append(s, <<r>>)
      BY <1>1, <2>1, <2>3, <2>4 DEF PushRecord
    <3>2. PICK c : c = <<r>>
      OBVIOUS
    <3>3. /\ c \in Seq(RecordOf(A)) /\ Len(c) <= ActStkBlkEnts /\ Len(b) = ActStkBlkEnts
          /\ c = Append(<<>>, r)
      BY <1>2, <2>2, <2>4, <3>2, EntsAssumption
    <3>4. Chain(A, Append(s, c)) /\ Append(s, c) # <<>>
      BY <1>1, <3>3, ChainNext
    <3>5. Flat(Append(s, c)) = Unrolled(FlattenSeq(s) \o c)
      BY <3>3, ChainParts DEF Chain
    <3>6. FlattenSeq(s) = F \o b
      BY <1>1, <1>2, ChainParts
    <3>7. (F \o b) \o Append(<<>>, r) = Append(F \o b, r)
      BY <1>3, <2>2
    <3>8. QED
      BY <1>3, <2>2, <3>1, <3>2, <3>3, <3>4, <3>5, <3>6, <3>7
  <2>5. CASE ~(Len(b) + 1 > ActStkBlkEnts)
    <3>1. PushAct(s, a) = Append(f, Append(b, r))
      BY <1>1, <2>1, <2>3, <2>5 DEF PushRecord
    <3>2. Append(b, r) \in Seq(RecordOf(A)) /\ Len(Append(b, r)) <= ActStkBlkEnts
      BY <1>2, <2>2, <2>5, EntsAssumption
    <3>3. Chain(A, PushAct(s, a)) /\ PushAct(s, a) # <<>>
      <4>1. PICK c : c = Append(b, r)
        OBVIOUS
      <4>2. c \in Seq(RecordOf(A)) /\ Len(c) <= ActStkBlkEnts
        BY <3>2, <4>1
      <4>3. Chain(A, Append(Front(s), c)) /\ Append(Front(s), c) # <<>>
        BY <4>2, ChainLast
      <4>4. QED
        BY <1>1, <3>1, <4>1, <4>3
    <3>4. Flat(PushAct(s, a)) = Unrolled(F \o Append(b, r))
      BY <1>1, <1>2, <3>1, <3>2, ChainParts
    <3>5. F \o Append(b, r) = Append(F \o b, r)
      BY <1>2, <1>3, <2>2, ConcatAppend
    <3>6. QED
      BY <1>3, <2>2, <3>3, <3>4, <3>5
  <2>6. QED
    BY <2>4, <2>5
<1>6. QED
  BY <1>4, <1>5

\* The empty chain has no activators.
LEMMA FlatEmpty == Flat(<<>>) = <<>>
<1>1. FlattenSeq(<<>>) = <<>>
  BY DEF FlattenSeq
<1>2. PICK q : q = [i \in 1..0 |-> <<>>]
  OBVIOUS
<1>3. q = <<>>
  BY <1>2
<1>4. Unrolled(<<>>) = FlattenSeq([i \in 1..0 |-> Run(<<>>[i])])
  BY DEF Unrolled
<1>5. [i \in 1..0 |-> Run(<<>>[i])] = <<>>
  OBVIOUS
<1>6. Flat(<<>>) = Unrolled(<<>>)
  BY <1>1 DEF Flat, Unrolled, Run
<1>7. QED
  BY <1>1, <1>4, <1>5, <1>6

\* A chain is as long as it seems without the empty block at its end, which
\* popact (rmisc.r) frees when it is called again.
LEMMA TrimmedFlat ==
  ASSUME NEW A, NEW s, Chain(A, s), Flat(s) # <<>>
  PROVE  /\ s # <<>> /\ Chain(A, Trimmed(s)) /\ Trimmed(s) # <<>>
         /\ Last(Trimmed(s)) # <<>> /\ Flat(Trimmed(s)) = Flat(s)
         /\ TopAct(s) = Last(Last(Trimmed(s))).activator
<1>1. s # <<>>
  BY FlatEmpty
<1>2. PICK f, b : f = Front(s) /\ b = Last(s)
  OBVIOUS
<1>3. /\ f \in Seq(Seq(RecordOf(A))) /\ b \in Seq(RecordOf(A)) /\ s = Append(f, b)
      /\ Chain(A, f) /\ (f # <<>> => Len(Last(f)) = ActStkBlkEnts)
  <2>1. Len(<<>>) <= ActStkBlkEnts /\ <<>> \in Seq(RecordOf(A))
    BY EntsAssumption
  <2>2. QED
    BY <1>1, <1>2, <2>1, ChainLast
<1>4. CASE b = <<>>
  <2>1. Trimmed(s) = f
    BY <1>2, <1>4 DEF Trimmed, NoBlock
  <2>2. Flat(s) = Unrolled(FlattenSeq(f) \o b) /\ FlattenSeq(f) \in Seq(RecordOf(A))
    BY <1>3, ChainParts
  <2>3. FlattenSeq(f) \o b = FlattenSeq(f)
    BY <1>4, <2>2
  <2>4. Flat(s) = Flat(f)
    BY <2>2, <2>3 DEF Flat, Unrolled, Run
  <2>5. f # <<>>
    BY <2>4, FlatEmpty
  <2>6. Last(f) # <<>>
    BY <1>3, <2>5, EntsAssumption
  <2>7. TopAct(s) = Last(Last(f)).activator
    <3>1. TopAct(s) = Last(s[Len(s) - 1]).activator
      BY <1>2, <1>4 DEF TopAct, NoBlock
    <3>2. s[Len(s) - 1] = Last(f)
      <4>1. PICK R : R = Seq(RecordOf(A))
        OBVIOUS
      <4>2. s \in Seq(R) /\ f \in Seq(R)
        BY <1>3, <4>1 DEF Chain
      <4>3. /\ Len(s) \in Nat \ {0} /\ Len(f) = Len(s) - 1
            /\ \A i \in 1..(Len(s) - 1) : f[i] = s[i]
        BY <1>1, <1>2, <4>2, FrontLast
      <4>4. Len(f) \in Nat \ {0} /\ Last(f) = f[Len(f)]
        BY <2>5, <4>2, FrontLast
      <4>5. QED
        BY <4>3, <4>4
    <3>3. QED
      BY <3>1, <3>2
  <2>8. QED
    BY <1>1, <1>3, <2>1, <2>4, <2>5, <2>6, <2>7
<1>5. CASE b # <<>>
  <2>1. Trimmed(s) = s
    BY <1>2, <1>5 DEF Trimmed, NoBlock
  <2>2. TopAct(s) = Last(b).activator
    BY <1>2, <1>5 DEF TopAct, NoBlock
  <2>3. QED
    BY <1>1, <1>2, <1>5, <2>1, <2>2
<1>6. QED
  BY <1>4, <1>5

\* popact takes the last one off the sequence of activators, and topact and
\* popact agree on it.
LEMMA PopFlat ==
  ASSUME NEW A, NEW s, Chain(A, s), Flat(s) # <<>>
  PROVE  /\ s # <<>> /\ ~Empty(s)
         /\ Chain(A, Popped(s)) /\ Popped(s) # <<>>
         /\ Flat(s) \in Seq(A)
         /\ Flat(Popped(s)) = Front(Flat(s))
         /\ Activator(s) = Last(Flat(s)) /\ TopAct(s) = Last(Flat(s))
         /\ Last(Flat(s)) \in A
<1>1. PICK t : t = Trimmed(s)
  OBVIOUS
<1>2. /\ s # <<>> /\ Chain(A, t) /\ t # <<>> /\ Last(t) # <<>> /\ Flat(t) = Flat(s)
      /\ TopAct(s) = Last(Last(t)).activator
  BY <1>1, TrimmedFlat
<1>3. PICK f, b, F : f = Front(t) /\ b = Last(t) /\ F = FlattenSeq(f)
  OBVIOUS
<1>4. /\ f \in Seq(Seq(RecordOf(A))) /\ b \in Seq(RecordOf(A)) /\ t = Append(f, b)
      /\ Len(b) <= ActStkBlkEnts
  <2>1. Len(<<>>) <= ActStkBlkEnts /\ <<>> \in Seq(RecordOf(A))
    BY EntsAssumption
  <2>2. QED
    BY <1>2, <1>3, <2>1, ChainLast
<1>5. PICK g, r : g = Front(b) /\ r = Last(b)
  OBVIOUS
<1>6. /\ g \in Seq(RecordOf(A)) /\ r \in RecordOf(A) /\ b = Append(g, r)
      /\ Len(g) = Len(b) - 1 /\ Len(b) \in Nat \ {0}
  BY <1>2, <1>3, <1>4, <1>5, FrontLast, SplitLast
<1>7. F \in Seq(RecordOf(A)) /\ Flat(t) = Unrolled(F \o b)
  BY <1>3, <1>4, ChainParts
<1>8. PICK P : P = F \o g
  OBVIOUS
<1>9. P \in Seq(RecordOf(A)) /\ F \o b = Append(P, r)
  BY <1>6, <1>7, <1>8, ConcatAppend
<1>10. PICK U : U = Unrolled(P)
  OBVIOUS
<1>11. U \in Seq(A)
  BY <1>6, <1>9, <1>10, UnrolledAppend
<1>12. PICK a : a = r.activator
  OBVIOUS
<1>13. a \in A /\ r.acount \in Nat \ {0}
  BY <1>6, <1>12 DEF RecordOf
<1>14. /\ Activator(s) = a /\ TopAct(s) = a /\ ~Empty(s)
  BY <1>1, <1>2, <1>3, <1>5, <1>12 DEF Activator, Empty, NoBlock
<1>15. CASE r.acount = 1
  <2>1. r = [activator |-> a, acount |-> 1]
    BY <1>6, <1>12, <1>15 DEF RecordOf
  <2>2. Flat(s) = Append(U, a)
    BY <1>2, <1>7, <1>9, <1>10, <1>13, <2>1, UnrolledOne
  <2>3. Popped(s) = Append(Front(t), g)
    BY <1>1, <1>3, <1>5, <1>15 DEF Popped
  <2>4. Len(g) <= ActStkBlkEnts
    BY <1>4, <1>6, EntsAssumption
  <2>5. Chain(A, Popped(s)) /\ Popped(s) # <<>>
    BY <1>2, <1>6, <2>3, <2>4, ChainLast
  <2>6. Flat(Popped(s)) = U
    BY <1>3, <1>4, <1>6, <1>8, <1>10, <2>3, ChainParts
  <2>7. Front(Append(U, a)) = U /\ Last(Append(U, a)) = a /\ Append(U, a) \in Seq(A)
    BY <1>11, <1>13, AppendSplit
  <2>8. QED
    BY <1>2, <1>13, <1>14, <2>2, <2>5, <2>6, <2>7
<1>16. CASE r.acount # 1
  <2>1. PICK q : q = [r EXCEPT !.acount = @ - 1]
    OBVIOUS
  <2>2. q \in RecordOf(A) /\ r = [q EXCEPT !.acount = @ + 1] /\ q.activator = a
    <3>1. PICK n : n = r.acount - 1
      OBVIOUS
    <3>2. n \in Nat \ {0} /\ n + 1 = r.acount
      BY <1>13, <1>16, <3>1
    <3>3. r = [activator |-> a, acount |-> n + 1]
      BY <1>6, <1>12, <3>2 DEF RecordOf
    <3>4. q = [activator |-> a, acount |-> n]
      BY <2>1, <3>1, <3>2, <3>3
    <3>5. QED
      BY <1>13, <3>2, <3>3, <3>4 DEF RecordOf
  <2>3. PICK V : V = Unrolled(Append(P, q))
    OBVIOUS
  <2>4. Flat(s) = Append(V, a)
    <3>1. Unrolled(Append(P, r)) = Append(Unrolled(Append(P, q)), q.activator)
      BY <1>9, <2>2, UnrolledMore
    <3>2. QED
      BY <1>2, <1>7, <1>9, <2>2, <2>3, <3>1
  <2>5. PICK c : c = Append(g, q)
    OBVIOUS
  <2>6. Popped(s) = Append(Front(t), c)
    BY <1>1, <1>3, <1>5, <1>16, <2>1, <2>5 DEF Popped
  <2>7. c \in Seq(RecordOf(A)) /\ Len(c) = Len(b)
    BY <1>6, <2>2, <2>5
  <2>8. Chain(A, Popped(s)) /\ Popped(s) # <<>>
    BY <1>2, <1>4, <2>6, <2>7, ChainLast
  <2>9. Flat(Popped(s)) = V
    <3>1. Flat(Append(f, c)) = Unrolled(F \o c)
      BY <1>3, <1>4, <2>7, ChainParts
    <3>2. F \o Append(g, q) = Append(F \o g, q)
      BY <1>6, <1>7, <2>2, ConcatAppend
    <3>3. QED
      BY <1>3, <1>8, <2>3, <2>5, <2>6, <3>1, <3>2
  <2>10. V \in Seq(A)
    <3>1. Unrolled(Append(P, q)) = U \o Run(q)
      BY <1>9, <1>10, <2>2, UnrolledAppend
    <3>2. Run(q) \in Seq(A)
      BY <2>2, RunType
    <3>3. QED
      BY <1>11, <2>3, <3>1, <3>2, ConcatAppend, <1>13
  <2>11. Front(Append(V, a)) = V /\ Last(Append(V, a)) = a /\ Append(V, a) \in Seq(A)
    BY <1>13, <2>10, AppendSplit
  <2>12. QED
    BY <1>2, <1>13, <1>14, <2>4, <2>8, <2>9, <2>11
<1>17. QED
  BY <1>15, <1>16
-----------------------------------------------------------------------------
(* The activators that a chain names.                                      *)

\* A chain over a smaller set of activators is one over a larger set.
LEMMA ChainWider ==
  ASSUME NEW A, NEW B, A \subseteq B, NEW s, Chain(A, s)
  PROVE  Chain(B, s)
<1>1. \A r \in RecordOf(A) : r \in RecordOf(B)
  BY DEF RecordOf
<1>2. PICK R, Q : R = RecordOf(A) /\ Q = RecordOf(B)
  OBVIOUS
<1>3. R \subseteq Q /\ s \in Seq(Seq(R))
  BY <1>1, <1>2 DEF Chain
<1>4. s \in Seq(Seq(Q))
  BY <1>3
<1>5. QED
  BY <1>2, <1>4 DEF Chain

\* The activators of a chain are those that Activators finds, and they are
\* what Flat lists.
LEMMA ChainActivators ==
  ASSUME NEW A, NEW s, Chain(A, s)
  PROVE  /\ Activators(s) \subseteq A
         /\ Chain(Activators(s), s)
         /\ Flat(s) \in Seq(Activators(s))
<1>1. PICK B : B = Activators(s)
  OBVIOUS
<1>2. PICK R, Q : R = RecordOf(A) /\ Q = RecordOf(B)
  OBVIOUS
<1>3. s \in Seq(Seq(R))
  BY <1>2 DEF Chain
<1>4. \A i \in 1..Len(s) : s[i] \in Seq(R)
  BY <1>3
<1>5. \A i \in 1..Len(s) : \A j \in 1..Len(s[i]) : s[i][j] \in R
  BY <1>4
<1>6. \A i \in 1..Len(s) : \A j \in 1..Len(s[i]) :
        s[i][j].activator \in A /\ s[i][j].activator \in B
  BY <1>1, <1>2, <1>5 DEF Activators, RecordOf
<1>7. B \subseteq A
  BY <1>1, <1>6 DEF Activators
<1>8. \A r \in R : r.activator \in B => r \in Q
  BY <1>2 DEF RecordOf
<1>9. \A i \in 1..Len(s) : \A j \in 1..Len(s[i]) : s[i][j] \in Q
  BY <1>5, <1>6, <1>8
<1>10. \A i \in 1..Len(s) : s[i] \in Seq(Q)
  BY <1>4, <1>9
<1>11. s \in Seq(Seq(Q))
  BY <1>3, <1>10
<1>12. Chain(B, s)
  BY <1>2, <1>11 DEF Chain
<1>13. Flat(s) \in Seq(B)
  <2>1. FlattenSeq(s) \in Seq(Q)
    BY <1>11, FlattenType
  <2>2. \A recs \in Seq(Q) : Unrolled(recs) \in Seq(B)
    <3> SUFFICES ASSUME NEW recs \in Seq(Q) PROVE Unrolled(recs) \in Seq(B)
      OBVIOUS
    <3>1. PICK u : u = [i \in 1..Len(recs) |-> Run(recs[i])]
      OBVIOUS
    <3>2. \A i \in 1..Len(recs) : recs[i] \in RecordOf(B)
      BY <1>2
    <3>3. \A i \in 1..Len(recs) : Run(recs[i]) \in Seq(B)
      BY <3>2, RunType
    <3>4. u \in Seq(Seq(B))
      BY <3>1, <3>3
    <3>5. QED
      BY <3>1, <3>4, FlattenType DEF Unrolled
  <2>3. QED
    BY <2>1, <2>2 DEF Flat, Unrolled, Run
<1>14. QED
  BY <1>1, <1>7, <1>12, <1>13

\* No chain at all, and the block that a first activation starts with.
LEMMA ChainStarts ==
  ASSUME NEW A
  PROVE  /\ Chain(A, <<>>) /\ Chain(A, <<NoBlock>>) /\ Flat(<<NoBlock>>) = <<>>
<1>1. <<>> \in Seq(Seq(RecordOf(A))) /\ <<>> \in Seq(RecordOf(A))
  OBVIOUS
<1>2. Chain(A, <<>>)
  BY <1>1 DEF Chain
<1>3. Chain(A, <<NoBlock>>)
  <2>1. <<NoBlock>> \in Seq(Seq(RecordOf(A))) /\ Len(<<NoBlock>>) = 1 /\ <<NoBlock>>[1] = <<>>
    BY <1>1 DEF NoBlock
  <2>2. Len(<<>>) <= ActStkBlkEnts
    BY EntsAssumption
  <2>3. QED
    BY <2>1, <2>2 DEF Chain
<1>4. Flat(<<NoBlock>>) = <<>>
  <2>1. Flat(Append(<<>>, <<>>)) = Unrolled(FlattenSeq(<<>>) \o <<>>)
    BY <1>1, ChainParts
  <2>2. FlattenSeq(<<>>) = <<>>
    BY DEF FlattenSeq
  <2>3. Flat(<<>>) = Unrolled(<<>>)
    BY <2>2 DEF Flat, Unrolled, Run
  <2>4. Append(<<>>, <<>>) = <<NoBlock>> /\ FlattenSeq(<<>>) \o <<>> = <<>>
    BY <2>2 DEF NoBlock
  <2>5. QED
    BY <2>1, <2>3, <2>4, FlatEmpty
<1>5. QED
  BY <1>2, <1>3, <1>4

\* A chain without activators has one block at most.
LEMMA FlatEmptyShort ==
  ASSUME NEW A, NEW s, Chain(A, s), Flat(s) = <<>>
  PROVE  Len(s) <= 1
<1> SUFFICES ASSUME ~(Len(s) <= 1) PROVE FALSE
  OBVIOUS
<1>0. PICK R : R = Seq(RecordOf(A))
  OBVIOUS
<1>1. s \in Seq(R) /\ s # <<>>
  <2>1. s \in Seq(R)
    BY <1>0 DEF Chain
  <2>2. QED
    BY <2>1
<1>2. PICK f, b : f = Front(s) /\ b = Last(s)
  OBVIOUS
<1>3. /\ f \in Seq(R) /\ b \in R /\ s = Append(f, b)
      /\ f # <<>> => Len(Last(f)) = ActStkBlkEnts
  <2>1. Len(<<>>) <= ActStkBlkEnts /\ <<>> \in Seq(RecordOf(A))
    BY EntsAssumption
  <2>2. QED
    BY <1>0, <1>1, <1>2, <2>1, ChainLast
<1>4. f # <<>>
  <2>1. Len(f) = Len(s) - 1 /\ Len(s) \in Nat
    BY <1>1, <1>2, FrontLast
  <2>2. Len(f) # 0
    BY <2>1
  <2>3. QED
    BY <2>2
<1>5. PICK g, e : g = Front(f) /\ e = Last(f)
  OBVIOUS
<1>6. g \in Seq(R) /\ e \in R /\ f = Append(g, e) /\ Len(e) = ActStkBlkEnts
  BY <1>3, <1>4, <1>5, FrontLast, SplitLast
<1>7. PICK G, F : G = FlattenSeq(g) /\ F = FlattenSeq(f)
  OBVIOUS
<1>8. /\ G \in Seq(RecordOf(A)) /\ F \in Seq(RecordOf(A)) /\ F = G \o e
      /\ Flat(s) = Unrolled(F \o b)
  <2>1. G \in Seq(RecordOf(A)) /\ FlattenSeq(Append(g, e)) = G \o e
    BY <1>0, <1>6, <1>7, ChainParts
  <2>2. F \in Seq(RecordOf(A)) /\ Flat(Append(f, b)) = Unrolled(F \o b)
    BY <1>0, <1>3, <1>7, ChainParts
  <2>3. QED
    BY <1>3, <1>6, <1>7, <2>1, <2>2
<1>9. PICK p : p = F \o b
  OBVIOUS
<1>10. p \in Seq(RecordOf(A)) /\ p # <<>>
  <2>1. Len(F) = Len(G) + Len(e) /\ Len(p) = Len(F) + Len(b) /\ p \in Seq(RecordOf(A))
    BY <1>0, <1>3, <1>6, <1>8, <1>9
  <2>2. Len(G) \in Nat /\ Len(b) \in Nat /\ Len(e) \in Nat \ {0}
    BY <1>0, <1>3, <1>6, <1>8, EntsAssumption
  <2>3. Len(p) # 0
    BY <2>1, <2>2
  <2>4. QED
    BY <2>1, <2>3
<1>11. PICK q, r : q = Front(p) /\ r = Last(p)
  OBVIOUS
<1>12. q \in Seq(RecordOf(A)) /\ r \in RecordOf(A) /\ p = Append(q, r)
  BY <1>10, <1>11, FrontLast, SplitLast
<1>13. PICK u, v : u = Unrolled(q) /\ v = Run(r)
  OBVIOUS
<1>14. v \in Seq(A) /\ Len(v) \in Nat \ {0}
  <2>1. r.acount \in Nat \ {0} /\ Run(r) \in Seq(A) /\ Len(Run(r)) = r.acount
    BY <1>12, RunType
  <2>2. QED
    BY <1>13, <2>1
<1>15. PICK w : w = Flat(s)
  OBVIOUS
<1>16. u \in Seq(A) /\ w = u \o v
  <2>1. u \in Seq(A)
    BY <1>12, <1>13, UnrolledAppend
  <2>2. Unrolled(p) = u \o v
    BY <1>12, <1>13, UnrolledAppend
  <2>3. QED
    BY <1>8, <1>9, <1>15, <2>1, <2>2
<1>17. Len(w) # 0
  BY <1>14, <1>16
<1>18. QED
  BY <1>15, <1>17
-----------------------------------------------------------------------------
(* Counting activations.                                                   *)

\* Where the stacks acts name c: Entries, for acts.
Occurrences(C, acts, c) ==
  {p \in C \X Nat : p[2] \in 1..Len(acts[p[1]]) /\ acts[p[1]][p[2]] = c}
One(c, d) == IF c = d THEN 1 ELSE 0
Counted(C, acts, main, cur) == \A c \in C :
  IsFiniteSet(Occurrences(C, acts, c))
    /\ Len(acts[c]) + One(c, main) = Cardinality(Occurrences(C, acts, c)) + One(c, cur)

Added(acts, n, e) == [acts EXCEPT ![n] = Append(@, e)]

\* P is Q, with an element more if c is e.
Extends(P, Q, c, e) == \E x : x \notin Q /\ P = IF c = e THEN Q \cup {x} ELSE Q

\* One activator more.
LEMMA OccurrenceAdded ==
  ASSUME NEW C, NEW acts \in [C -> Seq(C)], NEW n \in C, NEW e \in C,
         NEW c \in C
  PROVE  Extends(Occurrences(C, Added(acts, n, e), c), Occurrences(C, acts, c), c, e)
<1>0. PICK after, x : after = Added(acts, n, e) /\ x = <<n, Len(acts[n]) + 1>>
  OBVIOUS
<1>1. PICK len : len = Len(acts[n])
  OBVIOUS
<1>2. /\ len \in Nat /\ Len(after[n]) = len + 1 /\ after[n][len + 1] = e
      /\ \A j \in 1..len : after[n][j] = acts[n][j]
  <2>1. after[n] = Append(acts[n], e) /\ acts[n] \in Seq(C)
    BY <1>0 DEF Added
  <2>2. QED
    BY <1>1, <2>1, AppendOne
<1>3. \A d \in C \ {n} : after[d] = acts[d]
  BY <1>0 DEF Added
<1>4. \A d \in C, j \in Nat :
        (j \in 1..Len(after[d]) /\ after[d][j] = c)
          <=> ((j \in 1..Len(acts[d]) /\ acts[d][j] = c) \/ (c = e /\ d = n /\ j = len + 1))
  <2> SUFFICES ASSUME NEW d \in C, NEW j \in Nat
               PROVE  (j \in 1..Len(after[d]) /\ after[d][j] = c)
                        <=> ((j \in 1..Len(acts[d]) /\ acts[d][j] = c)
                              \/ (c = e /\ d = n /\ j = len + 1))
    OBVIOUS
  <2>1. CASE d # n
    BY <1>3, <2>1
  <2>2. CASE d = n
    <3>1. j \in 1..(len + 1) <=> (j \in 1..len \/ j = len + 1)
      BY <1>2
    <3>2. j \in 1..len => j # len + 1
      BY <1>2
    <3>3. QED
      BY <1>1, <1>2, <2>2, <3>1, <3>2
  <2>3. QED
    BY <2>1, <2>2
<1>5. PICK P, Q : P = Occurrences(C, after, c) /\ Q = Occurrences(C, acts, c)
  OBVIOUS
<1>6. \A p : p \in P <=> (p \in C \X Nat /\ p[2] \in 1..Len(after[p[1]]) /\ after[p[1]][p[2]] = c)
  BY <1>5 DEF Occurrences
<1>7. \A p : p \in Q <=> (p \in C \X Nat /\ p[2] \in 1..Len(acts[p[1]]) /\ acts[p[1]][p[2]] = c)
  BY <1>5 DEF Occurrences
<1>8. x \in C \X Nat /\ x[1] = n /\ x[2] = len + 1
  BY <1>0, <1>1, <1>2
<1>9. \A p \in C \X Nat : p[1] \in C /\ p[2] \in Nat /\ (p = x <=> p[1] = n /\ p[2] = len + 1)
  BY <1>0, <1>1, <1>8
<1>10. x \notin Q
  BY <1>1, <1>2, <1>7, <1>8
<1>11. ASSUME NEW p \in C \X Nat PROVE p \in P <=> (p \in Q \/ (c = e /\ p = x))
  <2>1. PICK d, j : d = p[1] /\ j = p[2]
    OBVIOUS
  <2>2. d \in C /\ j \in Nat /\ (p = x <=> d = n /\ j = len + 1)
    BY <1>9, <2>1
  <2>3. p \in P <=> (j \in 1..Len(after[d]) /\ after[d][j] = c)
    BY <1>6, <2>1
  <2>4. p \in Q <=> (j \in 1..Len(acts[d]) /\ acts[d][j] = c)
    BY <1>7, <2>1
  <2>5. QED
    BY <1>4, <2>2, <2>3, <2>4
<1>12. P \subseteq C \X Nat /\ Q \subseteq C \X Nat
  BY <1>6, <1>7
<1>13. c = e => P = Q \cup {x}
  BY <1>8, <1>11, <1>12
<1>14. c # e => P = Q
  BY <1>11, <1>12
<1>15. QED
  BY <1>0, <1>5, <1>10, <1>13, <1>14 DEF Extends

LEMMA CountStarts ==
  ASSUME NEW C, NEW main \in C,
         NEW acts, acts = [c \in C |-> IF c = main THEN <<main>> ELSE <<>>]
  PROVE  Counted(C, acts, main, main)
<1> SUFFICES ASSUME NEW c \in C
             PROVE  /\ IsFiniteSet(Occurrences(C, acts, c))
                    /\ Len(acts[c]) + One(c, main)
                         = Cardinality(Occurrences(C, acts, c)) + One(c, main)
  BY DEF Counted
<1>1. PICK P, x : P = Occurrences(C, acts, c) /\ x = <<main, 1>>
  OBVIOUS
<1>2. \A p : p \in P <=> (p \in C \X Nat /\ p[2] \in 1..Len(acts[p[1]]) /\ acts[p[1]][p[2]] = c)
  BY <1>1 DEF Occurrences
<1>3. \A d \in C, j \in Nat : j \in 1..Len(acts[d]) <=> d = main /\ j = 1
  <2>1. Len(<<main>>) = 1 /\ Len(<<>>) = 0
    OBVIOUS
  <2>2. \A d \in C : Len(acts[d]) = IF d = main THEN 1 ELSE 0
    BY <2>1
  <2>3. QED
    BY <2>2
<1>4. acts[main] = <<main>> /\ acts[main][1] = main
  OBVIOUS
<1>5. x \in C \X Nat /\ \A p \in C \X Nat : p[1] \in C /\ p[2] \in Nat /\ (p = x <=> p[1] = main /\ p[2] = 1)
  BY <1>1
<1>6. \A p : p \in P <=> (p = x /\ c = main)
  <2> SUFFICES ASSUME NEW p PROVE p \in P <=> (p = x /\ c = main)
    OBVIOUS
  <2>1. CASE p \in C \X Nat
    <3>1. p \in P <=> (p[1] = main /\ p[2] = 1 /\ acts[p[1]][p[2]] = c)
      BY <1>2, <1>3, <2>1
    <3>2. p = x <=> (p[1] = main /\ p[2] = 1)
      BY <1>5, <2>1
    <3>3. QED
      BY <1>4, <3>1, <3>2
  <2>2. CASE p \notin C \X Nat
    BY <1>2, <1>5, <2>2
  <2>3. QED
    BY <2>1, <2>2
<1>7. CASE c = main
  <2>1. P = {x}
    BY <1>6, <1>7
  <2>2. IsFiniteSet(P) /\ Cardinality(P) = 1
    BY <2>1, FS_Singleton
  <2>3. Len(acts[c]) = 1
    BY <1>4, <1>7
  <2>4. QED
    BY <1>1, <1>7, <2>2, <2>3 DEF One
<1>8. CASE c # main
  <2>1. P = {}
    BY <1>6, <1>8
  <2>2. IsFiniteSet(P) /\ Cardinality(P) = 0
    BY <2>1, FS_EmptySet
  <2>3. Len(acts[c]) = 0
    BY <1>8
  <2>4. QED
    BY <1>1, <1>8, <2>2, <2>3 DEF One
<1>9. QED
  BY <1>7, <1>8

\* The running co-expression activates n ...
LEMMA CountGrows ==
  ASSUME NEW C, NEW main \in C, NEW cur \in C, NEW acts \in [C -> Seq(C)],
         Counted(C, acts, main, cur),
         NEW n \in C, NEW after, after = Added(acts, n, cur)
  PROVE  Counted(C, after, main, n)
<1> SUFFICES ASSUME NEW c \in C
             PROVE  /\ IsFiniteSet(Occurrences(C, after, c))
                    /\ Len(after[c]) + One(c, main)
                         = Cardinality(Occurrences(C, after, c)) + One(c, n)
  BY DEF Counted
<1>1. PICK P, Q : P = Occurrences(C, after, c) /\ Q = Occurrences(C, acts, c)
  OBVIOUS
<1>2. PICK x : x \notin Q /\ P = IF c = cur THEN Q \cup {x} ELSE Q
  <2>1. Extends(Occurrences(C, Added(acts, n, cur), c), Occurrences(C, acts, c), c, cur)
    BY OccurrenceAdded
  <2>2. QED
    BY <1>1, <2>1 DEF Extends
<1>3. /\ IsFiniteSet(Q) /\ Cardinality(Q) \in Nat
      /\ Len(acts[c]) + One(c, main) = Cardinality(Q) + One(c, cur)
  BY <1>1, FS_CardinalityType DEF Counted
<1>4. IsFiniteSet(P) /\ Cardinality(P) = Cardinality(Q) + One(c, cur)
  <2>1. CASE c = cur
    <3>1. P = Q \cup {x} /\ x \notin Q
      BY <1>2, <2>1
    <3>2. IsFiniteSet(P) /\ Cardinality(P) = Cardinality(Q) + 1
      BY <1>3, <3>1, FS_AddElement
    <3>3. QED
      BY <2>1, <3>2 DEF One
  <2>2. CASE c # cur
    BY <1>2, <1>3, <2>2 DEF One
  <2>3. QED
    BY <2>1, <2>2
<1>5. Len(acts[c]) \in Nat /\ Len(after[c]) = Len(acts[c]) + One(c, n)
  <2>1. CASE c = n
    BY <2>1, AppendOne DEF One, Added
  <2>2. CASE c # n
    BY <2>2 DEF One, Added
  <2>3. QED
    BY <2>1, <2>2
<1>6. One(c, main) \in Nat /\ One(c, cur) \in Nat /\ One(c, n) \in Nat
  BY DEF One
<1>7. QED
  BY <1>1, <1>3, <1>4, <1>5, <1>6

\* ... and returns to its last activator.
LEMMA CountShrinks ==
  ASSUME NEW C, NEW main \in C, NEW cur \in C, NEW acts \in [C -> Seq(C)],
         Counted(C, acts, main, cur), acts[cur] # <<>>,
         NEW after, after = [acts EXCEPT ![cur] = Front(@)]
  PROVE  Counted(C, after, main, Last(acts[cur]))
<1>1. PICK e, f : e = Last(acts[cur]) /\ f = Front(acts[cur])
  OBVIOUS
<1>2. e \in C /\ f \in Seq(C) /\ acts[cur] = Append(f, e)
  <2>1. acts[cur] \in Seq(C)
    OBVIOUS
  <2>2. QED
    BY <1>1, <2>1, FrontLast, SplitLast
<1>3. /\ after \in [C -> Seq(C)] /\ after[cur] = f
      /\ acts = [after EXCEPT ![cur] = Append(@, e)]
  <2>1. after = [acts EXCEPT ![cur] = f]
    BY <1>1
  <2>2. PICK a : a = [after EXCEPT ![cur] = Append(@, e)]
    OBVIOUS
  <2>3. after[cur] = f /\ after \in [C -> Seq(C)]
    BY <1>2, <2>1
  <2>4. a = [after EXCEPT ![cur] = acts[cur]]
    BY <1>2, <2>2, <2>3
  <2>5. a = acts
    BY <2>1, <2>4
  <2>6. QED
    BY <2>2, <2>3, <2>5
<1> SUFFICES ASSUME NEW c \in C
             PROVE  /\ IsFiniteSet(Occurrences(C, after, c))
                    /\ Len(after[c]) + One(c, main)
                         = Cardinality(Occurrences(C, after, c)) + One(c, e)
  BY <1>1 DEF Counted
<1>4. PICK P, Q : P = Occurrences(C, acts, c) /\ Q = Occurrences(C, after, c)
  OBVIOUS
<1>5. PICK x : x \notin Q /\ P = IF c = e THEN Q \cup {x} ELSE Q
  <2>1. Extends(Occurrences(C, Added(after, cur, e), c), Occurrences(C, after, c), c, e)
    BY <1>2, <1>3, OccurrenceAdded
  <2>2. acts = Added(after, cur, e)
    BY <1>3 DEF Added
  <2>3. QED
    BY <1>4, <2>1, <2>2 DEF Extends
<1>6. /\ IsFiniteSet(P) /\ Cardinality(P) \in Nat
      /\ Len(acts[c]) + One(c, main) = Cardinality(P) + One(c, cur)
  BY <1>4, FS_CardinalityType DEF Counted
<1>7. IsFiniteSet(Q) /\ Cardinality(Q) \in Nat /\ Cardinality(P) = Cardinality(Q) + One(c, e)
  <2>1. CASE c = e
    <3>1. Q = P \ {x} /\ x \in P
      BY <1>5, <2>1
    <3>2. IsFiniteSet(Q) /\ Cardinality(Q) = Cardinality(P) - 1
      BY <1>6, <3>1, FS_RemoveElement
    <3>3. QED
      BY <1>6, <2>1, <3>2, FS_CardinalityType DEF One
  <2>2. CASE c # e
    BY <1>5, <1>6, <2>2 DEF One
  <2>3. QED
    BY <2>1, <2>2
<1>8. Len(after[c]) \in Nat /\ Len(acts[c]) = Len(after[c]) + One(c, cur)
  <2>1. CASE c = cur
    BY <1>2, <1>3, <2>1, AppendOne DEF One
  <2>2. CASE c # cur
    BY <2>2 DEF One
  <2>3. QED
    BY <2>1, <2>2
<1>9. One(c, main) \in Nat /\ One(c, cur) \in Nat /\ One(c, e) \in Nat
  BY DEF One
<1>10. Len(after[c]) + One(c, main) = Cardinality(Q) + One(c, e)
  <2>1. PICK i, j, k, a, q, m : /\ i = One(c, main) /\ j = One(c, cur) /\ k = One(c, e)
                                /\ a = Len(after[c]) /\ q = Cardinality(Q) /\ m = Len(acts[c])
    OBVIOUS
  <2>2. /\ i \in Nat /\ j \in Nat /\ k \in Nat /\ a \in Nat /\ q \in Nat
        /\ m = a + j /\ m + i = (q + k) + j
    BY <1>6, <1>7, <1>8, <1>9, <2>1
  <2>3. a + i = q + k
    BY <2>2
  <2>4. QED
    BY <2>1, <2>3
<1>11. QED
  BY <1>4, <1>7, <1>10
-----------------------------------------------------------------------------
(* The inductive invariant.  What StacksSound says of a state follows from *)
(* it; what it adds is the trail of the activations that have not          *)
(* returned, that the stacks of a co-expression name none that has been    *)
(* freed, and that a block which is not allocated refers to nothing.       *)

Flats == [c \in Coexpr |-> Flat(actstk[c])]
Chained == actstk \in [Coexpr -> Seq(Seq(Record))] /\ \A c \in Coexpr : Chain(Allocated, actstk[c])
Kept == \A c \in Coexpr : held[c] \subseteq Allocated /\ freshblk[c] \subseteq Allocated
Unused == \A c \in Coexpr \ Allocated : actstk[c] = <<>> /\ held[c] = {} /\ freshblk[c] = {}
Nested == Nest(Coexpr, Flats, Main, current) /\ Counted(Coexpr, Flats, Main, current)
IInv == TypeOK /\ NeverEmpty /\ Chained /\ Kept /\ Unused /\ Nested

-----------------------------------------------------------------------------
(* What holds in every state with the invariant.                           *)

\* The stacks as plain sequences of the co-expressions that are allocated.
LEMMA FlatsType ==
  ASSUME IInv
  PROVE  /\ Flats \in [Coexpr -> Seq(Coexpr)] /\ Allocated \subseteq Coexpr
         /\ \A c \in Coexpr : Flats[c] = Flat(actstk[c]) /\ Flats[c] \in Seq(Activators(actstk[c]))
         /\ \A c \in Coexpr : Activators(actstk[c]) \subseteq Allocated
<1>1. Allocated \subseteq Coexpr
  BY MainAssumption DEF IInv, TypeOK, Allocated
<1>2. \A c \in Coexpr : Chain(Allocated, actstk[c])
  BY DEF IInv, Chained
<1>3. \A c \in Coexpr : /\ Activators(actstk[c]) \subseteq Allocated
                        /\ Flat(actstk[c]) \in Seq(Activators(actstk[c]))
  BY <1>2, ChainActivators
<1>4. \A c \in Coexpr : Chain(Coexpr, actstk[c])
  BY <1>1, <1>2, ChainWider
<1>5. \A c \in Coexpr : Flat(actstk[c]) \in Seq(Coexpr)
  <2> SUFFICES ASSUME NEW c \in Coexpr PROVE Flat(actstk[c]) \in Seq(Coexpr)
    OBVIOUS
  <2>1. PICK A : A = Activators(actstk[c])
    OBVIOUS
  <2>2. A \subseteq Coexpr /\ Flat(actstk[c]) \in Seq(A)
    BY <1>1, <1>3, <2>1
  <2>3. QED
    BY <2>2
<1>6. QED
  BY <1>1, <1>3, <1>5 DEF Flats

\* The running co-expression has an activator, which is allocated.
LEMMA Resumable ==
  ASSUME IInv
  PROVE  /\ current \in Allocated /\ current \in Coexpr
         /\ Chain(Allocated, actstk[current]) /\ Flat(actstk[current]) # <<>>
<1>1. current \in Allocated /\ current \in Coexpr /\ Main \in Coexpr
  BY FlatsType, MainAssumption DEF IInv, TypeOK
<1>2. PICK top, trail, rank : Trail(Coexpr, Flats, Main, current, top, trail, rank)
  BY DEF IInv, Nested, Nest
<1>3. top \in Nat /\ top >= 2 /\ trail[top] = current
  BY <1>2 DEF Trail, TrailEnds
<1>4. rank[top] \in 1..Len(Flats[current])
  <2>1. top \in 2..top
    BY <1>3
  <2>2. QED
    BY <1>2, <1>3, <2>1 DEF Trail, TrailDealt
<1>5. Flats[current] # <<>>
  <2>1. Flats[current] = <<>> => Len(Flats[current]) = 0
    OBVIOUS
  <2>2. QED
    BY <1>4, <2>1
<1>6. QED
  BY <1>1, <1>5, FlatsType DEF IInv, Chained

\* Icon code can name allocated co-expressions only.
LEMMA NameableAllocated == ASSUME IInv PROVE Nameable \subseteq Allocated
<1>1. /\ current \in Allocated /\ current \in Coexpr
      /\ Chain(Allocated, actstk[current]) /\ Flat(actstk[current]) # <<>>
  BY Resumable
<1>2. PICK f : f = Flat(actstk[current])
  OBVIOUS
<1>3. TopAct(actstk[current]) = Last(f) /\ f \in Seq(Allocated) /\ f # <<>>
  BY <1>1, <1>2, PopFlat
<1>4. Last(f) \in Allocated
  BY <1>3, FrontLast
<1>5. held[current] \subseteq Allocated /\ Main \in Allocated
  BY <1>1 DEF IInv, Kept, Allocated
<1>6. QED
  BY <1>1, <1>3, <1>4, <1>5 DEF Nameable

\* Marking reaches the roots, and all that a marked block refers to.
LEMMA MarkedClosed ==
  ASSUME IInv
  PROVE  /\ Marked \subseteq Coexpr /\ Roots \subseteq Marked
         /\ \A c \in Marked : Marks(c) \subseteq Marked
<1>1. Marked \subseteq Coexpr
  BY DEF Marked
<1>2. Roots \subseteq Coexpr
  BY Resumable, MainAssumption DEF IInv, TypeOK, Roots
<1>3. Roots \subseteq Marked
  BY <1>2 DEF Marked
<1>4. ASSUME NEW c \in Marked PROVE Marks(c) \subseteq Marked
  <2>1. Marks(c) \subseteq Coexpr
    <3>1. Activators(actstk[c]) \subseteq Coexpr
      BY <1>1, FlatsType
    <3>2. held[c] \subseteq Coexpr /\ freshblk[c] \subseteq Coexpr
      BY <1>1 DEF IInv, TypeOK
    <3>3. QED
      BY <3>1, <3>2 DEF Marks
  <2>2. ASSUME NEW S \in SUBSET Coexpr, Roots \subseteq S, Closed(S) PROVE Marks(c) \subseteq S
    <3>1. c \in S
      BY <2>2 DEF Marked
    <3>2. QED
      BY <2>2, <3>1 DEF Closed
  <2>3. QED
    BY <2>1, <2>2 DEF Marked
<1>5. QED
  BY <1>1, <1>3, <1>4

\* Every co-expression on the trail is marked: each was activated by the one
\* before it, and the last one runs.
LEMMA TrailMarked ==
  ASSUME IInv, NEW top, NEW trail, NEW rank,
         Trail(Coexpr, Flats, Main, current, top, trail, rank)
  PROVE  \A i \in 2..top : trail[i] \in Marked
<1>1. /\ top \in Nat /\ top >= 2 /\ trail \in [Nat -> Coexpr] /\ trail[top] = current
  BY DEF Trail, TrailEnds
<1>2. PICK T : T = {k \in Nat : k <= top - 2 /\ trail[top - k] \notin Marked}
  OBVIOUS
<1>3. ASSUME T # {} PROVE FALSE
  <2>1. T \subseteq Nat
    BY <1>2
  <2>2. PICK k \in T : \A y \in T : k <= y
    BY <1>3, <2>1, Minimum
  <2>3. k \in Nat /\ k <= top - 2 /\ trail[top - k] \notin Marked
    BY <1>2, <2>2
  <2>4. current \in Marked
    BY MarkedClosed DEF Roots
  <2>5. k # 0
    BY <1>1, <2>3, <2>4
  <2>6. PICK j, m : j = k - 1 /\ m = top - j
    OBVIOUS
  <2>7. /\ j \in Nat /\ j <= top - 2 /\ j < k /\ m \in 2..top /\ m \in Nat
        /\ m - 1 = top - k
    BY <1>1, <2>3, <2>5, <2>6
  <2>8. j \notin T
    BY <2>2, <2>3, <2>7
  <2>9. trail[m] \in Marked /\ trail[m] \in Coexpr
    BY <1>1, <1>2, <2>6, <2>7, <2>8
  <2>10. PICK c, f : c = trail[m] /\ f = Flats[c]
    OBVIOUS
  <2>11. rank[m] \in 1..Len(f) /\ f[rank[m]] = trail[m - 1]
    BY <2>7, <2>10 DEF Trail, TrailDealt
  <2>12. f \in Seq(Activators(actstk[c]))
    BY <2>9, <2>10, FlatsType
  <2>13. f[rank[m]] \in Activators(actstk[c])
    BY <2>11, <2>12
  <2>14. Activators(actstk[c]) \subseteq Marked
    BY <2>9, <2>10, MarkedClosed DEF Marks
  <2>15. QED
    BY <2>3, <2>7, <2>11, <2>13, <2>14
<1>4. ASSUME NEW i \in 2..top, trail[i] \notin Marked PROVE FALSE
  <2>1. top - i \in Nat /\ top - i <= top - 2 /\ top - (top - i) = i
    BY <1>1
  <2>2. top - i \in T
    BY <1>2, <1>4, <2>1
  <2>3. QED
    BY <1>3, <2>2
<1>5. QED
  BY <1>4

\* What is not marked has no activators: it waits for nobody.
LEMMA UnmarkedIdle ==
  ASSUME IInv, NEW c \in Coexpr \ Marked
  PROVE  Flat(actstk[c]) = <<>> /\ Len(actstk[c]) <= 1
<1>1. PICK top, trail, rank : Trail(Coexpr, Flats, Main, current, top, trail, rank)
  BY DEF IInv, Nested, Nest
<1>2. Flats[c] = Flat(actstk[c]) /\ Flats[c] \in Seq(Coexpr)
  BY FlatsType
<1>3. Len(Flats[c]) = 0
  <2> SUFFICES ASSUME Len(Flats[c]) # 0 PROVE FALSE
    OBVIOUS
  <2>1. 1 \in 1..Len(Flats[c])
    BY <1>2
  <2>2. PICK i \in 2..top : trail[i] = c
    BY <1>1, <2>1 DEF Trail, TrailCovers
  <2>3. trail[i] \in Marked
    BY <1>1, TrailMarked
  <2>4. QED
    BY <2>2, <2>3
<1>4. Flat(actstk[c]) = <<>>
  BY <1>2, <1>3, LenZero
<1>5. QED
  BY <1>4, FlatEmptyShort DEF IInv, Chained

\* Balanced is what Counted says of the stacks.
LEMMA CountedBalanced == ASSUME IInv PROVE Balanced
<1> SUFFICES ASSUME NEW c \in Coexpr
             PROVE  Len(Flat(actstk[c])) + One(c, Main) = Cardinality(Entries(c)) + One(c, current)
  BY DEF Balanced, One
<1>1. PICK E, O : E = Entries(c) /\ O = Occurrences(Coexpr, Flats, c)
  OBVIOUS
<1>2. \A d \in Coexpr : Flats[d] = Flat(actstk[d]) /\ Len(Flats[d]) \in Nat
  BY FlatsType
<1>3. \A p : p \in E <=> \E d \in Coexpr : \E i \in 1..Len(Flats[d]) : Flats[d][i] = c /\ p = <<d, i>>
  BY <1>1, <1>2 DEF Entries
<1>4. \A p : p \in O <=> (p \in Coexpr \X Nat /\ p[2] \in 1..Len(Flats[p[1]]) /\ Flats[p[1]][p[2]] = c)
  BY <1>1 DEF Occurrences
<1>5. ASSUME NEW p \in E PROVE p \in O
  <2>1. PICK d \in Coexpr : \E i \in 1..Len(Flats[d]) : Flats[d][i] = c /\ p = <<d, i>>
    BY <1>3
  <2>2. PICK i \in 1..Len(Flats[d]) : Flats[d][i] = c /\ p = <<d, i>>
    BY <2>1
  <2>3. i \in Nat /\ p[1] = d /\ p[2] = i /\ p \in Coexpr \X Nat
    BY <1>2, <2>2
  <2>4. QED
    BY <1>4, <2>2, <2>3
<1>6. ASSUME NEW p \in O PROVE p \in E
  <2>1. p \in Coexpr \X Nat /\ p[2] \in 1..Len(Flats[p[1]]) /\ Flats[p[1]][p[2]] = c
    BY <1>4
  <2>2. p[1] \in Coexpr /\ p = <<p[1], p[2]>>
    BY <2>1
  <2>3. QED
    BY <1>3, <2>1, <2>2
<1>7. E = O
  BY <1>5, <1>6
<1>8. Len(Flats[c]) + One(c, Main) = Cardinality(O) + One(c, current)
  BY <1>1 DEF IInv, Nested, Counted
<1>9. QED
  BY <1>1, <1>2, <1>7, <1>8

LEMMA InvariantSound == ASSUME IInv PROVE StacksSound
<1>1. Packed
  <2> SUFFICES ASSUME NEW c \in Coexpr, NEW i \in 1..Len(actstk[c])
               PROVE  /\ Len(actstk[c][i]) <= ActStkBlkEnts
                      /\ i < Len(actstk[c]) => Len(actstk[c][i]) = ActStkBlkEnts
    BY DEF Packed
  <2>1. Chain(Allocated, actstk[c])
    BY DEF IInv, Chained
  <2>2. QED
    BY <2>1 DEF Chain
<1>2. SourceIsActivator
  BY Resumable, PopFlat DEF SourceIsActivator
<1>3. NoDangling
  <2>1. Allocated \subseteq Coexpr /\ \A c \in Coexpr : Activators(actstk[c]) \subseteq Allocated
    BY FlatsType
  <2>2. QED
    BY <2>1 DEF IInv, Kept, NoDangling
<1>4. GarbageIsIdle
  <2>1. stklist \subseteq Coexpr
    BY DEF IInv, TypeOK
  <2>2. QED
    BY <2>1, UnmarkedIdle DEF GarbageIsIdle
<1>5. QED
  BY <1>1, <1>2, <1>3, <1>4, CountedBalanced DEF IInv, StacksSound
-----------------------------------------------------------------------------
(* The steps.                                                              *)

\* A step that leaves the stacks and the running co-expression alone, and
\* frees nothing.
LEMMA StacksUnchanged ==
  ASSUME IInv, UNCHANGED <<actstk, current>>, Allocated \subseteq Allocated'
  PROVE  Chained' /\ Nested'
<1>1. \A c \in Coexpr : Chain(Allocated', actstk[c])
  BY ChainWider DEF IInv, Chained
<1>2. Chained'
  BY <1>1 DEF IInv, Chained
<1>3. Flats' = Flats
  BY DEF Flats
<1>4. Nested'
  BY <1>3 DEF IInv, Nested
<1>5. QED
  BY <1>2, <1>4

LEMMA CreateBeginStep ==
  ASSUME IInv, NEW c \in Coexpr, CreateBegin(c)
  PROVE  IInv'
<1>1. /\ stklist' = stklist \cup {c} /\ c \notin Allocated /\ creating' = c
      /\ UNCHANGED <<current, actstk, held, freshblk, ready, stopped>>
  BY DEF CreateBegin
<1>2. Allocated' = Allocated \cup {c}
  BY <1>1 DEF Allocated
<1>3. Chained' /\ Nested'
  BY <1>1, <1>2, StacksUnchanged
<1>4. Kept' /\ Unused'
  BY <1>1, <1>2 DEF IInv, Kept, Unused
<1>5. TypeOK'
  BY <1>1, <1>2 DEF IInv, TypeOK, Allocated
<1>6. QED
  BY <1>1, <1>3, <1>4, <1>5 DEF IInv, NeverEmpty

LEMMA CreateEndStep ==
  ASSUME IInv, CreateEnd
  PROVE  IInv'
<1>1. PICK locals \in SUBSET held[current] :
        /\ freshblk' = [freshblk EXCEPT ![creating] = locals]
        /\ held' = [held EXCEPT ![creating] = locals, ![current] = @ \cup {creating}]
  BY DEF CreateEnd
<1>2. /\ creating \in stklist /\ ready' = [ready EXCEPT ![creating] = TRUE] /\ creating' = None
      /\ UNCHANGED <<stklist, current, actstk, stopped>>
  BY DEF CreateEnd, IInv, TypeOK
<1>3. /\ creating \in Allocated /\ creating \in Coexpr /\ Allocated' = Allocated
      /\ current \in Allocated /\ current \in Coexpr
      /\ held[current] \subseteq Allocated /\ Allocated \subseteq Coexpr
  BY <1>2, Resumable, FlatsType DEF Allocated, IInv, Kept
<1>4. Chained' /\ Nested'
  BY <1>2, <1>3, StacksUnchanged
<1>5. /\ \A c \in Coexpr : held'[c] \subseteq held[c] \cup locals \cup {creating}
      /\ \A c \in Coexpr \ {current, creating} : held'[c] = held[c]
      /\ \A c \in Coexpr : freshblk'[c] \subseteq freshblk[c] \cup locals
      /\ \A c \in Coexpr \ {creating} : freshblk'[c] = freshblk[c]
  BY <1>1 DEF IInv, TypeOK
<1>6. Kept'
  BY <1>3, <1>5 DEF IInv, Kept
<1>7. Unused'
  BY <1>2, <1>3, <1>5 DEF IInv, Unused
<1>8. held' \in [Coexpr -> SUBSET Coexpr] /\ freshblk' \in [Coexpr -> SUBSET Coexpr]
  BY <1>1, <1>3 DEF IInv, TypeOK
<1>9. TypeOK'
  BY <1>2, <1>3, <1>8 DEF IInv, TypeOK
<1>10. QED
  BY <1>2, <1>4, <1>6, <1>7, <1>9 DEF IInv, NeverEmpty

LEMMA RefreshStep ==
  ASSUME IInv, NEW x \in Coexpr, NEW c \in Coexpr, Refresh(x, c)
  PROVE  IInv'
<1>1. /\ c \notin Allocated /\ stklist' = stklist \cup {c}
      /\ UNCHANGED <<current, actstk, creating, stopped>>
  BY DEF Refresh
<1>2. /\ Allocated' = Allocated \cup {c} /\ current \in Allocated /\ current \in Coexpr
      /\ Allocated \subseteq Coexpr
  BY <1>1, Resumable, FlatsType DEF Allocated
<1>3. Chained' /\ Nested'
  BY <1>1, <1>2, StacksUnchanged
<1>4. /\ held' \in [Coexpr -> SUBSET Coexpr] /\ freshblk' \in [Coexpr -> SUBSET Coexpr]
      /\ ready' \in [Coexpr -> BOOLEAN]
      /\ \A d \in Coexpr : /\ held'[d] \subseteq held[d] \cup freshblk[x] \cup {c}
                           /\ freshblk'[d] \subseteq freshblk[d] \cup freshblk[x]
      /\ \A d \in Coexpr \ Allocated' : held'[d] = held[d] /\ freshblk'[d] = freshblk[d]
  <2>1. CASE x = Main
    <3>1. UNCHANGED <<held, freshblk, ready>>
      BY <2>1 DEF Refresh
    <3>2. QED
      BY <3>1 DEF IInv, TypeOK
  <2>2. CASE x # Main
    <3>1. /\ freshblk' = [freshblk EXCEPT ![c] = freshblk[x]]
          /\ held' = [held EXCEPT ![c] = freshblk[x], ![current] = @ \cup {c}]
          /\ ready' = [ready EXCEPT ![c] = TRUE]
      BY <2>2 DEF Refresh
    <3>2. /\ held \in [Coexpr -> SUBSET Coexpr] /\ freshblk \in [Coexpr -> SUBSET Coexpr]
          /\ ready \in [Coexpr -> BOOLEAN]
      BY DEF IInv, TypeOK
    <3>3. \A d \in Coexpr : /\ held'[d] \subseteq held[d] \cup freshblk[x] \cup {c}
                           /\ freshblk'[d] \subseteq freshblk[d] \cup freshblk[x]
      BY <3>1, <3>2
    <3>4. \A d \in Coexpr \ {current, c} : held'[d] = held[d] /\ freshblk'[d] = freshblk[d]
      BY <3>1, <3>2
    <3>5. /\ held' \in [Coexpr -> SUBSET Coexpr] /\ freshblk' \in [Coexpr -> SUBSET Coexpr]
          /\ ready' \in [Coexpr -> BOOLEAN]
      BY <3>1, <3>2
    <3>6. QED
      BY <1>2, <3>3, <3>4, <3>5
  <2>3. QED
    BY <2>1, <2>2
<1>5. Kept'
  <2>1. freshblk[x] \subseteq Allocated
    BY DEF IInv, Kept
  <2>2. QED
    BY <1>2, <1>4, <2>1 DEF IInv, Kept
<1>6. Unused'
  BY <1>1, <1>2, <1>4 DEF IInv, Unused
<1>7. TypeOK'
  BY <1>1, <1>2, <1>4 DEF IInv, TypeOK, Allocated
<1>8. QED
  BY <1>1, <1>3, <1>5, <1>6, <1>7 DEF IInv, NeverEmpty

LEMMA DropStep ==
  ASSUME IInv, NEW c \in Coexpr, Drop(c)
  PROVE  IInv'
<1>1. /\ held' = [held EXCEPT ![current] = @ \ {c}]
      /\ UNCHANGED <<stklist, current, actstk, freshblk, ready, creating, stopped>>
  BY DEF Drop
<1>2. Allocated' = Allocated
  BY <1>1 DEF Allocated
<1>3. Chained' /\ Nested'
  BY <1>1, <1>2, StacksUnchanged
<1>4. \A d \in Coexpr : held'[d] \subseteq held[d]
  BY <1>1 DEF IInv, TypeOK
<1>5. Kept' /\ Unused'
  BY <1>1, <1>2, <1>4 DEF IInv, Kept, Unused
<1>6. held' \in [Coexpr -> SUBSET Coexpr]
  BY <1>1 DEF IInv, TypeOK
<1>7. TypeOK'
  BY <1>1, <1>2, <1>6 DEF IInv, TypeOK
<1>8. QED
  BY <1>1, <1>3, <1>5, <1>7 DEF IInv, NeverEmpty

\* What a switch that hands v over does to the references.
LEMMA HandOver ==
  ASSUME IInv, NEW n \in Allocated, NEW v \in Allocated \cup {None},
         held' = [held EXCEPT ![n] = @ \cup ({v} \ {None})],
         Chained', Nested', current' = n, NeverEmpty', stopped' \in {"no", "empty", "wild"},
         \A c \in Coexpr \ Allocated : actstk'[c] = actstk[c],
         UNCHANGED <<stklist, freshblk, ready, creating>>
  PROVE  IInv'
<1>1. Allocated' = Allocated /\ Allocated \subseteq Coexpr /\ n \in Coexpr
  BY FlatsType DEF Allocated
<1>2. \A c \in Coexpr : held'[c] \subseteq held[c] \cup ({v} \ {None})
  BY DEF IInv, TypeOK
<1>3. \A c \in Coexpr \ {n} : held'[c] = held[c]
  BY DEF IInv, TypeOK
<1>4. {v} \ {None} \subseteq Allocated
  OBVIOUS
<1>5. Kept'
  BY <1>1, <1>2, <1>4 DEF IInv, Kept
<1>6. Unused'
  BY <1>1, <1>3 DEF IInv, Unused
<1>7. held' \in [Coexpr -> SUBSET Coexpr]
  BY <1>1, <1>4 DEF IInv, TypeOK
<1>8. TypeOK'
  <2>1. \A c \in Coexpr : actstk'[c] \in Seq(Seq(Record))
    BY DEF Chained
  <2>2. current' \in Allocated'
    BY <1>1
  <2>3. QED
    BY <1>7, <2>1, <2>2 DEF IInv, TypeOK
<1>9. QED
  BY <1>5, <1>6, <1>8 DEF IInv

\* An activation adds to the stack of its target, ...
LEMMA ActivateFlats ==
  ASSUME IInv, NEW n \in Coexpr, NEW v, Activate(n, v)
  PROVE  Flats' = Added(Flats, n, current) /\ Chained'
<1>1. PICK s : s = IF actstk[n] = <<>> THEN <<NoBlock>> ELSE actstk[n]
  OBVIOUS
<1>2. PICK t : t = PushAct(s, current)
  OBVIOUS
<1>3. actstk' = [actstk EXCEPT ![n] = t] /\ UNCHANGED stklist
  BY <1>1, <1>2 DEF Activate
<1>4. /\ Chain(Allocated, actstk[n]) /\ current \in Allocated /\ Allocated \subseteq Coexpr
      /\ actstk \in [Coexpr -> Seq(Seq(Record))] /\ Allocated' = Allocated
  BY <1>3, Resumable, FlatsType DEF IInv, Chained, Allocated
<1>5. Chain(Allocated, s) /\ s # <<>> /\ Flat(s) = Flat(actstk[n])
  BY <1>1, <1>4, ChainStarts, FlatEmpty
<1>6. Chain(Allocated, t) /\ Flat(t) = Append(Flat(actstk[n]), current)
  <2>1. PICK A, a : A = Allocated /\ a = current
    OBVIOUS
  <2>2. Chain(A, s) /\ s # <<>> /\ a \in A
    BY <1>4, <1>5, <2>1
  <2>3. Chain(A, PushAct(s, a)) /\ Flat(PushAct(s, a)) = Append(Flat(s), a)
    BY <2>2, PushFlat
  <2>4. QED
    BY <1>2, <1>5, <2>1, <2>3
<1>7. t \in Seq(Seq(Record))
  <2>1. Chain(Coexpr, t)
    BY <1>4, <1>6, ChainWider
  <2>2. QED
    BY <2>1 DEF Chain, RecordOf, Record
<1>8. Chained'
  BY <1>3, <1>4, <1>6, <1>7 DEF IInv, Chained
<1>9. Flats' = Added(Flats, n, current)
  <2>1. \A c \in Coexpr : actstk'[c] = IF c = n THEN t ELSE actstk[c]
    BY <1>3, <1>4
  <2>2. Flats' = [c \in Coexpr |-> Flat(actstk'[c])]
    BY DEF Flats
  <2>3. Flats' = [c \in Coexpr |-> IF c = n THEN Append(Flat(actstk[n]), current) ELSE Flat(actstk[c])]
    BY <1>6, <2>1, <2>2
  <2>4. Added(Flats, n, current)
          = [c \in Coexpr |-> IF c = n THEN Append(Flat(actstk[n]), current) ELSE Flat(actstk[c])]
    BY DEF Added, Flats
  <2>5. QED
    BY <2>3, <2>4
<1>10. QED
  BY <1>8, <1>9

LEMMA ActivateStep ==
  ASSUME IInv, NEW n \in Coexpr, NEW v \in Coexpr \cup {None}, Activate(n, v)
  PROVE  IInv'
<1>1. Flats' = Added(Flats, n, current) /\ Chained'
  BY ActivateFlats
<1>2. /\ n \in Allocated /\ v \in Allocated \cup {None} /\ current' = n /\ stopped = "no"
      /\ held' = [held EXCEPT ![n] = @ \cup ({v} \ {None})]
      /\ UNCHANGED <<stklist, freshblk, ready, creating, stopped>>
  BY NameableAllocated DEF Activate, Running
<1>3. /\ Flats \in [Coexpr -> Seq(Coexpr)] /\ current \in Coexpr /\ Main \in Coexpr
  BY FlatsType, Resumable, MainAssumption
<1>4. Nested'
  <2>1. Nest(Coexpr, Flats, Main, current) /\ Counted(Coexpr, Flats, Main, current)
    BY DEF IInv, Nested
  <2>2. PICK f : f = Added(Flats, n, current)
    OBVIOUS
  <2>3. f = [Flats EXCEPT ![n] = Append(@, current)]
    BY <2>2 DEF Added
  <2>4. Nest(Coexpr, f, Main, n)
    BY <1>3, <2>1, <2>3, TrailGrows
  <2>5. Counted(Coexpr, f, Main, n)
    BY <1>3, <2>1, <2>2, CountGrows
  <2>6. QED
    BY <1>1, <1>2, <2>2, <2>4, <2>5 DEF Nested
<1>5. \A c \in Coexpr \ Allocated : actstk'[c] = actstk[c]
  BY <1>2 DEF Activate, IInv, Chained
<1>6. NeverEmpty' /\ stopped' \in {"no", "empty", "wild"}
  BY <1>2 DEF NeverEmpty
<1>7. QED
  BY <1>1, <1>2, <1>4, <1>5, <1>6, HandOver

\* ... and a return takes the last one off that of the running one.
LEMMA ReturnFlats ==
  ASSUME IInv, NEW v, Return(v)
  PROVE  /\ Flats[current] # <<>> /\ current # Main
         /\ current' = Last(Flats[current]) /\ current' \in Allocated
         /\ Flats' = [Flats EXCEPT ![current] = Front(@)]
         /\ Chained' /\ UNCHANGED <<stklist, stopped>> /\ stopped = "no"
         /\ held' = [held EXCEPT ![current'] = @ \cup ({v} \ {None})]
         /\ \A c \in Coexpr \ {current} : actstk'[c] = actstk[c]
<1>1. PICK s, t, f : s = actstk[current] /\ t = Popped(s) /\ f = Flat(s)
  OBVIOUS
<1>2. /\ current \in Allocated /\ current \in Coexpr /\ Allocated \subseteq Coexpr
      /\ Chain(Allocated, s) /\ f # <<>>
      /\ actstk \in [Coexpr -> Seq(Seq(Record))]
  BY <1>1, Resumable, FlatsType DEF IInv, Chained
<1>3. /\ ~Empty(s) /\ Chain(Allocated, t) /\ Flat(t) = Front(f) /\ f \in Seq(Allocated)
      /\ Activator(s) = Last(f)
  BY <1>1, <1>2, PopFlat
<1>4. /\ current # Main /\ stopped = "no" /\ UNCHANGED <<stklist, stopped>>
      /\ current' = Activator(s) /\ actstk' = [actstk EXCEPT ![current] = t]
      /\ held' = [held EXCEPT ![Activator(s)] = @ \cup ({v} \ {None})]
  BY <1>1, <1>3 DEF Return, Running
<1>5. Last(f) \in Allocated
  BY <1>2, <1>3, FrontLast
<1>6. t \in Seq(Seq(Record))
  <2>1. Chain(Coexpr, t)
    BY <1>2, <1>3, ChainWider
  <2>2. QED
    BY <2>1 DEF Chain, RecordOf, Record
<1>7. Chained'
  <2>1. Allocated' = Allocated
    BY <1>4 DEF Allocated
  <2>2. QED
    BY <1>2, <1>3, <1>4, <1>6, <2>1 DEF IInv, Chained
<1>8. Flats[current] = f
  BY <1>1, <1>2 DEF Flats
<1>9. \A c \in Coexpr : actstk'[c] = IF c = current THEN t ELSE actstk[c]
  BY <1>2, <1>4
<1>10. Flats' = [Flats EXCEPT ![current] = Front(@)]
  <2>1. Flats' = [c \in Coexpr |-> Flat(actstk'[c])]
    BY DEF Flats
  <2>2. Flats' = [c \in Coexpr |-> IF c = current THEN Front(f) ELSE Flat(actstk[c])]
    BY <1>3, <1>9, <2>1
  <2>3. [Flats EXCEPT ![current] = Front(@)]
          = [c \in Coexpr |-> IF c = current THEN Front(f) ELSE Flat(actstk[c])]
    BY <1>1 DEF Flats
  <2>4. QED
    BY <2>2, <2>3
<1>11. QED
  BY <1>2, <1>3, <1>4, <1>5, <1>7, <1>8, <1>9, <1>10

LEMMA ReturnStep ==
  ASSUME IInv, NEW v \in Coexpr \cup {None}, Return(v)
  PROVE  IInv'
<1>1. /\ Flats[current] # <<>> /\ current # Main
      /\ current' = Last(Flats[current]) /\ current' \in Allocated
      /\ Flats' = [Flats EXCEPT ![current] = Front(@)]
      /\ Chained' /\ UNCHANGED <<stklist, stopped>> /\ stopped = "no"
      /\ held' = [held EXCEPT ![current'] = @ \cup ({v} \ {None})]
      /\ \A c \in Coexpr \ {current} : actstk'[c] = actstk[c]
  BY ReturnFlats
<1>2. /\ Flats \in [Coexpr -> Seq(Coexpr)] /\ current \in Coexpr /\ current \in Allocated
      /\ Main \in Coexpr
  BY FlatsType, Resumable, MainAssumption
<1>3. PICK n : n = current'
  OBVIOUS
<1>4. v \in Allocated \cup {None} /\ UNCHANGED <<freshblk, ready, creating>>
  <2>1. v \in held[current] \cup {None} /\ UNCHANGED <<freshblk, ready, creating>>
    BY DEF Return
  <2>2. held[current] \subseteq Allocated
    BY <1>2 DEF IInv, Kept
  <2>3. QED
    BY <2>1, <2>2
<1>5. Nested'
  <2>1. Nest(Coexpr, Flats, Main, current) /\ Counted(Coexpr, Flats, Main, current)
    BY DEF IInv, Nested
  <2>2. PICK f : f = [Flats EXCEPT ![current] = Front(@)]
    OBVIOUS
  <2>3. Nest(Coexpr, f, Main, Last(Flats[current]))
    BY <1>1, <1>2, <2>1, <2>2, TrailShrinks
  <2>4. Counted(Coexpr, f, Main, Last(Flats[current]))
    BY <1>1, <1>2, <2>1, <2>2, CountShrinks
  <2>5. QED
    BY <1>1, <2>2, <2>3, <2>4 DEF Nested
<1>6. \A c \in Coexpr \ Allocated : actstk'[c] = actstk[c]
  BY <1>1, <1>2
<1>7. NeverEmpty' /\ stopped' \in {"no", "empty", "wild"}
  BY <1>1 DEF NeverEmpty
<1>8. held' = [held EXCEPT ![n] = @ \cup ({v} \ {None})] /\ n \in Allocated
  BY <1>1, <1>3
<1>9. QED
  BY <1>1, <1>3, <1>4, <1>5, <1>6, <1>7, <1>8, HandOver
-----------------------------------------------------------------------------
(* A collection frees what waits for nobody, so that the stacks stay what  *)
(* they were.                                                              *)
LEMMA CollectFlats ==
  ASSUME IInv, Collect
  PROVE  /\ Flats' = Flats /\ Allocated' = Allocated \cap Marked /\ Chained'
<1>1. PICK freed : freed = stklist \ Marked
  OBVIOUS
<1>2. /\ stklist' = stklist \cap Marked
      /\ actstk' = [c \in Coexpr |-> IF c \in freed THEN <<>> ELSE actstk[c]]
  BY <1>1 DEF Collect
<1>3. Marked \subseteq Coexpr /\ Main \in Marked /\ \A c \in Marked : Marks(c) \subseteq Marked
  BY MarkedClosed DEF Roots
<1>4. Allocated' = Allocated \cap Marked
  BY <1>2, <1>3 DEF Allocated
<1>5. \A c \in freed : Flat(actstk[c]) = <<>>
  <2>1. freed \subseteq Coexpr \ Marked
    BY <1>1 DEF IInv, TypeOK
  <2>2. QED
    BY <2>1, UnmarkedIdle
<1>6. Flats' = Flats
  <2>1. Flats' = [c \in Coexpr |-> Flat(actstk'[c])]
    BY DEF Flats
  <2>2. \A c \in Coexpr : Flat(actstk'[c]) = Flat(actstk[c])
    BY <1>2, <1>5, FlatEmpty
  <2>3. QED
    BY <2>1, <2>2 DEF Flats
<1>7. ASSUME NEW c \in Coexpr PROVE Chain(Allocated', actstk'[c])
  <2>1. CASE c \in Marked
    <3>1. PICK A : A = Activators(actstk[c])
      OBVIOUS
    <3>2. A \subseteq Marked
      BY <1>3, <2>1, <3>1 DEF Marks
    <3>3. A \subseteq Allocated /\ Chain(A, actstk[c])
      BY <3>1, ChainActivators DEF IInv, Chained
    <3>4. Chain(Allocated', actstk[c])
      BY <1>4, <3>2, <3>3, ChainWider
    <3>5. QED
      BY <1>1, <1>2, <2>1, <3>4
  <2>2. CASE c \notin Marked
    <3>1. actstk'[c] = <<>>
      BY <1>1, <1>2, <1>3, <2>2 DEF IInv, Unused, Allocated
    <3>2. QED
      BY <3>1, ChainStarts
  <2>3. QED
    BY <2>1, <2>2
<1>8. actstk' \in [Coexpr -> Seq(Seq(Record))]
  BY <1>2 DEF IInv, Chained
<1>9. QED
  BY <1>4, <1>6, <1>7, <1>8 DEF Chained

LEMMA CollectStep == ASSUME IInv, Collect PROVE IInv'
<1>1. Flats' = Flats /\ Allocated' = Allocated \cap Marked /\ Chained'
  BY CollectFlats
<1>2. PICK freed : freed = stklist \ Marked
  OBVIOUS
<1>3. /\ stklist' = stklist \cap Marked
      /\ held' = [c \in Coexpr |-> IF c \in freed THEN {} ELSE held[c]]
      /\ freshblk' = [c \in Coexpr |-> IF c \in freed THEN {} ELSE freshblk[c]]
      /\ ready' = [c \in Coexpr |-> ready[c] /\ c \notin freed]
      /\ actstk' = [c \in Coexpr |-> IF c \in freed THEN <<>> ELSE actstk[c]]
      /\ UNCHANGED <<current, creating, stopped>>
  BY <1>2 DEF Collect
<1>4. /\ Marked \subseteq Coexpr /\ Main \in Marked /\ current \in Marked
      /\ creating # None => creating \in Marked
      /\ \A c \in Marked : held[c] \subseteq Marked /\ freshblk[c] \subseteq Marked
  BY MarkedClosed DEF Roots, Marks
<1>5. Nested'
  BY <1>1, <1>3 DEF IInv, Nested
<1>6. ASSUME NEW c \in Coexpr, c \notin Marked PROVE held'[c] = {} /\ freshblk'[c] = {} /\ actstk'[c] = <<>>
  BY <1>2, <1>3, <1>4, <1>6 DEF IInv, Unused, Allocated
<1>7. ASSUME NEW c \in Coexpr, c \in Marked
      PROVE  held'[c] = held[c] /\ freshblk'[c] = freshblk[c] /\ actstk'[c] = actstk[c]
  BY <1>2, <1>3, <1>7
<1>8. Kept'
  <2> SUFFICES ASSUME NEW c \in Coexpr
               PROVE  held'[c] \subseteq Allocated' /\ freshblk'[c] \subseteq Allocated'
    BY DEF Kept
  <2>1. CASE c \in Marked
    <3>1. held[c] \subseteq Allocated /\ freshblk[c] \subseteq Allocated
      BY DEF IInv, Kept
    <3>2. QED
      BY <1>1, <1>4, <1>7, <2>1, <3>1
  <2>2. CASE c \notin Marked
    BY <1>6, <2>2
  <2>3. QED
    BY <2>1, <2>2
<1>9. Unused'
  <2> SUFFICES ASSUME NEW c \in Coexpr, c \notin Allocated'
               PROVE  actstk'[c] = <<>> /\ held'[c] = {} /\ freshblk'[c] = {}
    BY DEF Unused
  <2>1. CASE c \in Marked
    <3>1. c \notin Allocated
      BY <1>1, <2>1
    <3>2. QED
      BY <1>7, <2>1, <3>1 DEF IInv, Unused
  <2>2. CASE c \notin Marked
    BY <1>6, <2>2
  <2>3. QED
    BY <2>1, <2>2
<1>10. TypeOK'
  <2>1. stklist' \in SUBSET (Coexpr \ {Main})
    BY <1>3 DEF IInv, TypeOK
  <2>2. current' \in Allocated' /\ creating' \in stklist' \cup {None}
    BY <1>1, <1>3, <1>4, Resumable DEF IInv, TypeOK
  <2>3. \A c \in Coexpr : actstk'[c] \in Seq(Seq(Record))
    BY <1>1 DEF Chained
  <2>4. held' \in [Coexpr -> SUBSET Coexpr] /\ freshblk' \in [Coexpr -> SUBSET Coexpr]
    BY <1>3 DEF IInv, TypeOK
  <2>5. ready' \in [Coexpr -> BOOLEAN]
    BY <1>3 DEF IInv, TypeOK
  <2>6. QED
    BY <1>3, <2>1, <2>2, <2>3, <2>4, <2>5 DEF IInv, TypeOK
<1>11. QED
  BY <1>1, <1>3, <1>5, <1>8, <1>9, <1>10 DEF IInv, NeverEmpty

LEMMA CollectWildStep == ASSUME IInv, CollectWild PROVE IInv'
<1>1. stopped' = "wild" /\ UNCHANGED <<stklist, current, actstk, held, freshblk, ready, creating>>
  BY DEF CollectWild
<1>2. Allocated' = Allocated
  BY <1>1 DEF Allocated
<1>3. Chained' /\ Nested'
  BY <1>1, <1>2, StacksUnchanged
<1>4. TypeOK' /\ Kept' /\ Unused' /\ NeverEmpty'
  BY <1>1, <1>2 DEF IInv, TypeOK, Kept, Unused, NeverEmpty
<1>5. QED
  BY <1>3, <1>4 DEF IInv

LEMMA StutterStep == ASSUME IInv, UNCHANGED vars PROVE IInv'
<1>1. Allocated' = Allocated
  BY DEF vars, Allocated
<1>2. Chained' /\ Nested'
  BY <1>1, StacksUnchanged DEF vars
<1>3. TypeOK' /\ Kept' /\ Unused' /\ NeverEmpty'
  BY <1>1 DEF vars, IInv, TypeOK, Kept, Unused, NeverEmpty
<1>4. QED
  BY <1>2, <1>3 DEF IInv

LEMMA NextStep == ASSUME IInv, [Next]_vars PROVE IInv'
<1>1. ASSUME NEW c \in Coexpr, CreateBegin(c) \/ Drop(c) PROVE IInv'
  BY <1>1, CreateBeginStep, DropStep
<1>2. CASE CreateEnd
  BY <1>2, CreateEndStep
<1>3. ASSUME NEW x \in Coexpr, NEW c \in Coexpr, Refresh(x, c) PROVE IInv'
  BY <1>3, RefreshStep
<1>4. ASSUME NEW n \in Coexpr, NEW v \in Coexpr \cup {None}, Activate(n, v) PROVE IInv'
  BY <1>4, ActivateStep
<1>5. ASSUME NEW v \in Coexpr \cup {None}, Return(v) PROVE IInv'
  BY <1>5, ReturnStep
<1>6. CASE Collect
  BY <1>6, CollectStep
<1>7. CASE CollectWild
  BY <1>7, CollectWildStep
<1>8. CASE Stopped
  BY <1>8, StutterStep DEF Stopped
<1>9. CASE UNCHANGED vars
  BY <1>9, StutterStep
<1>10. QED
  BY <1>1, <1>2, <1>3, <1>4, <1>5, <1>6, <1>7, <1>8, <1>9 DEF Next

\* &main's first activator is &main itself.
LEMMA InitFlats == ASSUME Init PROVE Flats = [c \in Coexpr |-> IF c = Main THEN <<Main>> ELSE <<>>] /\ Chained
<1>1. PICK A, s, t : A = {Main} /\ s = <<NoBlock>> /\ t = PushAct(s, Main)
  OBVIOUS
<1>2. Chain(A, s) /\ s # <<>> /\ Main \in A /\ Flat(s) = <<>>
  BY <1>1, ChainStarts
<1>3. Chain(A, t) /\ Flat(t) = Append(<<>>, Main)
  <2>1. PICK m : m = Main
    OBVIOUS
  <2>2. Chain(A, PushAct(s, m)) /\ Flat(PushAct(s, m)) = Append(Flat(s), m)
    BY <1>2, <2>1, PushFlat
  <2>3. QED
    BY <1>1, <1>2, <2>1, <2>2
<1>4. Allocated = A
  BY <1>1 DEF Init, Allocated
<1>5. actstk = [c \in Coexpr |-> IF c # Main THEN <<>> ELSE t]
  BY <1>1 DEF Init
<1>6. Flats = [c \in Coexpr |-> IF c = Main THEN <<Main>> ELSE <<>>]
  <2>1. Append(<<>>, Main) = <<Main>>
    OBVIOUS
  <2>2. \A c \in Coexpr : Flat(actstk[c]) = IF c = Main THEN <<Main>> ELSE <<>>
    BY <1>3, <1>5, <2>1, FlatEmpty
  <2>3. QED
    BY <2>2 DEF Flats
<1>7. Chained
  <2>1. A \subseteq Coexpr
    BY <1>1, MainAssumption
  <2>2. Chain(Coexpr, t)
    BY <1>3, <2>1, ChainWider
  <2>3. t \in Seq(Seq(Record)) /\ <<>> \in Seq(Seq(Record))
    BY <2>2 DEF Chain, RecordOf, Record
  <2>4. \A c \in Coexpr : Chain(A, actstk[c])
    BY <1>3, <1>5, ChainStarts
  <2>5. QED
    BY <1>4, <1>5, <2>3, <2>4 DEF Chained
<1>8. QED
  BY <1>6, <1>7

LEMMA InitIInv == ASSUME Init PROVE IInv
<1>1. Flats = [c \in Coexpr |-> IF c = Main THEN <<Main>> ELSE <<>>] /\ Chained
  BY InitFlats
<1>2. Main \in Coexpr /\ Allocated = {Main}
  BY MainAssumption DEF Init, Allocated
<1>3. Nested
  <2>1. PICK f : f = Flats
    OBVIOUS
  <2>2. Nest(Coexpr, f, Main, Main) /\ Counted(Coexpr, f, Main, Main)
    BY <1>1, <1>2, <2>1, TrailStarts, CountStarts
  <2>3. QED
    BY <2>1, <2>2 DEF Init, Nested
<1>4. Kept
  BY DEF Init, Kept
<1>5. Unused
  BY <1>2 DEF Init, Unused
<1>6. TypeOK
  BY <1>1, <1>2 DEF Init, TypeOK, Chained
<1>7. QED
  BY <1>1, <1>3, <1>4, <1>5, <1>6 DEF Init, IInv, NeverEmpty

\* The chains of activator blocks are what popact and topact expect, there is
\* always somebody to return to, and a collection frees nothing of use
\* (rmisc.r, interp.r, rmemmgt.r).
THEOREM StacksInvariant == Spec => []StacksSound
<1>1. Init => IInv
  BY InitIInv
<1>2. IInv /\ [Next]_vars => IInv'
  BY NextStep
<1>3. IInv => StacksSound
  BY InvariantSound
<1>4. QED
  BY <1>1, <1>2, <1>3, PTL DEF Spec

-----------------------------------------------------------------------------
(* The refinement of ActivatorStacks.                                      *)

\* What Stacks calls activators is Flats: the abstract steps, in its terms.
LEMMA StacksStep ==
  ASSUME IInv, [Next]_vars
  PROVE  [Stacks!Next]_<<Allocated, current, Flats>>
<1>1. ASSUME UNCHANGED <<stklist, current, actstk>> PROVE UNCHANGED <<Allocated, current, Flats>>
  BY <1>1 DEF Allocated, Flats
<1>2. ASSUME NEW c \in Coexpr, CreateBegin(c) PROVE Stacks!Next
  <2>1. Stacks!Create(c)
    BY <1>2 DEF CreateBegin, Stacks!Create, Allocated
  <2>2. QED
    BY <2>1 DEF Stacks!Next
<1>3. ASSUME NEW x \in Coexpr, NEW c \in Coexpr, Refresh(x, c) PROVE Stacks!Next
  <2>1. Stacks!Create(c)
    BY <1>3 DEF Refresh, Stacks!Create, Allocated
  <2>2. QED
    BY <2>1 DEF Stacks!Next
<1>4. ASSUME NEW n \in Coexpr, NEW v \in Coexpr \cup {None}, Activate(n, v) PROVE Stacks!Next
  <2>1. Flats' = Added(Flats, n, current)
    BY <1>4, ActivateFlats
  <2>2. n \in Allocated /\ current' = n /\ Allocated' = Allocated
    BY <1>4, NameableAllocated DEF Activate, Allocated
  <2>3. Stacks!Activate(n)
    BY <2>1, <2>2 DEF Stacks!Activate, Added, Flats
  <2>4. QED
    BY <2>3 DEF Stacks!Next
<1>5. ASSUME NEW v \in Coexpr \cup {None}, Return(v) PROVE Stacks!Next
  <2>1. /\ Flats[current] # <<>> /\ current # Main
        /\ current' = Last(Flats[current])
        /\ Flats' = [Flats EXCEPT ![current] = Front(@)]
        /\ UNCHANGED stklist
    BY <1>5, ReturnFlats
  <2>2. Stacks!Return
    BY <2>1 DEF Stacks!Return, Flats, Allocated, Front, Last, Stacks!Front, Stacks!Last
  <2>3. QED
    BY <2>2 DEF Stacks!Next
<1>6. CASE Collect
  <2>1. Flats' = Flats /\ Allocated' = Allocated \cap Marked /\ UNCHANGED current
    BY <1>6, CollectFlats DEF Collect
  <2>2. PICK S : S = Allocated \ Marked
    OBVIOUS
  <2>3. Main \in Marked /\ current \in Marked /\ \A c \in Marked : Marks(c) \subseteq Marked
    BY MarkedClosed DEF Roots
  <2>4. S \in SUBSET Coexpr /\ S \subseteq Allocated \ {Main, current} /\ Allocated' = Allocated \ S
    BY <2>1, <2>2, <2>3, FlatsType
  <2>5. ASSUME NEW c \in Allocated \ S PROVE S \cap ToSet(Flats[c]) = {}
    <3>1. PICK f : f = Flats[c]
      OBVIOUS
    <3>2. c \in Marked /\ c \in Coexpr
      BY <2>2, FlatsType
    <3>3. f \in Seq(Activators(actstk[c])) /\ Activators(actstk[c]) \subseteq Marked
      BY <2>3, <3>1, <3>2, FlatsType DEF Marks
    <3>4. \A i \in 1..Len(f) : f[i] \in Marked
      BY <3>3
    <3>5. ToSet(f) \subseteq Marked
      BY <3>4 DEF ToSet
    <3>6. QED
      BY <2>2, <3>1, <3>5
  <2>6. Flats' = [c \in Coexpr |-> IF c \in S THEN <<>> ELSE Flats[c]]
    <3>1. \A c \in Coexpr : c \in S => Flats[c] = <<>>
      BY <2>2, UnmarkedIdle DEF Flats
    <3>2. Flats = [c \in Coexpr |-> Flats[c]]
      BY DEF Flats
    <3>3. QED
      BY <2>1, <3>1, <3>2
  <2>7. Stacks!Free(S)
    BY <2>1, <2>4, <2>5, <2>6 DEF Stacks!Free, Flats, ToSet, Stacks!ToSet
  <2>8. QED
    BY <2>4, <2>7 DEF Stacks!Next
<1>7. ASSUME NEW c \in Coexpr, Drop(c) PROVE UNCHANGED <<Allocated, current, Flats>>
  BY <1>1, <1>7 DEF Drop
<1>8. CASE CreateEnd
  BY <1>1, <1>8 DEF CreateEnd
<1>9. CASE CollectWild
  BY <1>1, <1>9 DEF CollectWild
<1>10. CASE Stopped \/ UNCHANGED vars
  BY <1>1, <1>10 DEF Stopped, vars
<1>11. QED
  BY <1>2, <1>3, <1>4, <1>5, <1>6, <1>7, <1>8, <1>9, <1>10 DEF Next

\* The chain of blocks implements a plain sequence of activators: a return
\* goes to the most recent activation that has not returned (popact, pushact).
THEOREM ActivationImplementsStacks == Spec => ImplementsStacks
<1>1. Init => IInv /\ Stacks!Init
  <2> SUFFICES ASSUME Init PROVE IInv /\ Stacks!Init
    OBVIOUS
  <2>1. IInv
    BY InitIInv
  <2>2. Flats = [c \in Coexpr |-> IF c = Main THEN <<Main>> ELSE <<>>]
    BY InitFlats
  <2>3. Stacks!Init
    BY <2>2 DEF Init, Stacks!Init, Flats, Allocated
  <2>4. QED
    BY <2>1, <2>3
<1>2. IInv /\ [Next]_vars => IInv'
  BY NextStep
<1>3. IInv /\ [Next]_vars => [Stacks!Next]_<<Allocated, current, [c \in Coexpr |-> Flat(actstk[c])]>>
  BY StacksStep DEF Flats
<1>4. QED
  BY <1>1, <1>2, <1>3, PTL DEF Spec, ImplementsStacks, Stacks!Spec
=============================================================================
