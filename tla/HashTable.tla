----------------------------- MODULE HashTable -----------------------------
(***************************************************************************)
(* Sets and tables (rstruct.r, fstruct.r, oset.r, oasgn.r): chains of      *)
(* element blocks ordered by hash number, a directory of slot segments     *)
(* that doubles when the structure gets too crowded, and the generation of *)
(* the elements (!s, !t, key(t)), which is suspended between two elements  *)
(* while the program inserts and deletes others and the chains are split.  *)
(*                                                                         *)
(* Slots are numbered through all segments: segment 0 has HSlots slots and *)
(* every other one as many as those before it together.  The values of a   *)
(* table are left out; they are carried along with the keys.               *)
(***************************************************************************)
EXTENDS Integers, Sequences, SequencesExt, FiniteSets, FiniteSetsExt, Functions, TLC

CONSTANTS
  Key,        \* members of the set, or keys of the table
  HashOf,     \* HashOf[k]: what hash() returns for k
  HSlots,     \* initial number of slots: a power of 2, so that & is % here
  HSegs,      \* largest number of segments
  Loading,    \* the pairs of loading factors that Icon may be built with
  MaxSize,    \* bound on the elements of the structure
  MaxMake,    \* bound on the size of the list or sets it is made from
  MaxCopies   \* bound on the blocks in memory for one key

ASSUME KeyAssumption == IsFiniteSet(Key) /\ HashOf \in [Key -> Nat]
ASSUME SlotsAssumption == HSlots \in Nat \ {0, 1} /\ HSegs \in Nat \ {0}
ASSUME LoadAssumption ==
  \A l \in Loading : l[1] \in Nat \ {0} /\ l[2] \in Nat /\ l[1] >= 2 * l[2]
ASSUME BoundsAssumption == {MaxSize, MaxMake} \subseteq Nat /\ MaxCopies \in Nat \ {0}

VARIABLES
  load,  \* the pair of loading factors, which never changes
  tab,   \* the structure: size and mask as in b_set; chains[s], the blocks
         \* linked in slot s; and stale[b], the clink of a block that has
         \* been unlinked and that the generator still reaches
  gen,   \* the state of a generator: hgstate, and the element it produced last
  must,  \* history: elements that it has yet to produce
  may    \* history: how often it may yet produce an element

vars == <<load, tab, gen, must, may>>

MaxHLoad == load[1]  \* maximum loading factor
MinHLoad == load[2]  \* minimum loading factor of a new structure

\* An element block: its key, and a number that tells the blocks apart that
\* have been allocated for the same key.
Block == Key \X (1..MaxCopies)
NULL == <<>>
Hash(b) == HashOf[b[1]]

\* The number of slots of the segments up to i.
Slots[i \in 0..HSegs - 1] == IF i = 0 THEN HSlots ELSE 2 * Slots[i - 1]
MaxSlots == Slots[HSegs - 1]

-----------------------------------------------------------------------------
(* Chains.                                                                 *)
(* A definition named X_Slip is X as a plausible mistake in the code would *)
(* make it.  Next does not use it: it shows which property would notice.   *)

Members(t) == UNION {ToSet(t.chains[s]) : s \in 0..t.mask}

Head1(c) == IF c = <<>> THEN NULL ELSE c[1]

Hchain(t, hn) == hn % (t.mask + 1)

Clink(t, b) ==
  IF b \in DOMAIN t.stale THEN t.stale[b]
  ELSE LET c == t.chains[Hchain(t, Hash(b))]
       IN Head1(SubSeq(c, 1 + SelectInSeq(c, LAMBDA x : x = b), Len(c)))

\* memb: the place of k in its chain, or the place where it belongs.
Memb(t, k) ==
  LET c == t.chains[Hchain(t, HashOf[k])]
      stop == {i \in 1..Len(c) : c[i][1] = k \/ Hash(c[i]) > HashOf[k]}
  IN IF stop = {} THEN Len(c) + 1 ELSE Min(stop)

Found(t, k) ==
  LET c == t.chains[Hchain(t, HashOf[k])]
  IN Memb(t, k) <= Len(c) /\ c[Memb(t, k)][1] = k

Linked(t, b) ==
  [t EXCEPT !.chains[Hchain(t, Hash(b))] = InsertAt(@, Memb(t, b[1]), b),
            !.size = @ + 1]

\* The unlinked block's own clink stays as it is.
Unlinked(t, k) ==
  LET s == Hchain(t, HashOf[k])
      b == t.chains[s][Memb(t, k)]
  IN [t EXCEPT !.chains[s] = RemoveAt(@, Memb(t, k)),
               !.size = @ - 1,
               !.stale = [x \in DOMAIN @ \cup {b} |-> IF x = b THEN Clink(t, b) ELSE @[x]]]

(* What a collection leaves: an unlinked block is forgotten unless clinks  *)
(* lead to it from ep.  Nothing can tell when a block that is not reached  *)
(* is reclaimed, so this is done at once.                                  *)
Collected(t, ep) ==
  LET reach[n \in 0..Cardinality(DOMAIN t.stale)] ==
        IF n = 0 THEN {ep} \cap DOMAIN t.stale
        ELSE reach[n - 1] \cup ({t.stale[b] : b \in reach[n - 1]} \cap DOMAIN t.stale)
  IN [t EXCEPT !.stale = Restrict(@, reach[Cardinality(DOMAIN t.stale)])]

-----------------------------------------------------------------------------
(* Growing and shrinking. *)

TooCrowded(t) == t.size > MaxHLoad * (t.mask + 1) /\ t.mask + 1 < MaxSlots
TooSparse(t) == t.size < MinHLoad * (t.mask + 1) /\ t.mask + 1 > HSlots

\* hashnum & newslots, for a power of 2
Bit(hn, newslots) == (hn \div newslots) % 2

\* What goes into the old slot (bit 0), and what into the new one (bit 1).
Side(c, newslots, bit) ==
  LET side[i \in 0..Len(c)] ==
        IF i = 0 THEN <<>>
        ELSE IF Bit(Hash(c[i]), newslots) = bit THEN Append(side[i - 1], c[i])
        ELSE side[i - 1]
  IN side[Len(c)]

\* hgrow
Grown(t) ==
  LET newslots == t.mask + 1
  IN [t EXCEPT
       !.mask = 2 * newslots - 1,
       !.chains = [s \in 0..2 * newslots - 1 |->
                     Side(@[s % newslots], newslots, s \div newslots)]]

\* The place before the first block of a hash number above hn.
Above(c, hn) == LET above == {i \in 1..Len(c) : Hash(c[i]) > hn}
                IN IF above = {} THEN Len(c) + 1 ELSE Min(above)

Merged_TailLost(c0, c1) ==
  LET rest == {i \in 1..Len(c0) : c1 = <<>> \/ Hash(c0[i]) < Hash(Last(c1))}
      merged[i \in 0..Len(c1)] ==
        IF i = 0 THEN SubSeq(c0, 1, Cardinality(rest))
        ELSE InsertAt(merged[i - 1], Above(merged[i - 1], Hash(c1[i])), c1[i])
  IN merged[Len(c1)]

\* Two chains that are ordered by hash number, merged.
Merged(c0, c1) ==
  LET merged[i \in 0..Len(c1)] ==
        IF i = 0 THEN c0
        ELSE InsertAt(merged[i - 1], Above(merged[i - 1], Hash(c1[i])), c1[i])
  IN merged[Len(c1)]

\* One turn of the loop in hshrink: the upper half goes into the lower.
Halved(t) ==
  LET n == (t.mask + 1) \div 2
  IN [t EXCEPT !.mask = n - 1,
               !.chains = [s \in 0..n - 1 |-> Merged(@[s], @[s + n])]]

\* hshrink, if it is too sparse
Shrunk(t) ==
  LET after[i \in 0..HSegs] ==
        IF i = 0 THEN t
        ELSE IF TooSparse(after[i - 1]) THEN Halved(after[i - 1]) ELSE after[i - 1]
  IN after[HSegs]

\* hmake(_, 0, nelem): slots for nelem elements.
Hmake(nelem) ==
  LET enough == {i \in 0..HSegs - 1 : Slots[i] * MaxHLoad >= nelem}
      nslots == Slots[IF enough = {} THEN HSegs - 1 ELSE Min(enough)]
  IN [size |-> 0, mask |-> nslots - 1,
      chains |-> [s \in 0..nslots - 1 |-> <<>>], stale |-> <<>>]

\* t, with those of ks that it lacks put in
WithKeys(t, ks) ==
  LET with[i \in 0..Len(ks)] ==
        IF i = 0 THEN t
        ELSE IF Found(with[i - 1], ks[i]) THEN with[i - 1]
        ELSE Linked(with[i - 1], <<ks[i], 1>>)
  IN with[Len(ks)]

-----------------------------------------------------------------------------
(* Generation. *)

\* No generator is suspended in the structure.
Idle == [ep |-> NULL, slot |-> 0, tmask |-> 0,
         sgmask |-> [i \in 1..HSegs - 1 |-> 0], sghash |-> [i \in 1..HSegs - 1 |-> 0]]

SegNum(s) == IF s < HSlots THEN 0
             ELSE CHOOSE i \in 1..HSegs - 1 : s \in Slots[i - 1]..Slots[i] - 1

\* The chain of the segment's slot s as it was under mask m.
SlotUnder(m, s) == (s - (IF SegNum(s) = 0 THEN 0 ELSE Slots[SegNum(s) - 1])) % (m + 1)

\* The first of the blocks c whose hash number is above hn, or NULL.
FirstAbove(c, hn) == Head1(SubSeq(c, Above(c, hn), Len(c)))

Entry_NewestHistoryOnly(t, g, s) ==
  LET i == SegNum(s) IN
  IF i = 0 \/ g.sgmask[i] = 0 THEN Head1(t.chains[s])
  ELSE LET d == SlotUnder(g.sgmask[i], s) - (g.sghash[i] % (g.sgmask[i] + 1))
       IN CASE d < 0 -> NULL
            [] d = 0 -> FirstAbove(t.chains[s], g.sghash[i])
            [] OTHER -> Head1(t.chains[s])

(* Where to start in slot s.  The segments from that of s down to the last *)
(* one that is older than the generator have a history: a chain that came  *)
(* out of one the generator had passed is skipped, and one that came out   *)
(* of the chain it was in is entered past the hash number it had reached.  *)
Entry(t, g, s) ==
  LET split == {i \in 1..SegNum(s) : \A j \in i..SegNum(s) : g.sgmask[j] # 0}
      here(i)  == SlotUnder(g.sgmask[i], s)
      there(i) == g.sghash[i] % (g.sgmask[i] + 1)
  IN IF \E i \in split : here(i) < there(i) THEN NULL
     ELSE LET past == {g.sghash[i] : i \in {j \in split : here(j) = there(j)}}
          IN IF past = {} THEN Head1(t.chains[s])
             ELSE FirstAbove(t.chains[s], Max(past))

\* The generator goes to the first slot after its own that has an element
\* for it, or ends.
NextSlot(t, g) ==
  LET more == {s \in g.slot + 1..t.mask : Entry(t, g, s) # NULL}
  IN IF more = {} THEN Idle
     ELSE [g EXCEPT !.slot = Min(more), !.ep = Entry(t, g, Min(more))]

\* The chains have been split since the last call, and the next element is
\* not one of the same hash number.
SplitSeen(t, g) ==
  /\ t.mask # g.tmask
  /\ LET n == Clink(t, g.ep) IN n = NULL \/ Hash(n) # Hash(g.ep)

\* A note for every segment that is newer than the generator's mask.
Noted(t, g) ==
  [g EXCEPT
    !.tmask = t.mask,
    !.sgmask = [i \in 1..HSegs - 1 |-> IF Slots[i - 1] > g.tmask THEN g.tmask ELSE @[i]],
    !.sghash = [i \in 1..HSegs - 1 |-> IF Slots[i - 1] > g.tmask THEN Hash(g.ep) ELSE @[i]]]

Hgnext(t, g) ==
  LET g1 == IF SplitSeen(t, g) THEN Noted(t, g) ELSE g
      ep == IF SplitSeen(t, g) THEN FirstAbove(t.chains[g.slot], Hash(g.ep))
                               ELSE Clink(t, g.ep)
  IN IF ep # NULL THEN [g1 EXCEPT !.ep = ep] ELSE NextSlot(t, g1)

Hgfirst(t) ==
  LET g == [Idle EXCEPT !.tmask = t.mask]
  IN IF Entry(t, g, 0) # NULL THEN [g EXCEPT !.ep = Entry(t, g, 0)] ELSE NextSlot(t, g)

-----------------------------------------------------------------------------
\* How often an element may yet be produced: not at all; or as m says, if
\* it has not been reclaimed.
Nothing == [b \in Block |-> 0]
Remembered(m, t) ==
  [b \in Block |-> IF b \in Members(t) \cup DOMAIN t.stale THEN m[b] ELSE 0]

(* table() and set(L) leave the structure as it is made; the intersection  *)
(* and the difference of sets shrink it.  nelem counts the duplicates of   *)
(* L, or is the size of the operand that bounds the result.                *)
Init ==
  /\ load \in Loading
  /\ \E K \in SUBSET Key, nelem \in 0..MaxMake :
       /\ Cardinality(K) <= nelem
       /\ \E ks \in SetToSeqs(K) :
            \/ tab = WithKeys(Hmake(nelem), ks)
            \/ tab = Shrunk(WithKeys(Hmake(nelem), ks))
  /\ gen = Idle
  /\ must = {}
  /\ may = Nothing

\* insert(s, k), insert(t, k, v), and t[k] := v.  If k is there, the block
\* allocated for it is given back, and at most a value changes.
Insert(k) ==
  /\ tab.size < MaxSize
  /\ LET free == {i \in 1..MaxCopies : <<k, i>> \notin DOMAIN tab.stale}
         t    == Linked(tab, <<k, Min(free)>>)
     IN /\ ~Found(tab, k)
        /\ free # {}
        /\ tab' = IF TooCrowded(t) THEN Grown(t) ELSE t
        /\ may' = IF gen = Idle THEN may ELSE [may EXCEPT ![<<k, Min(free)>>] = 1]
  /\ UNCHANGED <<gen, must>>

\* delete(s, k)
Delete(k) ==
  /\ Found(tab, k)
  /\ tab' = Collected(Unlinked(tab, k), gen.ep)
  /\ must' = {b \in must : b[1] # k}
  /\ may' = Remembered(may, tab')
  /\ UNCHANGED gen

\* !s, !t or key(t) is evaluated ...
Start ==
  /\ gen = Idle
  /\ gen' = Hgfirst(tab)
  /\ must' = Members(tab) \ {gen'.ep}
  /\ may' = [b \in Block |-> IF b \in Members(tab) \ {gen'.ep} THEN 1 ELSE 0]
  /\ UNCHANGED tab

\* ... and resumed, until it fails.
Resume ==
  /\ gen # Idle
  /\ gen' = Hgnext(tab, gen)
  /\ tab' = Collected(tab, gen'.ep)
  /\ must' = must \ {gen'.ep}
  /\ may' = IF gen' = Idle THEN Nothing
            ELSE Remembered([may EXCEPT ![gen'.ep] = @ - 1], tab')

\* The expression that contains the generator is left.
Abandon ==
  /\ gen # Idle
  /\ gen' = Idle
  /\ tab' = Collected(tab, NULL)
  /\ must' = {}
  /\ may' = Nothing

\* The program goes on with copy(s), whose chains are those of s; only a
\* copy can be shrunk.
Copy ==
  /\ gen = Idle
  /\ tab' = Shrunk(tab)
  /\ UNCHANGED <<gen, must, may>>

\* The program goes on with s ++ y, for a set y that is not larger: a copy
\* of s, and the elements of y that it lacks.
Union(ys) ==
  /\ gen = Idle
  /\ Len(ys) <= tab.size
  /\ LET t == WithKeys(Shrunk(tab), ys)
     IN /\ t.size <= MaxSize
        /\ tab' = IF TooCrowded(t) THEN Grown(t) ELSE t
  /\ UNCHANGED <<gen, must, may>>

\* The elements of a set y, in the order in which its chains hold them.
Operands == UNION {SetToSeqs(Y) : Y \in {Z \in SUBSET Key : Cardinality(Z) <= MaxMake}}

Step ==
  \/ \E k \in Key : Insert(k) \/ Delete(k)
  \/ Start
  \/ Resume
  \/ Abandon
  \/ Copy
  \/ \E ys \in Operands : Union(ys)

Next == Step /\ UNCHANGED load

Spec == Init /\ [][Next]_vars

-----------------------------------------------------------------------------
(* Every variable keeps its type. *)
TypeOK ==
  /\ tab.mask + 1 \in {Slots[i] : i \in 0..HSegs - 1}
  /\ tab.chains \in [0..tab.mask -> Seq(Block)]
  /\ \A b \in DOMAIN tab.stale :
       b \in Block \ Members(tab) /\ tab.stale[b] \in Members(tab) \cup DOMAIN tab.stale \cup {NULL}
  /\ gen = Idle \/ gen.ep \in Members(tab) \cup DOMAIN tab.stale
  /\ must \subseteq Members(tab)
  /\ may \in [Block -> {0, 1}]

(* However chains are split and merged, memb finds every element where it  *)
(* is: in the chain that hchain picks, before any of a larger hash number, *)
(* and before any other of the same key.                                   *)
Findable ==
  \A s \in 0..tab.mask : LET c == tab.chains[s] IN
    \A i \in 1..Len(c) : Hchain(tab, Hash(c[i])) = s /\ Memb(tab, c[i][1]) = i

(* size, on which the growing and shrinking depend, is the number of       *)
(* elements in the chains: none is lost when chains are rebuilt.           *)
Counted == tab.size = Cardinality(Members(tab))

(* As long as segments can be allocated, no operation leaves a structure   *)
(* too crowded, though a union grows its result only once, after all the   *)
(* insertions.                                                             *)
Uncrowded == tab.mask + 1 < MaxSlots => tab.size <= MaxHLoad * (tab.mask + 1)

(* The structure as a whole.                                               *)
Sound == TypeOK /\ Findable /\ Counted /\ Uncrowded

Elements == INSTANCE Generation WITH
  Element <- Block, elements <- Members(tab), suspended <- gen # Idle

(* "We carefully generate each element exactly once, even if the hash      *)
(* chains are split between calls": hgnext.                                *)
ImplementsGeneration == Elements!Spec
=============================================================================
