---------------------------- MODULE StringSpace ----------------------------
(***************************************************************************)
(* The string region (ralc.r, ocat.r, fstr.r) and what a collection does   *)
(* to it (rmemmgt.r).  A string is a qualifier, a length and an address,   *)
(* and strings share their characters freely: a substring lies inside the  *)
(* string that it is taken from, and a string that is put together may     *)
(* begin with the one it extends.  A collection sorts the qualifiers by    *)
(* address, moves clumps of overlapping strings towards the base of the    *)
(* region and relocates each qualifier once.                               *)
(***************************************************************************)
EXTENDS Integers, Sequences, SequencesExt, FiniteSets, FiniteSetsExt

CONSTANTS
  Var,      \* the variables of a program that hold strings
  Char,     \* characters
  Junk,     \* what is in memory that is not in use
  Literal,  \* the strings of the icode file, which lie outside the region
  ssize,    \* size of the region
  QLSIZE,   \* number of qualifiers that the list holds at first
  IntBits,  \* width of an int
  MaxLen    \* bound on the length of a string

ASSUME VarAssumption == IsFiniteSet(Var)
ASSUME CharAssumption == Junk \notin Char /\ Literal \subseteq Seq(Char)
ASSUME SizeAssumption == {ssize, QLSIZE, IntBits} \subseteq Nat \ {0} /\ MaxLen \in Nat

VARIABLES
  mem,       \* mem[a]: the character at the address a of the region
  strfree,   \* the first address that is not in use
  qual,      \* qual[d]: the qualifier that variable d holds
  qualsize,  \* how many qualifiers the list holds now
  copying    \* a concatenation that has to allocate first, or <<>>

vars == <<mem, strfree, qual, qualsize, copying>>

strbase == 1
strend == strbase + ssize
Address == strbase..strend - 1

\* A qualifier outside the region has the text instead of an address.
Inside(q) == q.loc # 0
Text(q) == IF Inside(q) THEN [i \in 1..q.len |-> mem[q.loc + i - 1]] ELSE q.text
Outside(s) == [loc |-> 0, len |-> Len(s), text |-> s]
At(a, n) == [loc |-> a, len |-> n, text |-> <<>>]

-----------------------------------------------------------------------------
(* Collection.                                                             *)
(* A definition named X_Slip is X as a plausible mistake in the code would *)
(* make it.  Next does not use it: it shows which property would notice.   *)

\* A difference of addresses as an int.
ToInt(n) ==
  LET w == 2 ^ IntBits
  IN IF n % w >= w \div 2 THEN (n % w) - w ELSE n % w

qlcmp(q1, q2) == ToInt(q1.loc - q2.loc)

\* The variables whose strings are in the string space.
Posted == {d \in Var : Inside(qual[d]) /\ qual[d].loc <= strfree}

\* Orders in which qsort may leave the list: qualifiers that are equal to it
\* may come in any order.
Sorted(s) == \A i \in 1..Len(s) - 1 : qlcmp(qual[s[i]], qual[s[i + 1]]) <= 0
Lists == {s \in SetToSeqs(Posted) : Sorted(s)}

\* The characters from source to cend are moved to dest.
Move(m, source, cend, dest) ==
  [a \in Address |->
     IF a \in dest..dest + (cend - source) - 1 THEN m[source + a - dest] ELSE m[a]]

\* The last clump is moved, and the next begins at a.
NextClump(c, a) ==
  [c EXCEPT !.mem = Move(@, c.source, c.cend, c.dest),
            !.dest = @ + (c.cend - c.source), !.source = a, !.cend = a]

\* One qualifier of the list; c is what scollect knows after those before it.
Relocate_NoClump(c, d) ==
  LET q == qual[d]
      b == IF q.loc > c.cend THEN NextClump(c, q.loc) ELSE c
  IN [b EXCEPT !.cend = q.loc + q.len,
               !.qual[d] = At(q.loc + (b.dest - b.source), q.len)]

Relocate(c, d) ==
  LET q == qual[d]
      b == IF q.loc > c.cend THEN NextClump(c, q.loc) ELSE c
  IN [b EXCEPT !.cend = Max({@, q.loc + q.len}),
               !.qual[d] = At(q.loc + (b.dest - b.source), q.len)]

\* passes[n]: what it knows after n of them.
Passes(list) ==
  LET first == qual[Head(list)].loc
      passes[n \in 0..Len(list)] ==
        IF n = 0 THEN [mem |-> mem, qual |-> qual, dest |-> strbase,
                       source |-> first, cend |-> first]
                 ELSE Relocate(passes[n - 1], list[n])
  IN passes

\* What lies above strfree is never read again.
Forget(m, free) == [a \in Address |-> IF a < free THEN m[a] ELSE Junk]

scollect(list) ==
  IF list = <<>>
    THEN /\ strfree' = strbase
         /\ mem' = Forget(mem, strbase)
         /\ UNCHANGED qual
    ELSE LET c == NextClump(Passes(list)[Len(list)], strfree)
         IN /\ strfree' = c.dest
            /\ mem' = Forget(c.mem, c.dest)
            /\ qual' = c.qual

\* postqual doubles the list when it is full, unless memory is too short.
GrowList ==
  /\ qualsize' \in {qualsize * 2 ^ k : k \in 0..Cardinality(Var)}
  /\ qualsize' = qualsize \/ qualsize' < 2 * Cardinality(Posted)

qualfail == qualsize' < Cardinality(Posted)

Collect_Regardless ==
  /\ GrowList
  /\ \E s \in Lists : scollect(SubSeq(s, 1, Min({qualsize', Len(s)})))
  /\ UNCHANGED copying

\* The strings stay where they are when the list is too short for them.
Collect ==
  /\ GrowList
  /\ IF qualfail
       THEN UNCHANGED <<mem, strfree, qual>>
       ELSE \E s \in Lists : scollect(s)
  /\ UNCHANGED copying

-----------------------------------------------------------------------------
(* What programs do with strings.                                          *)

Init ==
  /\ mem = [a \in Address |-> Junk]
  /\ strfree = strbase
  /\ qual \in [Var -> {Outside(s) : s \in Literal}]
  /\ qualsize = QLSIZE
  /\ copying = <<>>

Set(d, q) == qual' = [qual EXCEPT ![d] = q]

Idle == copying = <<>>

Copy(d, s) ==
  /\ Idle
  /\ Set(d, Outside(s))
  /\ UNCHANGED <<mem, strfree, qualsize, copying>>

\* alcstr, when there is room: s comes to the end of the string space.
alcstr(s) ==
  /\ strfree + Len(s) <= strend
  /\ mem' = [a \in Address |->
               IF a \in strfree..strfree + Len(s) - 1 THEN s[a - strfree + 1] ELSE mem[a]]
  /\ strfree' = strfree + Len(s)

\* A string that a function makes: reads, map, repl, a conversion.  Room that
\* it has allocated and not used is given back.
Make(d, s) ==
  /\ Idle
  /\ alcstr(s)
  /\ Set(d, At(strfree, Len(s)))
  /\ UNCHANGED <<qualsize, copying>>

Subscript(d, x, i, j) ==
  /\ Idle
  /\ i <= j + 1 /\ j <= qual[x].len
  /\ Set(d, IF Inside(qual[x]) THEN At(qual[x].loc + i - 1, j - i + 1)
            ELSE Outside(SubSeq(qual[x].text, i, j)))
  /\ UNCHANGED <<mem, strfree, qualsize, copying>>

Adjacent(q, r) == Inside(q) /\ Inside(r) /\ q.loc + q.len = r.loc

\* q is the last string of the space, and n characters may follow it.
LastString(q, n) == Inside(q) /\ q.loc + q.len = strfree /\ strend - strfree > n

\* x || y.  Nothing is copied when they lie side by side, and only y when x is
\* the last string of the space.
Concat(d, x, y) ==
  LET q == qual[x]
      r == qual[y]
  IN /\ Idle
     /\ q.len + r.len <= MaxLen
     /\ \/ /\ Adjacent(q, r)
           /\ Set(d, At(q.loc, q.len + r.len))
           /\ UNCHANGED <<mem, strfree, copying>>
        \/ /\ ~Adjacent(q, r) /\ LastString(q, r.len)
           /\ alcstr(Text(r))
           /\ Set(d, At(q.loc, q.len + r.len))
           /\ UNCHANGED copying
        \/ /\ ~Adjacent(q, r) /\ ~LastString(q, r.len)
           /\ copying' = <<d, x, y>>
           /\ UNCHANGED <<mem, strfree, qual>>
     /\ UNCHANGED qualsize

Needed == qual[copying[2]].len + qual[copying[3]].len

\* Both are copied, to where they have come in the meantime.
CopyBoth ==
  /\ ~Idle
  /\ alcstr(Text(qual[copying[2]]) \o Text(qual[copying[3]]))
  /\ Set(copying[1], At(strfree, Needed))
  /\ copying' = <<>>
  /\ UNCHANGED qualsize

\* A collection has been in vain: an error.
NoRoom ==
  /\ ~Idle
  /\ strend - strfree < Needed
  /\ copying' = <<>>
  /\ UNCHANGED <<mem, strfree, qual, qualsize>>

\* Collections come when there is no room, and between operations for the sake
\* of the block region, or when the program calls collect.
CollectWhenDue ==
  /\ IF Idle THEN TRUE ELSE strend - strfree < Needed
  /\ Collect

Next ==
  \/ CollectWhenDue
  \/ CopyBoth
  \/ NoRoom
  \/ \E d \in Var, s \in Literal : Copy(d, s) \/ Make(d, s)
  \/ \E d, x \in Var, i \in 1..MaxLen + 1, j \in 0..MaxLen : Subscript(d, x, i, j)
  \/ \E d, x, y \in Var : Concat(d, x, y)

Spec == Init /\ [][Next]_vars

-----------------------------------------------------------------------------
(* Properties.                                                             *)

TypeOK ==
  /\ mem \in [Address -> Char \cup {Junk}]
  /\ strfree \in strbase..strend
  /\ \A d \in Var :
       LET q == qual[d]
       IN \/ q = Outside(q.text) /\ q.text \in Seq(Char)
          \/ /\ q = At(q.loc, q.len)
             /\ strbase <= q.loc /\ q.loc + q.len <= strfree
  /\ qualsize \in Nat \ {0}
  /\ copying \in {<<>>} \cup Var \X Var \X Var

\* Programs see values: no operation changes a string but the one it assigns
\* to, whatever characters they share, and no collection changes any.
S == INSTANCE StringVars WITH value <- [d \in Var |-> Text(qual[d])]
ImplementsStrings == S!Spec

Covered(qs) == UNION {{a \in Address : a >= qs[d].loc /\ a < qs[d].loc + qs[d].len} :
                        d \in {v \in Var : Inside(qs[v])}}

\* A collection leaves the characters of reachable strings, each of them once,
\* and nothing else: strings that share characters still do.
Compacted ==
  [][strfree' < strfree => strfree' - strbase = Cardinality(Covered(qual))]_vars

\* "The string qualifiers are now ordered by starting location" (scollect).
OrderedByLocation ==
  \A s \in Lists : \A i \in 1..Len(s) - 1 : qual[s[i]].loc <= qual[s[i + 1]].loc
=============================================================================
