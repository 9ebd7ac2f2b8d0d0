------------------------------ MODULE Ordering ------------------------------
(***************************************************************************)
(* How Icon compares values: anycmp, equiv, lexcmp and csetcmp of          *)
(* runtime/rcomp.r, the comparisons of strings and of identity in ocomp.r, *)
(* and sort and sortf of fmisc.r, which sort by them.  Each behaviour is   *)
(* one operation.                                                          *)
(*                                                                         *)
(* A value is a record with its type.  A cset is a sequence of words, each *)
(* the set of its bits, the first one 0.  An object has an identity, which *)
(* is its address or its serial number.                                    *)
(***************************************************************************)
EXTENDS Integers, FiniteSets, SequencesExt

CONSTANTS
  Compared,    \* the values that are compared
  Structure,   \* the structures that are sorted
  IntBits      \* bits of a word of a cset

OrderingAssumption ==
  /\ IntBits \in Nat \ {0}
  /\ \A x \in Compared : "type" \in DOMAIN x

VARIABLES
  x, y,        \* the operands of a comparison; of sort, structure and method
  result

vars == <<x, y, result>>

Less == -1
Equal == 0
Greater == 1
None == [outcome |-> "none"]
Compares(c, same) == [outcome |-> "compared", cmp |-> c, same |-> same]
Gives(v) == [outcome |-> "gives", value |-> v]
Fails == [outcome |-> "fails"]
runerr(n) == [outcome |-> "error", number |-> n]

Sign(n) == CASE n < 0 -> Less [] n = 0 -> Equal [] n > 0 -> Greater

-----------------------------------------------------------------------------
\* Comparing.

lexcmp(s1, s2) ==
  LET differ == {k \in DOMAIN s1 \cap DOMAIN s2 : s1[k] # s2[k]}
  IN IF differ = {} THEN Sign(Len(s1) - Len(s2))
     ELSE Sign(s1[Min(differ)] - s2[Min(differ)])

\* Slip: the first bit that differs decides, whether or not others follow.
csetcmp_First(cs1, cs2) ==
  LET words == {k \in DOMAIN cs1 : cs1[k] # cs2[k]}
      k == Min(words)
      n == Min((cs1[k] \ cs2[k]) \cup (cs2[k] \ cs1[k]))
  IN IF words = {} THEN Equal ELSE IF n \in cs2[k] THEN Greater ELSE Less

csetcmp(cs1, cs2) ==
  LET words == {k \in DOMAIN cs1 : cs1[k] # cs2[k]}
      k == Min(words)
      n == Min((cs1[k] \ cs2[k]) \cup (cs2[k] \ cs1[k]))
      More(cs) == (\E bit \in cs[k] : bit > n) \/ \E w \in DOMAIN cs : w > k /\ cs[w] # {}
  IN CASE words = {} -> Equal
       [] words # {} /\ n \in cs2[k] -> IF More(cs1) THEN Greater ELSE Less
       [] OTHER -> IF More(cs2) THEN Less ELSE Greater

order(v) ==
  CASE v.type = "null" -> 0
    [] v.type = "integer" -> 1
    [] v.type = "real" -> 2
    [] v.type = "string" -> 3
    [] v.type = "cset" -> 4
    [] v.type = "file" -> 5
    [] v.type = "coexpr" -> 6
    [] v.type = "proc" -> 7
    [] v.type = "list" -> 8
    [] v.type = "set" -> 9
    [] v.type = "table" -> 10
    [] v.type = "record" -> 11

anycmp(v1, v2) ==
  IF order(v1) # order(v2) THEN Sign(order(v1) - order(v2))
  ELSE CASE v1.type = "null" -> Equal
         [] v1.type = "string" -> lexcmp(v1.s, v2.s)
         [] v1.type \in {"integer", "real"} -> Sign(v1.n - v2.n)
         [] v1.type = "cset" -> csetcmp(v1.bits, v2.bits)
         [] v1.type \in {"file", "proc"} -> lexcmp(v1.name, v2.name)
         [] v1.type \in {"coexpr", "list", "set", "table"} -> Sign(v1.id - v2.id)
         [] v1.type = "record" ->
              LET named == lexcmp(v1.name, v2.name)
              IN IF named = Equal THEN Sign(v1.id - v2.id) ELSE named

equiv(v1, v2) ==
  \/ v1 = v2
  \/ /\ v1.type = "string" /\ v2.type = "string"
     /\ Len(v1.s) = Len(v2.s) /\ \A k \in DOMAIN v1.s : v1.s[k] = v2.s[k]
  \/ v1.type = v2.type /\ v1.type \in {"integer", "real"} /\ v1.n = v2.n
  \/ /\ v1.type = "cset" /\ v2.type = "cset"
     /\ \A k \in DOMAIN v1.bits : v1.bits[k] = v2.bits[k]

-----------------------------------------------------------------------------
\* Sorting by a field.

CvtFail == -99
cvpos(p, len) ==
  CASE p < -len \/ p > len + 1 -> CvtFail
    [] p > 0 /\ p <= len + 1 -> p
    [] OTHER -> len + p + 1

\* The ith element of a list from its element blocks.
RECURSIVE Locate(_, _)
Locate(blocks, i) ==
  LET b == Head(blocks)
  IN IF i > b.nused THEN Locate(Tail(blocks), i - b.nused)
     ELSE b.lslots[((b.first + i - 1) % Len(b.lslots)) + 1]

ListSize(v) == FoldLeft(LAMBDA n, b : n + b.nused, 0, v.blocks)

\* The nth field of v, if any: a sequence of at most one.
nth(v, sort_field) ==
  LET size == CASE v.type = "record" -> Len(v.fields)
                [] v.type = "list" -> ListSize(v)
                [] OTHER -> 0
      i == cvpos(sort_field, size)
  IN CASE v.type \notin {"record", "list"} \/ i = CvtFail \/ i > size -> <<>>
       [] v.type = "record" /\ i # CvtFail /\ i <= size -> <<v.fields[i]>>
       [] v.type = "list" /\ i # CvtFail /\ i <= size -> <<Locate(v.blocks, i)>>

nthcmp(v1, v2, sort_field) ==
  LET e1 == nth(v1, sort_field)
      e2 == nth(v2, sort_field)
      both == v1.type = v2.type /\ v1.type \in {"record", "list"}
      decided == CASE ~both \/ (e1 = <<>> /\ e2 = <<>>) -> Equal
                   [] both /\ e1 = <<>> /\ e2 # <<>> -> Less
                   [] both /\ e1 # <<>> /\ e2 = <<>> -> Greater
                   [] OTHER -> anycmp(e1[1], e2[1])
  IN IF decided # Equal THEN decided ELSE anycmp(v1, v2)

-----------------------------------------------------------------------------
Init ==
  /\ \/ x \in Compared /\ y \in Compared
     \/ x \in Structure /\ y \in [type : {"method"}, i : -3..5]
  /\ result = None

Answers(r) == result = None /\ result' = r /\ UNCHANGED <<x, y>>

Compare ==
  /\ x \in Compared /\ y \in Compared
  /\ Answers(Compares(anycmp(x, y), equiv(x, y)))

\* ===
eqv ==
  /\ x \in Compared /\ y \in Compared
  /\ Answers(IF equiv(x, y) THEN Gives(y) ELSE Fails)

\* == ~== >>= >> <<= <<
StrComp ==
  /\ x.type = "string" /\ y.type = "string"
  /\ \E icon_op \in {"==", "~==", ">>=", ">>", "<<=", "<<"} :
       LET c == lexcmp(x.s, y.s)
           holds == CASE icon_op = "==" -> Len(x.s) = Len(y.s) /\ c = Equal
                      [] icon_op = "~==" -> Len(x.s) # Len(y.s) \/ c # Equal
                      [] icon_op = ">>=" -> c # Less
                      [] icon_op = ">>" -> c = Greater
                      [] icon_op = "<<=" -> c # Greater
                      [] icon_op = "<<" -> c = Less
       IN Answers([outcome |-> "test", op |-> icon_op, holds |-> holds])

(* What qsort makes of s with a comparison: an arrangement of the elements *)
(* in which none is greater than the next.                                 *)
Arrangements(s) ==
  {[k \in DOMAIN s |-> s[p[k]]] : p \in {q \in [DOMAIN s -> DOMAIN s] : IsInjective(q)}}
qsort(s, Cmp(_, _)) ==
  {r \in Arrangements(s) : \A k \in 1..Len(s) - 1 : Cmp(r[k], r[k + 1]) # Greater}

\* The elements that sort copies into a new list.
Elements(v) ==
  CASE v.type = "list" -> [k \in 1..ListSize(v) |-> Locate(v.blocks, k)]
    [] v.type = "record" -> v.fields
    [] v.type = "set" -> v.members

Sort ==
  /\ x.type \in {"list", "record", "set"} /\ y.type = "method"
  /\ \E r \in qsort(Elements(x), anycmp) : Answers(Gives(r))

SortTable ==
  /\ x.type = "table" /\ y.type = "method"
  /\ LET ByRef(p, q) == anycmp(p.tref, q.tref)
         ByVal(p, q) == anycmp(p.tval, q.tval)
     IN CASE y.i \in {1, 3} -> \E r \in qsort(x.elems, ByRef) : Answers(Gives(r))
          [] y.i \in {2, 4} -> \E r \in qsort(x.elems, ByVal) : Answers(Gives(r))
          [] OTHER -> Answers(runerr(205))

Sortf ==
  /\ x.type \in {"list", "record", "set"} /\ y.type = "method"
  /\ IF y.i = 0 THEN Answers(runerr(205))
     ELSE \E r \in qsort(Elements(x), LAMBDA v, w : nthcmp(v, w, y.i)) :
            Answers([outcome |-> "fields", value |-> r])

Next == Compare \/ eqv \/ StrComp \/ Sort \/ SortTable \/ Sortf

Spec == Init /\ [][Next]_vars

-----------------------------------------------------------------------------
\* Properties.

\* The characters of a cset, in order.
Characters(cs) ==
  SetToSortSeq(UNION {{(k - 1) * IntBits + bit : bit \in cs[k]} : k \in DOMAIN cs}, <)

Before(s, t) ==
  \E k \in 1..Len(t) :
    /\ Len(s) >= k - 1 /\ SubSeq(s, 1, k - 1) = SubSeq(t, 1, k - 1)
    /\ Len(s) >= k => s[k] < t[k]

\* Where a value is in the order of all values of its type.
Collation(v) ==
  CASE v.type = "null" -> <<>>
    [] v.type = "string" -> v.s
    [] v.type \in {"integer", "real"} -> <<v.n>>
    [] v.type = "cset" -> Characters(v.bits)
    [] v.type \in {"file", "proc"} -> v.name
    [] v.type = "record" -> v.name \o <<-1, v.id>>
    [] OTHER -> <<v.id>>

Types == <<"null", "integer", "real", "string", "cset", "file", "coexpr", "proc",
           "list", "set", "table", "record">>
Collates(v, w) ==
  Before(<<CHOOSE k \in DOMAIN Types : Types[k] = v.type>> \o Collation(v),
         <<CHOOSE k \in DOMAIN Types : Types[k] = w.type>> \o Collation(w))

\* The values that are the same whatever block they are in.
Same(v, w) == v.type = w.type /\ ~Collates(v, w) /\ ~Collates(w, v)
Named(v) == v.type \in {"file", "proc"}

Rearranged(s, t) ==
  /\ Len(s) = Len(t)
  /\ \A v \in ToSet(s) \cup ToSet(t) :
       Cardinality({k \in DOMAIN s : s[k] = v}) = Cardinality({k \in DOMAIN t : t[k] = v})

InOrder(s, Later(_, _)) == \A j, k \in DOMAIN s : j < k => ~Later(s[j], s[k])

\* v is sorted after w by field n: those of one kind without that field first.
Position(v, n) == IF n > 0 THEN n ELSE n + 1 + (IF v.type = "record" THEN Len(v.fields) ELSE ListSize(v))
Field(v, n) ==
  LET all == Elements(v) IN
  IF Position(v, n) \in DOMAIN all THEN <<all[Position(v, n)]>> ELSE <<>>
AfterByField(v, w, n) ==
  LET kind == v.type = w.type /\ v.type \in {"list", "record"}
      a == Field(v, n)
      b == Field(w, n)
      differ == kind /\ (Len(a) # Len(b) \/ (a # <<>> /\ b # <<>>
                                             /\ (Collates(a[1], b[1]) \/ Collates(b[1], a[1]))))
  IN IF differ THEN Len(a) > Len(b) \/ (a # <<>> /\ b # <<>> /\ Collates(b[1], a[1]))
     ELSE Collates(w, v)

(* The comparison of any two values is that of the places they have in one *)
(* total order, csets in that of their conversions to strings; it says     *)
(* equal exactly if === does, except for files and procedures of the same  *)
(* name; and sort and sortf return all elements, once, in this order.      *)
Collated ==
  CASE result.outcome = "compared" ->
         /\ result.cmp = Less <=> Collates(x, y)
         /\ result.cmp = Greater <=> Collates(y, x)
         /\ result.same => result.cmp = Equal
         /\ ~Named(x) => (result.same <=> Same(x, y))
    [] result.outcome = "test" ->
         LET less == Before(x.s, y.s)
             more == Before(y.s, x.s)
             right == CASE result.op = "==" -> ~less /\ ~more
                        [] result.op = "~==" -> less \/ more
                        [] result.op = ">>=" -> ~less
                        [] result.op = ">>" -> more
                        [] result.op = "<<=" -> ~more
                        [] result.op = "<<" -> less
         IN result.holds = right
    [] result.outcome = "gives" /\ y.type = "method" /\ x.type # "table" ->
         Rearranged(result.value, Elements(x)) /\ InOrder(result.value, LAMBDA v, w : Collates(w, v))
    [] result.outcome = "gives" /\ y.type = "method" /\ x.type = "table" ->
         /\ Rearranged(result.value, x.elems)
         /\ y.i \in {1, 3} => InOrder(result.value, LAMBDA p, q : Collates(q.tref, p.tref))
         /\ y.i \in {2, 4} => InOrder(result.value, LAMBDA p, q : Collates(q.tval, p.tval))
    [] result.outcome = "fields" ->
         /\ Rearranged(result.value, Elements(x))
         /\ InOrder(result.value, LAMBDA v, w : AfterByField(v, w, y.i))
    [] OTHER -> TRUE
=============================================================================
