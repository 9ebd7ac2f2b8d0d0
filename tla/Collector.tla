----------------------------- MODULE Collector -----------------------------
(***************************************************************************)
(* The garbage collection of block regions (rmemmgt.r).  Marking threads   *)
(* every pointer to a block of the current region into a chain that begins *)
(* in the block's title word and ends with the title itself; adjust        *)
(* unwinds the chains into the addresses the blocks will have; compact     *)
(* moves the blocks there.  There is no memory for the marks but the words *)
(* of the blocks and pointers themselves.  Blocks of other regions and     *)
(* co-expressions are marked where they are and do not move.               *)
(*                                                                         *)
(* A word of memory is an integer.  The collection is one C function that  *)
(* nothing interrupts; its steps are told apart here for what holds in the *)
(* middle of it.                                                           *)
(***************************************************************************)
EXTENDS Integers, Sequences, SequencesExt, FiniteSets, FiniteSetsExt

CONSTANTS
  Here,       \* the types of the blocks of the current region, in order
  There,      \* the types of the blocks of the other region
  ErrorValue  \* what &errorvalue holds

\* A block of type t has t - 1 words after its title.
MaxType == 3
T_Coexpr == 4
F_Mark == 1000

\* What is assumed of the constants.
Assumption == Here \in Seq(1..MaxType) /\ There \in Seq(1..MaxType)

\* What a pointer or descriptor may hold instead of an address.
Null == 0
String == -1     \* a qualifier of the string space
Relocated == -2  \* a qualifier that scollect has relocated

VARIABLES
  phase,    \* "mark", "strings", "adjust", "compact", "unmark" or "done"
  mem,      \* mem[a]: the word at address a
  todo,     \* pointers that marking has still to follow, in order
  quallist, \* the addresses of the qualifiers that marking has found
  source, dest, blkfree,
  freed,    \* cofree has freed the co-expression
  before    \* history: the memory before the collection

vars == <<phase, mem, todo, quallist, source, dest, blkfree, freed, before>>

-----------------------------------------------------------------------------
(* The layout: pointers that the collection starts from, a co-expression   *)
(* with its stack, the other region and the current one.                   *)
(* A definition named X_Slip is X as a plausible mistake in the code would *)
(* make it.  Next does not use it: it shows which property would notice.   *)

k_main == 10          \* stands for all the pointers that are roots
k_errorvalue == 11    \* &errorvalue
coexpr == 20
Stack == {21}
base == 30            \* of the other region
blkbase == 40

Words(t) == t
SumOfWords(types) == FoldSeq(LAMBDA t, n : Words(t) + n, 0, types)
Blocks(first, types) ==
  {first + SumOfWords(SubSeq(types, 1, i - 1)) : i \in 1..Len(types)}

free == base + SumOfWords(There)
end == blkbase + SumOfWords(Here)

Roots == {k_main}
Titles == Blocks(base, There) \cup Blocks(blkbase, Here) \cup {coexpr}
Address == {k_main, k_errorvalue, coexpr} \cup Stack \cup base..free - 1
           \cup blkbase..end - 1
Slots == Address \ Titles
SlotCount == Cardinality(Slots)

TypeAt == [a \in Titles |->
  IF a = coexpr THEN T_Coexpr
  ELSE LET first == IF a < blkbase THEN base ELSE blkbase
           types == IF a < blkbase THEN There ELSE Here
       IN types[CHOOSE i \in 1..Len(types) :
                  first + SumOfWords(SubSeq(types, 1, i - 1)) = a]]

InThis(a) == blkbase <= a /\ a < blkfree
InOther(a) == base <= a /\ a < free

\* The pointers of the block at a, whose title is t.
Fields(a, t) == [i \in 1..t - 1 |-> a + i]

\* BlkSize of a block with the title t.
Size(t) == Words(IF t >= F_Mark THEN t - F_Mark ELSE t)

Init ==
  /\ phase = "mark"
  /\ \E m \in [Slots \ {k_errorvalue} -> {String} \cup Titles] :
       mem = [a \in Address |-> IF a = k_errorvalue THEN ErrorValue
                               ELSE IF a \in Slots THEN m[a] ELSE TypeAt[a]]
  /\ todo = <<k_main>>
  /\ quallist = <<>>
  /\ source = blkbase /\ dest = blkbase /\ blkfree = end
  /\ freed = FALSE
  /\ before = mem

-----------------------------------------------------------------------------
(* Marking.                                                                *)

slot == Head(todo)
block == mem[slot]

\* postqual
Post ==
  /\ block = String
  /\ quallist' = Append(quallist, slot)
  /\ todo' = Tail(todo)
  /\ UNCHANGED mem

\* The chain of the block gets one more link, and the block's own pointers are
\* followed when it was not marked.
ThreadHere ==
  /\ InThis(block)
  /\ mem' = [mem EXCEPT ![slot] = mem[block], ![block] = slot]
  /\ todo' = IF mem[block] <= MaxType THEN Fields(block, mem[block]) \o Tail(todo)
             ELSE Tail(todo)
  /\ UNCHANGED quallist

\* sweep: the stack of a co-expression that was not marked.
SweepStack ==
  /\ block = coexpr
  /\ IF mem[coexpr] = T_Coexpr
       THEN /\ mem' = [mem EXCEPT ![coexpr] = slot]
            /\ todo' = SetToSeq(Stack) \o Tail(todo)
       ELSE todo' = Tail(todo) /\ UNCHANGED mem
  /\ UNCHANGED quallist

MarkThere ==
  /\ InOther(block)
  /\ IF mem[block] <= MaxType
       THEN /\ mem' = [mem EXCEPT ![block] = @ + F_Mark]
            /\ todo' = Fields(block, mem[block]) \o Tail(todo)
       ELSE todo' = Tail(todo) /\ UNCHANGED mem
  /\ UNCHANGED quallist

Mark ==
  /\ phase = "mark" /\ todo # <<>>
  /\ Post \/ ThreadHere \/ SweepStack \/ MarkThere
  /\ UNCHANGED <<phase, source, dest, blkfree, freed, before>>

-----------------------------------------------------------------------------
(* Reclaiming.                                                             *)

\* cofree
cofree ==
  /\ phase = "mark" /\ todo = <<>>
  /\ freed' = (mem[coexpr] = T_Coexpr)
  /\ mem' = [mem EXCEPT ![coexpr] = T_Coexpr]
  /\ phase' = "strings"
  /\ UNCHANGED <<todo, quallist, source, dest, blkfree, before>>

\* Every qualifier of the list is relocated, through its address.
scollect ==
  /\ phase = "strings"
  /\ mem' = FoldLeft(LAMBDA m, d : [m EXCEPT ![d] = @ + (Relocated - String)],
                     mem, quallist)
  /\ phase' = "adjust"
  /\ UNCHANGED <<todo, quallist, source, dest, blkfree, freed, before>>

\* The chain that starts with the word w, as the sequence of its links, and
\* the title that it ends with.
Links(m, w) ==
  LET from[n \in Nat] ==
        IF n = 0 THEN <<w>>
        ELSE LET c == from[n - 1]
             IN IF Last(c) <= MaxType THEN c ELSE Append(c, m[Last(c)])
  IN from[SlotCount]

adjust_SizeFirst ==
  LET links == Links(mem, mem[source])
      chain == ToSet(Front(links))
      type  == Last(links)
  IN /\ phase = "adjust" /\ source < blkfree
     /\ IF mem[source] > MaxType
          THEN /\ mem' = [a \in Address |->
                            IF a \in chain THEN dest
                            ELSE IF a = source THEN type ELSE mem[a]]
               /\ dest' = dest + Size(type)
          ELSE UNCHANGED <<mem, dest>>
     /\ source' = source + Size(type)
     /\ UNCHANGED <<phase, todo, quallist, blkfree, freed, before>>

adjust ==
  LET links == Links(mem, mem[source])
      chain == ToSet(Front(links))
      type  == Last(links)
  IN /\ phase = "adjust" /\ source < blkfree
     /\ IF mem[source] > MaxType
          THEN /\ mem' = [a \in Address |->
                            IF a \in chain THEN dest
                            ELSE IF a = source THEN type + F_Mark ELSE mem[a]]
               /\ dest' = dest + Size(type)
          ELSE UNCHANGED <<mem, dest>>
     /\ source' = source + Size(type)
     /\ UNCHANGED <<phase, todo, quallist, blkfree, freed, before>>

Adjusted ==
  /\ phase = "adjust" /\ source >= blkfree
  /\ phase' = "compact"
  /\ source' = blkbase /\ dest' = blkbase
  /\ UNCHANGED <<mem, todo, quallist, blkfree, freed, before>>

\* mvc copies upwards in memory, which is right for a move to lower addresses.
compact ==
  LET size == Size(mem[source])
      good == [mem EXCEPT ![source] = @ - F_Mark]
  IN /\ phase = "compact" /\ source < blkfree
     /\ IF mem[source] >= F_Mark
          THEN /\ mem' = [a \in Address |->
                            IF a \in dest..dest + size - 1 THEN good[a - dest + source]
                            ELSE good[a]]
               /\ dest' = dest + size
          ELSE UNCHANGED <<mem, dest>>
     /\ source' = source + size
     /\ UNCHANGED <<phase, todo, quallist, blkfree, freed, before>>

Compacted ==
  /\ phase = "compact" /\ source >= blkfree
  /\ phase' = "unmark"
  /\ blkfree' = dest
  /\ source' = base
  /\ UNCHANGED <<mem, todo, quallist, dest, freed, before>>

\* Turn off the marks in the other regions.
Unmark ==
  /\ phase = "unmark" /\ source < free
  /\ mem' = [mem EXCEPT ![source] = Size(@)]
  /\ source' = source + Size(mem[source])
  /\ UNCHANGED <<phase, todo, quallist, dest, blkfree, freed, before>>

Finish ==
  /\ phase = "unmark" /\ source >= free
  /\ phase' = "done"
  /\ UNCHANGED <<mem, todo, quallist, source, dest, blkfree, freed, before>>

Next ==
  \/ Mark \/ cofree \/ scollect
  \/ adjust \/ Adjusted \/ compact \/ Compacted
  \/ Unmark \/ Finish

Spec == Init /\ [][Next]_vars
-----------------------------------------------------------------------------
(* Properties.                                                             *)

TypeOK ==
  /\ phase \in {"mark", "strings", "adjust", "compact", "unmark", "done"}
  /\ mem \in [Address -> Int]
  /\ todo \in Seq(Slots) /\ quallist \in Seq(Slots)
  /\ source \in Nat /\ dest \in Nat /\ blkfree \in blkbase..end
  /\ freed \in BOOLEAN

\* What the program could reach before the collection, from the pointers ps.
SlotsOf(a) == IF a = coexpr THEN Stack ELSE ToSet(Fields(a, TypeAt[a]))
Reached(ps) ==
  LET from[n \in 0..Cardinality(Titles)] ==
        IF n = 0 THEN {before[p] : p \in ps} \cap Titles
        ELSE LET r == from[n - 1]
             IN r \cup ({before[p] : p \in UNION {SlotsOf(a) : a \in r}} \cap Titles)
  IN from[Cardinality(Titles)]

\* While marking threads pointers, the chain of every block leads through
\* pointers to that block, each of them once, to its title, and the pointers
\* that are not in it are as they were.
ChainsSound ==
  phase = "mark" =>
    \A a \in Titles :
      LET links == Links(mem, mem[a])
          chain == ToSet(Front(links))
      IN a >= blkbase =>
           /\ Last(links) = TypeAt[a]
           /\ IsInjective(links)
           /\ \A p \in Slots : IF p \in chain THEN before[p] = a
                              ELSE before[p] = a => mem[p] = a

\* No block and no pointer to it is lost while pointers are threaded.
ThreadsSound == TypeOK /\ ChainsSound

\* When it is over, what the program could reach is there as before, at new
\* addresses and packed at the base of the region: blocks with their titles,
\* pointers relocated whatever memory they are in, qualifiers relocated once.
\* No mark is left, and the co-expression is freed if nothing could reach it.
Isomorphic ==
  phase = "done" =>
    LET kept == Reached(Roots)
        here == {a \in kept : a >= blkbase}
        below == [a \in here \cup {end} |->
                    MapThenSumSet(LAMBDA b : Words(TypeAt[b]), {b \in here : b < a})]
        moved == [a \in here |-> blkbase + below[a]]
        new(w) == IF w = String THEN Relocated ELSE IF w \in here THEN moved[w] ELSE w
    IN /\ blkfree = blkbase + below[end]
       /\ \A a \in here :
            /\ mem[moved[a]] = TypeAt[a]
            /\ \A i \in 1..Words(TypeAt[a]) - 1 : mem[moved[a] + i] = new(before[a + i])
       /\ \A p \in Roots \cup UNION {SlotsOf(a) : a \in kept \ here} :
            mem[p] = new(before[p])
       /\ \A a \in Titles : a < blkbase => mem[a] = TypeAt[a]
       /\ freed <=> coexpr \notin kept

\* At every step, and when it is over.
CollectsRightly == ThreadsSound /\ Isomorphic

\* "markblock - mark each accessible block in the block region": &errorvalue
\* makes a block accessible as well.
AccessibleMarked ==
  phase = "mark" /\ todo = <<>> =>
    \A a \in Reached(Roots \cup {k_errorvalue}) : mem[a] # TypeAt[a]
=============================================================================
