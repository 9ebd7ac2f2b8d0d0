------------------------------- MODULE Lists -------------------------------
(***************************************************************************)
(* Lists (fstruct.r, rstruct.r, oref.r, omisc.r, ocat.r): a doubly linked  *)
(* chain of blocks, each of them a circular buffer.  put and push add a    *)
(* block when the one at their end is full; get and pull leave a block     *)
(* that they have emptied in the chain until the next get or pull.  !L is  *)
(* suspended between two elements and goes on from the block it was in,    *)
(* whatever has become of it.                                              *)
(***************************************************************************)
EXTENDS Integers, Sequences, SequencesExt, FiniteSets, FiniteSetsExt

CONSTANTS
  Value,         \* Icon values
  None,          \* failure, or no value of interest
  MinListSlots,  \* smallest number of slots of a block that is added
  MadeBy,        \* the operations the list may come from
  MaxSize,       \* bound on the elements of the list
  MaxMade,       \* bound on the elements it is made with
  MaxBlocks      \* bound on the blocks in memory

ASSUME NoneAssumption == None \notin Value
ASSUME SlotsAssumption == MinListSlots \in Nat \ {0}
ASSUME MadeByAssumption == MadeBy \subseteq {"list", "lconcat"}
ASSUME BoundsAssumption == {MaxSize, MaxMade} \subseteq Nat /\ MaxBlocks \in Nat \ {0}

VARIABLES
  blk,       \* the list-element blocks in memory
  listhead, listtail, size,
  ep, i,     \* a suspended !L: its block, or NULL, and its index in the block
  result,    \* what the last operation has returned
  produced   \* history: how many elements !L has produced, or 0 once the
             \* list has been changed by something else than puts

list == <<blk, listhead, listtail, size>>
bang == <<ep, i, produced>>
vars == <<list, bang, result>>

Block == 1..MaxBlocks
NULL == 0

Unused == [listprev |-> NULL, listnext |-> NULL, nslots |-> 0, first |-> 0,
           nused |-> 0, lslots |-> <<>>]

-----------------------------------------------------------------------------
(* Blocks.  Slot numbers start at 0.                                       *)
(* A definition named X_Slip is X as a plausible mistake in the code would *)
(* make it.  Next does not use it: it shows which property would notice.   *)

Slot(x, n) == IF x.first + n >= x.nslots THEN x.first + n - x.nslots ELSE x.first + n
Elem(x, n) == x.lslots[Slot(x, n) + 1]
Elems(x) == [n \in 1..x.nused |-> Elem(x, n - 1)]
At(b, n) == Elem(blk[b], n)

\* The blocks of bs from b on, and their elements.
Along(bs, b) ==
  LET path[n \in 0..MaxBlocks] ==
        [x \in Block \cup {NULL} |->
           IF n = 0 \/ x = NULL THEN <<>> ELSE <<x>> \o path[n - 1][bs[x].listnext]]
  IN path[MaxBlocks][b]

Elements(bs, b) ==
  LET elements[n \in 0..MaxBlocks] ==
        [x \in Block \cup {NULL} |->
           IF n = 0 \/ x = NULL THEN <<>>
           ELSE Elems(bs[x]) \o elements[n - 1][bs[x].listnext]]
  IN elements[MaxBlocks][b]

From(b) == Along(blk, b)
Contents == Elements(blk, listhead)

\* The blocks of bs that a pointer of S leads to.
Closed(bs, R) == \A b \in R \ {NULL} : {bs[b].listprev, bs[b].listnext} \subseteq R
Reached(bs, S) ==
  LET Rs == {R \in SUBSET (Block \cup {NULL}) : S \subseteq R /\ Closed(bs, R)}
  IN {b \in Block : \A R \in Rs : b \in R}

\* The blocks bs without what the program can no longer reach, other blocks
\* and the values of slots that are not in use: nothing can tell when a
\* collection takes them.
Collected(bs, S) ==
  LET kept    == Reached(bs, S)
      used(x) == {Slot(x, n) + 1 : n \in 0..x.nused - 1}
  IN [b \in Block |->
        IF b \notin kept THEN Unused
        ELSE [bs[b] EXCEPT !.lslots =
                [s \in 1..bs[b].nslots |-> IF s \in used(bs[b]) THEN @[s] ELSE None]]]

\* A block that alclstb may return.
Fresh == Block \ Reached(blk, {listhead, listtail, ep})

\* The sizes tried for a new block: half of the list, and ever smaller ones
\* if there is no room.
Sizes ==
  LET half == Max({size \div 2, MinListSlots})
  IN {half} \cup {n \in MinListSlots..half : \E k \in 1..size : n = half \div 4^k}

NewBlock(n) == [Unused EXCEPT !.nslots = n, !.lslots = [s \in 1..n |-> None]]

-----------------------------------------------------------------------------
(* The block that get takes from, and the one that pull takes from. *)
HeadInUse == IF blk[listhead].nused <= 0 THEN blk[listhead].listnext ELSE listhead
TailInUse == IF blk[listtail].nused <= 0 THEN blk[listtail].listprev ELSE listtail

\* list(n, x), [...] and L[i:j] see to it that the only block has a slot;
\* L1 ||| L2 does not.
Init ==
  /\ \E n \in 0..MaxMade, op \in MadeBy, x \in Value :
       LET nslots == IF n = 0 /\ op = "list" THEN MinListSlots ELSE n IN
       /\ size = n
       /\ blk = [b \in Block |->
                   IF b # 1 THEN Unused
                   ELSE [NewBlock(nslots) EXCEPT
                           !.nused = n,
                           !.lslots = [s \in 1..nslots |-> IF s <= n THEN x ELSE None]]]
  /\ listhead = 1
  /\ listtail = 1
  /\ ep = NULL /\ i = 0 /\ produced = 0
  /\ result = None

Idle == ep = NULL

\* Whatever the new blocks bs, those that nothing refers to are reclaimed.
SetBlocks(bs) == blk' = Collected(bs, {listhead', listtail', ep'})

(* push(L, v): into the slot before the first one. *)
Pushed(bs, b, v) ==
  LET j == IF bs[b].first = 0 THEN bs[b].nslots - 1 ELSE bs[b].first - 1
  IN [bs EXCEPT ![b].lslots[j + 1] = v, ![b].first = j, ![b].nused = @ + 1]

Push(v) ==
  /\ size < MaxSize
  /\ UNCHANGED <<listtail, ep, i>>
  /\ \/ /\ blk[listhead].nused < blk[listhead].nslots
        /\ UNCHANGED listhead
        /\ SetBlocks(Pushed(blk, listhead, v))
     \/ /\ blk[listhead].nused >= blk[listhead].nslots
        /\ Fresh # {}
        /\ listhead' = Min(Fresh)
        /\ \E n \in Sizes :
             SetBlocks(Pushed([blk EXCEPT
                                ![listhead'] = [NewBlock(n) EXCEPT !.listnext = listhead],
                                ![listhead].listprev = listhead'], listhead', v))
  /\ size' = size + 1
  /\ produced' = 0
  /\ result' = None

(* put(L, v): into the slot after the last one. *)
PutAt_NoWrap(bs, b, v) ==
  [bs EXCEPT ![b].lslots[bs[b].first + bs[b].nused + 1] = v, ![b].nused = @ + 1]

PutAt(bs, b, v) ==
  LET j == bs[b].first + bs[b].nused
  IN [bs EXCEPT ![b].lslots[(IF j >= bs[b].nslots THEN j - bs[b].nslots ELSE j) + 1] = v,
                ![b].nused = @ + 1]

Put(v) ==
  /\ size < MaxSize
  /\ UNCHANGED <<listhead, bang>>
  /\ \/ /\ blk[listtail].nused < blk[listtail].nslots
        /\ UNCHANGED listtail
        /\ SetBlocks(PutAt(blk, listtail, v))
     \/ /\ blk[listtail].nused >= blk[listtail].nslots
        /\ Fresh # {}
        /\ listtail' = Min(Fresh)
        /\ \E n \in Sizes :
             SetBlocks(PutAt([blk EXCEPT
                               ![listtail'] = [NewBlock(n) EXCEPT !.listprev = listtail],
                               ![listtail].listnext = listtail'], listtail', v))
  /\ size' = size + 1
  /\ result' = None

(* get(L), pop(L): they fail if the list is empty. *)
Get ==
  \/ /\ size <= 0
     /\ result' = None
     /\ UNCHANGED <<list, bang>>
  \/ /\ size > 0
     /\ listhead' = HeadInUse
     /\ UNCHANGED <<listtail, ep, i>>
     /\ result' = At(HeadInUse, 0)
     /\ LET b == blk[HeadInUse] IN
          SetBlocks([blk EXCEPT
             ![HeadInUse] =
               [b EXCEPT !.listprev = IF HeadInUse = listhead THEN @ ELSE NULL,
                         !.first = IF @ + 1 >= b.nslots THEN 0 ELSE @ + 1,
                         !.nused = @ - 1]])
     /\ size' = size - 1
     /\ produced' = 0

Pull_NextKept ==
  /\ size > 0
  /\ listtail' = TailInUse
  /\ UNCHANGED <<listhead, ep, i>>
  /\ result' = At(TailInUse, blk[TailInUse].nused - 1)
  /\ SetBlocks([blk EXCEPT ![TailInUse].nused = @ - 1])
  /\ size' = size - 1
  /\ produced' = 0

(* pull(L) *)
Pull ==
  \/ /\ size <= 0
     /\ result' = None
     /\ UNCHANGED <<list, bang>>
  \/ /\ size > 0
     /\ listtail' = TailInUse
     /\ UNCHANGED <<listhead, ep, i>>
     /\ result' = At(TailInUse, blk[TailInUse].nused - 1)
     /\ LET b == blk[TailInUse] IN
          SetBlocks([blk EXCEPT
             ![TailInUse] =
               [b EXCEPT !.listnext = IF TailInUse = listtail THEN @ ELSE NULL,
                         !.nused = @ - 1]])
     /\ size' = size - 1
     /\ produced' = 0

\* The elements of the first m blocks of a path.
Upto(bs, path) ==
  LET upto[m \in 0..Len(path)] == IF m = 0 THEN 0 ELSE upto[m - 1] + bs[path[m]].nused
  IN upto

(* L[k] := v: subsc looks for the block that holds the kth element. *)
Assign(k, v) ==
  LET path == From(listhead)
      upto == Upto(blk, path)
      m == Min({n \in 1..Len(path) : k <= upto[n]})
      j == Slot(blk[path[m]], k - 1 - upto[m - 1])
  IN /\ k <= size
     /\ blk' = [blk EXCEPT ![path[m]].lslots[j + 1] = v]
     /\ result' = None
     /\ UNCHANGED <<listhead, listtail, size, bang>>

(* The elements k to l - 1 as cpslots copies them: the block that holds    *)
(* the first is looked for, and left when its last has been copied.        *)
CpSlots(k, l) ==
  LET path == From(listhead)
      upto == Upto(blk, path)
      m == Min({n \in 1..Len(path) : k <= upto[n]})
      at[n \in k..l - 1] ==
        IF n = k THEN <<path[m], k - upto[m - 1]>>
        ELSE LET b == at[n - 1][1] IN
             IF at[n - 1][2] + 1 > blk[b].nused THEN <<blk[b].listnext, 1>>
                                               ELSE <<b, at[n - 1][2] + 1>>
  IN [n \in 1..l - k |-> At(at[k + n - 1][1], at[k + n - 1][2] - 1)]

(* The program goes on with L[k:l], or with copy(L) or sort(L), which are  *)
(* made by cplist as well. *)
Section(k, l) ==
  LET n == l - k
      nslots == IF n = 0 THEN MinListSlots ELSE n
  IN /\ Idle
     /\ k <= l /\ l <= size + 1
     /\ size' = n
     /\ listhead' = 1
     /\ listtail' = 1
     /\ blk' = [b \in Block |->
                  IF b # 1 THEN Unused
                  ELSE [NewBlock(nslots) EXCEPT
                          !.nused = n,
                          !.lslots = IF n = 0 THEN @ ELSE CpSlots(k, l)]]
     /\ result' = None
     /\ UNCHANGED bang

-----------------------------------------------------------------------------
(* !L goes to element n of block b, if there is one, or else to the first  *)
(* element of a block that follows, or fails.                              *)
BangTo_StopsAtEmpty(b, n) ==
  LET next == IF b = NULL \/ n < blk[b].nused THEN b ELSE blk[b].listnext
      stop == next = NULL \/ blk[b].nused = 0 \/ blk[next].nused = 0
  IN ep' = (IF stop THEN NULL ELSE next) /\ i' = (IF stop \/ next # b THEN 0 ELSE n)

BangTo(b, n) ==
  IF b # NULL /\ n < blk[b].nused
    THEN ep' = b /\ i' = n
    ELSE LET more == IF b = NULL THEN <<>> ELSE From(blk[b].listnext)
             full == {m \in DOMAIN more : blk[more[m]].nused > 0}
         IN ep' = (IF full = {} THEN NULL ELSE more[Min(full)]) /\ i' = 0

Produce ==
  /\ result' = IF ep' = NULL THEN None ELSE At(ep', i')
  /\ UNCHANGED <<listhead, listtail, size>>
  /\ SetBlocks(blk)

BangStart ==
  /\ Idle
  /\ BangTo(listhead, 0)
  /\ produced' = IF ep' = NULL THEN 0 ELSE 1
  /\ Produce

BangResume ==
  /\ ~Idle
  /\ BangTo(ep, i + 1)
  /\ produced' = IF ep' = NULL \/ produced = 0 THEN 0 ELSE produced + 1
  /\ Produce

BangAbandon ==
  /\ ~Idle
  /\ ep' = NULL /\ i' = 0 /\ produced' = 0
  /\ result' = None
  /\ UNCHANGED <<listhead, listtail, size>>
  /\ SetBlocks(blk)

Next ==
  \/ \E v \in Value : Push(v) \/ Put(v)
  \/ Get
  \/ Pull
  \/ \E k \in 1..MaxSize, v \in Value : Assign(k, v)
  \/ \E k, l \in 1..MaxSize + 1 : Section(k, l)
  \/ BangStart \/ BangResume \/ BangAbandon

Spec == Init /\ [][Next]_vars

-----------------------------------------------------------------------------
(* Every variable keeps its type. *)
TypeOK ==
  /\ {listhead, listtail} \subseteq Block
  /\ size \in Nat
  /\ \A b \in Block : LET x == blk[b] IN
       /\ {x.listprev, x.listnext} \subseteq Block \cup {NULL}
       /\ {x.nslots, x.nused} \subseteq Nat
       /\ x.first \in 0..x.nslots
       /\ x.nused <= x.nslots
       /\ x.lslots \in Seq(Value \cup {None}) /\ Len(x.lslots) = x.nslots
  /\ ep \in Block \cup {NULL}
  /\ result \in Value \cup {None}

(* However the two ends have met: while the list has elements, get and     *)
(* pull, which skip at most one block, find one in the block they take     *)
(* from.                                                                   *)
EndsHoldElements ==
  size > 0 => \A b \in {HeadInUse, TailInUse} : b # NULL /\ blk[b].nused > 0

(* The two chains agree, whatever block has been dropped at either end.    *)
LinksAgree ==
  LET path == From(listhead) IN
  /\ Last(path) = listtail
  /\ blk[listhead].listprev = NULL
  /\ \A m \in 2..Len(path) : blk[path[m]].listprev = path[m - 1]

(* The blocks of a list as every operation supposes them.                  *)
BlocksSound == TypeOK /\ EndsHoldElements /\ LinksAgree

(* While only puts change the list, !L produces all its elements, those    *)
(* that have been put meanwhile included, in order.                        *)
BangInOrder ==
  [][BangStart \/ (BangResume /\ produced > 0) =>
       result' = IF produced < size THEN Contents[produced + 1] ELSE None]_vars

Sequence == INSTANCE Deque WITH contents <- Contents
(* The chain of circular buffers implements a sequence. *)
ImplementsDeque == Sequence!Spec
=============================================================================
