------------------------------ MODULE Regions ------------------------------
(***************************************************************************)
(* The regions in which strings or blocks are allocated (ralc.r): how much *)
(* of each is in use and how much of that is garbage, how reserve looks    *)
(* for room, collects, adds a region or gives up, and how the program uses *)
(* what it has reserved.  One instance of this module is one chain, that   *)
(* of the string regions or that of the block regions.  What a collection  *)
(* does to what is in a region is the subject of Collector and StringSpace.*)
(***************************************************************************)
EXTENDS Integers, Sequences, SequencesExt, FiniteSets, FiniteSetsExt

CONSTANTS
  Kinds,       \* "Strings", "Blocks" or both
  FirstSize,   \* ssize or abrsize: the size of the first region
  MinAbrSize,  \* smallest size of a region that is added
  memcushion,  \* percentage of the newest region a collection has to free
  memgrowth,   \* percentage of the newest region that the next one has
  Request,     \* the sizes that programs ask for
  MaxRegions,  \* bound on the regions
  MaxMemory    \* bound on the bytes that malloc can give to regions

ASSUME KindAssumption == Kinds \subseteq {"Strings", "Blocks"}
ASSUME SizesAssumption ==
  {FirstSize, MinAbrSize, MaxRegions, memcushion, memgrowth} \subseteq Nat \ {0}
ASSUME CushionAssumption == memcushion <= 100
ASSUME RequestAssumption == Request \subseteq Nat \ {0}
ASSUME MemoryAssumption == MaxMemory \in Nat

VARIABLES
  kind,      \* which of the two chains of regions this is
  size,      \* size[r]: end - base, 0 when there is no such region
  used,      \* used[r]: free - base
  live,      \* live[r]: how much of that a collection would keep
  next, prev, Gnext, Gprev,
  pcurr,     \* curstring or curblock
  pc,        \* where reserve is: a collection takes it to other files
  nbytes, want, rp,
  qualfail,  \* the last collection has left the strings where they are
  answer,    \* what reserve has returned last: 0 for room, or the error number
  credit,    \* bytes that the program has reserved and not yet allocated
  ahead,     \* the block that the program has got in advance, or NoBlock
  result,    \* the region of the string that a function is building, or NULL
  botched,   \* deallocate has not found the region of its block
  stuck      \* history: the regions that this reserve could not collect
             \* because of qualfail

chain == <<next, prev, Gnext, Gprev>>
locals == <<pc, nbytes, want, rp>>
client == <<credit, ahead, result, botched>>
vars == <<kind, size, used, live, chain, pcurr, locals, qualfail, answer, client, stuck>>

Region == 1..MaxRegions
NULL == 0
NoBlock == [region |-> NULL, at |-> 0, len |-> 0]

Made == {r \in Region : size[r] # 0}
Gap(r) == size[r] - used[r]

-----------------------------------------------------------------------------
(* The chains.                                                             *)
(* A definition named X_Slip is X as a plausible mistake in the code would *)
(* make it.  Next does not use it: it shows which property would notice.   *)

\* The regions that a loop over link sees when it starts at r.
Along(link, r) ==
  LET path[n \in 0..MaxRegions] ==
        IF n = 0 THEN IF r = NULL THEN <<>> ELSE <<r>>
        ELSE LET p == path[n - 1]
             IN IF p = <<>> \/ link[Last(p)] = NULL THEN p
                ELSE Append(p, link[Last(p)])
  IN path[MaxRegions - 1]

Newest == Last(Along(next, pcurr))

findgap_Backwards(curr, n) ==
  LET all  == Along(prev, curr)
      fits == SelectInSeq(all, LAMBDA r : Gap(r) >= n)
  IN IF fits = 0 THEN NULL ELSE all[fits]

findgap(curr, n) ==
  LET all  == Along(prev, curr) \o Tail(Along(next, curr))
      fits == SelectInSeq(all, LAMBDA r : Gap(r) >= n)
  IN IF fits = 0 THEN NULL ELSE all[fits]

\* The sizes that newregion asks malloc for, one after the other.
Sizes(n, stdsize) ==
  LET least == Max({MinAbrSize, n})
      from[s \in Nat] ==
        IF s < least THEN {} ELSE {s} \cup from[(s + n) \div 2 - 1]
  IN {stdsize} \cup from[stdsize]

StdSize(n) == Max({(size[Newest] \div 100) * memgrowth, n, MinAbrSize})

Cushion(n) == Max({(size[Newest] \div 100) * memcushion, n})

-----------------------------------------------------------------------------
Init ==
  /\ kind \in Kinds
  /\ size = [r \in Region |-> IF r = 1 THEN FirstSize ELSE 0]
  /\ used = [r \in Region |-> 0]
  /\ live = [r \in Region |-> 0]
  /\ next = [r \in Region |-> NULL] /\ prev = next
  /\ Gnext = next /\ Gprev = next
  /\ pcurr = 1
  /\ pc = "idle" /\ nbytes = 0 /\ want = 0 /\ rp = NULL
  /\ qualfail = FALSE
  /\ answer = 0
  /\ credit = 0 /\ ahead = NoBlock /\ result = NULL /\ botched = FALSE
  /\ stuck = {}

Return(a) ==
  /\ pc' = "idle" /\ nbytes' = 0 /\ want' = 0 /\ rp' = NULL
  /\ answer' = a
  /\ credit' = IF a = 0 THEN nbytes ELSE 0

\* reserve up to the point where it has to collect.  The program may ask for
\* less than what it has already reserved: alclist does, below sort.
Reserve(n) ==
  /\ pc = "idle" /\ ahead = NoBlock
  /\ result # NULL => Gap(pcurr) < n     \* alcstr
  /\ \/ /\ Gap(pcurr) >= n
        /\ credit' = Max({credit, n})
        /\ answer' = 0
        /\ UNCHANGED <<pcurr, locals>>
     \/ /\ Gap(pcurr) < n /\ findgap(pcurr, n) # NULL
        /\ pcurr' = findgap(pcurr, n)
        /\ credit' = n
        /\ answer' = 0
        /\ UNCHANGED locals
     \/ /\ Gap(pcurr) < n /\ findgap(pcurr, n) = NULL
        /\ pc' = "large"
        /\ nbytes' = n
        /\ want' = Cushion(n)
        /\ rp' = Newest
        /\ credit' = 0
        /\ UNCHANGED <<pcurr, answer>>
  /\ stuck' = {}
  /\ UNCHANGED <<size, used, live, chain, qualfail, ahead, result, botched>>

\* What a collection leaves of r.  The string region is not collected when the
\* list of qualifiers could not grow.
Collect(r) ==
  /\ qualfail' \in IF kind = "Strings" THEN BOOLEAN ELSE {FALSE}
  /\ used' = IF qualfail' THEN used ELSE [used EXCEPT ![r] = live[r]]
  /\ stuck' = IF qualfail' THEN stuck \cup {r} ELSE stuck

\* An iteration of the loops that collect: rp is made the current region, and
\* it is the answer when enough of it is free.
GiveWhenGoalMet ==
  /\ pcurr' = rp
  /\ Collect(rp)
  /\ IF size[rp] - used'[rp] >= want
       THEN Return(0)
       ELSE rp' = prev[rp] /\ UNCHANGED <<pc, nbytes, want, answer, credit>>

PassOver ==
  /\ rp' = prev[rp]
  /\ UNCHANGED <<pcurr, used, qualfail, stuck, pc, nbytes, want, answer, credit>>

\* Collect the regions that may meet the goal, newest to oldest.
CollectLarge ==
  /\ pc = "large" /\ rp # NULL
  /\ IF size[rp] >= want THEN GiveWhenGoalMet ELSE PassOver
  /\ UNCHANGED <<size, live, chain, ahead, result, botched>>

\* malloc has given s bytes.
AddRegion_OneWay(s) ==
  LET curr == Newest
      new  == Cardinality(Made) + 1
  IN /\ size' = [size EXCEPT ![new] = s]
     /\ prev' = [prev EXCEPT ![new] = curr]
     /\ next' = [next EXCEPT ![curr] = new]
     /\ Gnext' = [Gnext EXCEPT ![new] = curr]
     /\ UNCHANGED Gprev
     /\ pcurr' = new

AddRegion(s) ==
  LET curr == Newest
      new  == Cardinality(Made) + 1
  IN /\ size' = [size EXCEPT ![new] = s]
     /\ prev' = [prev EXCEPT ![new] = curr]
     /\ next' = [next EXCEPT ![curr] = new]
     /\ Gnext' = IF Gprev[curr] = NULL THEN [Gnext EXCEPT ![new] = curr]
                 ELSE [Gnext EXCEPT ![new] = curr, ![Gprev[curr]] = new]
     /\ Gprev' = [Gprev EXCEPT ![new] = Gprev[curr], ![curr] = new]
     /\ pcurr' = new

Memory == MapThenSumSet(LAMBDA r : size[r], Region)

Grow ==
  /\ pc = "large" /\ rp = NULL
  /\ \/ \E s \in Sizes(nbytes, StdSize(nbytes)) :
          /\ Made # Region /\ Memory + s <= MaxMemory
          /\ AddRegion(s)
          /\ Return(0)
     \/ \* malloc has failed for every size
        /\ pc' = "small"
        /\ rp' = Newest
        /\ UNCHANGED <<size, chain, pcurr, nbytes, want, answer, credit>>
  /\ UNCHANGED <<used, live, qualfail, ahead, result, botched, stuck>>

\* Collect the regions that were not collected before.  The goal is still the
\* one that was set for the large ones.
CollectSmall_None ==
  /\ pc = "small" /\ rp # NULL
  /\ PassOver
  /\ UNCHANGED <<size, live, chain, ahead, result, botched>>

CollectSmall ==
  /\ pc = "small" /\ rp # NULL
  /\ IF size[rp] < want THEN GiveWhenGoalMet ELSE PassOver
  /\ UNCHANGED <<size, live, chain, ahead, result, botched>>

GiveUp == IF kind = "Blocks" THEN 307 ELSE IF qualfail THEN 304 ELSE 306

Search ==
  /\ pc = "small" /\ rp = NULL
  /\ LET r == findgap(Newest, nbytes)
     IN IF r # NULL
          THEN pcurr' = r /\ Return(0)
          ELSE Return(GiveUp) /\ UNCHANGED pcurr
  /\ UNCHANGED <<size, used, live, chain, qualfail, ahead, result, botched, stuck>>

-----------------------------------------------------------------------------
(* The program.                                                            *)

Bump(n) ==
  /\ used' = [used EXCEPT ![pcurr] = @ + n]
  /\ live' = [live EXCEPT ![pcurr] = @ + n]
  /\ credit' = Max({credit - n, 0})

Allocate_TableGrows(n) ==
  /\ pc = "idle"
  /\ Gap(pcurr) >= n
  /\ Bump(n)
  /\ UNCHANGED <<size, chain, pcurr, locals, qualfail, answer, ahead, result, botched, stuck>>

\* AlcBlk or alcstr, when there is room; Reserve comes first when there is not.
Allocate(n) ==
  /\ pc = "idle" /\ ahead = NoBlock /\ result = NULL
  /\ Gap(pcurr) >= n
  /\ Bump(n)
  /\ UNCHANGED <<size, chain, pcurr, locals, qualfail, answer, ahead, result, botched, stuck>>

\* An element block is allocated before it is known whether it is needed,
\* because the place where it would go cannot be tended.
AllocateAhead(n) ==
  /\ kind = "Blocks" /\ pc = "idle" /\ ahead = NoBlock /\ result = NULL
  /\ Gap(pcurr) >= n
  /\ ahead' = [region |-> pcurr, at |-> used[pcurr], len |-> n]
  /\ Bump(n)
  /\ UNCHANGED <<size, chain, pcurr, locals, qualfail, answer, result, botched, stuck>>

\* The block is needed.
Keep ==
  /\ ahead # NoBlock
  /\ ahead' = NoBlock
  /\ UNCHANGED <<size, used, live, chain, pcurr, locals, qualfail, answer, credit, result, botched, stuck>>

\* It is not: the region whose free is the end of the block takes it back.
deallocate ==
  LET all == Along(next, pcurr) \o Tail(Along(prev, pcurr))
      i == SelectInSeq(all, LAMBDA r :
             r = ahead.region /\ ahead.at + ahead.len = used[r])
  IN /\ ahead # NoBlock
     /\ IF i = 0
          THEN botched' = TRUE /\ UNCHANGED <<used, live>>
          ELSE /\ used' = [used EXCEPT ![all[i]] = ahead.at]
               /\ live' = [live EXCEPT ![all[i]] = @ - ahead.len]
               /\ UNCHANGED botched
     /\ ahead' = NoBlock
     /\ UNCHANGED <<size, chain, pcurr, locals, qualfail, answer, credit, result, stuck>>

\* A function builds its result piece by piece (image, detab, reads, !f).  It
\* has reserved what it expects to need; for a piece that does not fit, alcstr
\* calls reserve again.
Build ==
  /\ kind = "Strings" /\ pc = "idle" /\ ahead = NoBlock /\ result = NULL
  /\ credit > 0
  /\ result' = pcurr
  /\ UNCHANGED <<size, used, live, chain, pcurr, locals, qualfail, answer, credit,
                 ahead, botched, stuck>>

Piece(n) ==
  /\ pc = "idle" /\ result # NULL
  /\ Gap(pcurr) >= n
  /\ Bump(n)
  /\ UNCHANGED <<size, chain, pcurr, locals, qualfail, answer, ahead, result, botched,
                 stuck>>

\* It is complete, or an error ends the function.
Built ==
  /\ pc = "idle" /\ result # NULL
  /\ result' = NULL
  /\ UNCHANGED <<size, used, live, chain, pcurr, locals, qualfail, answer, credit,
                 ahead, botched, stuck>>

\* Something becomes garbage.
Drop(r, n) ==
  /\ pc = "idle" /\ ahead = NoBlock /\ result = NULL
  /\ live[r] >= n
  /\ live' = [live EXCEPT ![r] = @ - n]
  /\ UNCHANGED <<size, used, chain, pcurr, locals, qualfail, answer, client, stuck>>

\* collect(), or a reserve for the regions of the other kind: a collection
\* takes the garbage of the current region of both kinds.
CollectCurrent ==
  /\ pc = "idle" /\ ahead = NoBlock /\ result = NULL
  /\ Collect(pcurr)
  /\ UNCHANGED <<size, live, chain, pcurr, locals, answer, client>>

reserve == CollectLarge \/ Grow \/ CollectSmall \/ Search

Step ==
  \/ reserve
  \/ \E n \in Request : Reserve(n) \/ Allocate(n) \/ AllocateAhead(n)
  \/ Keep
  \/ deallocate
  \/ Build
  \/ \E n \in Request : Piece(n)
  \/ Built
  \/ \E r \in Made, n \in Request : Drop(r, n)
  \/ CollectCurrent

Next == Step /\ UNCHANGED kind

Spec == Init /\ [][Next]_vars
-----------------------------------------------------------------------------
(* Properties.                                                             *)

\* The values the variables may have; no region is used beyond its end.
TypeOK ==
  /\ size \in [Region -> Nat]
  /\ used \in [Region -> Nat]
  /\ live \in [Region -> Nat]
  /\ \A r \in Region : live[r] <= used[r] /\ used[r] <= size[r]
  /\ {next, prev, Gnext, Gprev} \subseteq [Region -> Region \cup {NULL}]
  /\ pcurr \in Region
  /\ pc \in {"idle", "large", "small"}
  /\ nbytes \in Nat /\ want \in Nat /\ rp \in Region \cup {NULL}
  /\ qualfail \in BOOLEAN
  /\ answer \in {0, 304, 306, 307}
  /\ credit \in Nat
  /\ ahead \in [region : Region \cup {NULL}, at : Nat, len : Nat]
  /\ result \in Region \cup {NULL}
  /\ botched \in BOOLEAN
  /\ stuck \subseteq Region

\* From the current region, wherever collections have left it, the loops of
\* findgap and deallocate come to every region once, and so do those with which
\* the collector looks for the region of a block and takes the marks away.
ChainsCover ==
  LET loops(f, b) == Along(f, pcurr) \o Tail(Along(b, pcurr))
      every(s) == ToSet(s) = Made /\ Len(s) = Cardinality(Made)
  IN every(loops(prev, next)) /\ every(loops(Gnext, Gprev))

\* The regions as the other functions of storage management suppose them.
RegionsSound == TypeOK /\ ChainsCover

\* What the program has reserved is there, in the current region, until it is
\* used: image, for one, appends to its result with alcstr and counts on each
\* piece to follow the one before; and a block that insert or another function
\* got in advance can be given back ("deallocation botch").
AdvanceKept == credit <= Gap(pcurr) /\ ~botched

\* No collection while any of the regions has room.
NoNeedlessCollection ==
  [][pc = "idle" /\ pc' # "idle" => \A r \in Made : Gap(r) < nbytes']_vars

\* "reset goal back to original request" (reserve's comment, step 7): once the
\* regions are collected that were too small for the goal, one that has room
\* for the request is enough.
GoalReset ==
  [][pc = "small" /\ rp # NULL /\ size[rp] < want /\ size[rp] - used'[rp] >= nbytes
       => pc' = "idle"]_vars

\* "Make sure all allocations for result will go in one region" (detab, fstr.r).
OneRegion == result # NULL /\ pc = "idle" => pcurr = result

\* What programs see of regions: neither garbage nor collections.  A request is
\* refused only when no region could hold it even without its garbage, but for
\* those that could not be collected because of qualfail.
A == INSTANCE Arena WITH pending <- nbytes
ImplementsArena == A!Spec
=============================================================================
