----------------------------- MODULE Activation -----------------------------
(***************************************************************************)
(* Co-expressions as the run-time system keeps them: creation and refresh  *)
(* (lmisc.r, omisc.r, rcoexpr.r), activation, return and failure           *)
(* (interp.r), the activator stacks (rmisc.r), and what a garbage          *)
(* collection marks and frees of them (rmemmgt.r).                         *)
(*                                                                         *)
(* A co-expression remembers who has activated it in a chain of blocks of  *)
(* run-length records.  Activations need not nest: a may activate b, and b *)
(* activate a, so a return may resume a co-expression that has itself      *)
(* returned.  Values are left out, except for the co-expressions that the  *)
(* stacks refer to, on which a collection depends.                         *)
(***************************************************************************)
EXTENDS Naturals, Sequences, SequencesExt, FiniteSets

CONSTANTS
  Coexpr,         \* co-expression blocks; a freed block may be allocated again
  Main,           \* the block of &main
  None,           \* no co-expression: a value of some other type
  ActStkBlkEnts,  \* records in an activator stack block
  MaxPending      \* bound on the activations that have not returned

ASSUME MainAssumption == Main \in Coexpr /\ None \notin Coexpr
ASSUME EntsAssumption == ActStkBlkEnts \in Nat \ {0}
ASSUME BoundAssumption == MaxPending \in Nat

VARIABLES
  stklist,   \* blocks allocated by alccoexp and not freed
  current,   \* &current
  actstk,    \* actstk[c]: es_actstk, oldest block first, <<>> for NULL
  held,      \* held[c]: those but &main that c's interpreter stack refers to
  freshblk,  \* freshblk[c]: those its refresh block refers to
  ready,     \* ready[c]: co_init has filled in c's frame pointers
  creating,  \* Ocreate's sblkp while it allocates the refresh block, or None
  stopped    \* "no", "empty" (syserr of popact) or "wild" (undefined behaviour)

vars == <<stklist, current, actstk, held, freshblk, ready, creating, stopped>>

Record == [activator : Coexpr, acount : Nat \ {0}]
NoBlock == <<>>        \* a block with nactivators = 0

Allocated == stklist \cup {Main}

-----------------------------------------------------------------------------
(* The activator stack of one co-expression.                               *)
(* A definition named X_Slip is X as a plausible mistake in the code would *)
(* make it.  Next does not use it: it shows which property would notice.   *)

PushRecord(s, a) ==
  IF Len(Last(s)) + 1 > ActStkBlkEnts
    THEN Append(s, <<[activator |-> a, acount |-> 1]>>)
    ELSE Append(Front(s), Append(Last(s), [activator |-> a, acount |-> 1]))

PushAct_BlockUnlinked(s, a) ==
  IF Len(Last(s)) = ActStkBlkEnts THEN <<<<[activator |-> a, acount |-> 1]>>>>
                                  ELSE PushRecord(s, a)

\* Activated again by the same co-expression: only the count changes.
PushAct(s, a) ==
  LET top == Last(s) IN
  IF top # NoBlock /\ Last(top).activator = a
    THEN Append(Front(s),
                Append(Front(top), [Last(top) EXCEPT !.acount = @ + 1]))
    ELSE PushRecord(s, a)

\* popact frees a block when it finds it empty, not when it empties it.
Trimmed(s) == IF Last(s) = NoBlock THEN Front(s) ELSE s
Empty(s) == Trimmed(s) = <<>> \/ Last(Trimmed(s)) = NoBlock
Popped(s) ==
  LET t   == Trimmed(s)
      rec == Last(Last(t))
  IN Append(Front(t), IF rec.acount = 1 THEN Front(Last(t))
                      ELSE Append(Front(Last(t)), [rec EXCEPT !.acount = @ - 1]))
Activator(s) == Last(Last(Trimmed(s))).activator

TopAct_FirstRecord(s) == Last(Trimmed(s))[1].activator
TopAct(s) ==
  LET abp == IF Last(s) = NoBlock THEN s[Len(s) - 1] ELSE Last(s)
  IN Last(abp).activator

\* The activators a stack records, oldest first, one entry per activation.
Flat(s) ==
  LET recs == FlattenSeq(s)
  IN FlattenSeq([i \in 1..Len(recs) |->
                   [j \in 1..recs[i].acount |-> recs[i].activator]])

Activators(s) == UNION {{s[i][j].activator : j \in 1..Len(s[i])} : i \in 1..Len(s)}

Pending == FoldSet(LAMBDA c, n : n + Len(Flat(actstk[c])), 0, Allocated)

-----------------------------------------------------------------------------
(* What markblock reaches: the interpreter stack, the activators and the   *)
(* refresh block of a co-expression, from &main, &current and the tended   *)
(* block of an unfinished create.                                          *)
Marks(c) == held[c] \cup freshblk[c] \cup Activators(actstk[c])
Roots == {Main, current} \cup ({creating} \ {None})
Closed(S) == \A c \in S : Marks(c) \subseteq S
Marked == {c \in Coexpr : \A S \in SUBSET Coexpr : Roots \subseteq S /\ Closed(S) => c \in S}

Init ==
  /\ stklist = {}
  /\ current = Main
  /\ actstk = [c \in Coexpr |-> IF c # Main THEN <<>>
                                ELSE PushAct(<<NoBlock>>, Main)]
  /\ held = [c \in Coexpr |-> {}]
  /\ freshblk = [c \in Coexpr |-> {}]
  /\ ready = [c \in Coexpr |-> c = Main]
  /\ creating = None
  /\ stopped = "no"

\* What code that runs in &current can name: its own references, &main,
\* &current and &source, which needs an activator.
Nameable ==
  held[current] \cup {Main, current}
    \cup (IF Empty(actstk[current]) THEN {} ELSE {TopAct(actstk[current])})

\* Icon code runs in &current.
Running == stopped = "no" /\ creating = None

-----------------------------------------------------------------------------
(* Ocreate up to the refresh block: a block that is on stklist, but whose  *)
(* frame pointers, stack and refresh block are whatever malloc returned.   *)
CreateBegin(c) ==
  /\ Running
  /\ c \notin Allocated
  /\ stklist' = stklist \cup {c}
  /\ creating' = c
  /\ UNCHANGED <<current, actstk, held, freshblk, ready, stopped>>

(* The rest of Ocreate: arguments and locals go into the refresh block,    *)
(* and co_init copies them onto the new interpreter stack.                 *)
CreateEnd ==
  /\ stopped = "no"
  /\ creating # None
  /\ \E locals \in SUBSET held[current] :
       /\ freshblk' = [freshblk EXCEPT ![creating] = locals]
       /\ held' = [held EXCEPT ![creating] = locals, ![current] = @ \cup {creating}]
  /\ ready' = [ready EXCEPT ![creating] = TRUE]
  /\ creating' = None
  /\ UNCHANGED <<stklist, current, actstk, stopped>>

(* ^x.  For &main it allocates the block before it finds that there is no  *)
(* refresh block, and fails with error 215.                                *)
Refresh(x, c) ==
  /\ Running
  /\ x \in Nameable
  /\ c \notin Allocated
  /\ stklist' = stklist \cup {c}
  /\ IF x = Main
       THEN UNCHANGED <<held, freshblk, ready>>
       ELSE /\ freshblk' = [freshblk EXCEPT ![c] = freshblk[x]]
            /\ held' = [held EXCEPT ![c] = freshblk[x], ![current] = @ \cup {c}]
            /\ ready' = [ready EXCEPT ![c] = TRUE]
  /\ UNCHANGED <<current, actstk, creating, stopped>>

(* v @ n: activate, pushact, co_chng.  v is a co-expression that may be    *)
(* freed, or None for any other value.                                     *)
Activate(n, v) ==
  /\ Running
  /\ n \in Nameable
  /\ v \in (Nameable \ {Main}) \cup {None}
  /\ Pending < MaxPending
  /\ actstk' = [actstk EXCEPT
                  ![n] = PushAct(IF @ = <<>> THEN <<NoBlock>> ELSE @, current)]
  /\ held' = [held EXCEPT ![n] = @ \cup ({v} \ {None})]
  /\ current' = n
  /\ UNCHANGED <<stklist, freshblk, ready, creating, stopped>>

(* Op_Coret with a value, Op_Cofail without: popact, co_chng.  &main's     *)
(* code contains neither.  On an empty stack popact ends the program.      *)
Return(v) ==
  /\ Running
  /\ current # Main
  /\ v \in held[current] \cup {None}
  /\ IF Empty(actstk[current])
       THEN stopped' = "empty" /\ UNCHANGED <<current, actstk, held>>
       ELSE LET n == Activator(actstk[current]) IN
            /\ current' = n
            /\ held' = [held EXCEPT ![n] = @ \cup ({v} \ {None})]
            /\ actstk' = [actstk EXCEPT ![current] = Popped(@)]
            /\ UNCHANGED stopped
  /\ UNCHANGED <<stklist, freshblk, ready, creating>>

(* A value on the stack is popped, or a variable assigned. *)
Drop(c) ==
  /\ Running
  /\ c \in held[current]
  /\ held' = [held EXCEPT ![current] = @ \ {c}]
  /\ UNCHANGED <<stklist, current, actstk, freshblk, ready, creating, stopped>>

(* collect, in the course of any allocation: cofree frees the blocks that  *)
(* the marking has not reached.                                            *)
Collect ==
  /\ stopped = "no"
  /\ stklist' = stklist \cap Marked
  /\ LET freed == stklist \ Marked IN
       /\ actstk' = [c \in Coexpr |-> IF c \in freed THEN <<>> ELSE actstk[c]]
       /\ held' = [c \in Coexpr |-> IF c \in freed THEN {} ELSE held[c]]
       /\ freshblk' = [c \in Coexpr |-> IF c \in freed THEN {} ELSE freshblk[c]]
       /\ ready' = [c \in Coexpr |-> ready[c] /\ c \notin freed]
  /\ UNCHANGED <<current, creating, stopped>>

(* sweep_stk of a block that co_init has not seen follows frame pointers   *)
(* that nothing has set.  Collect is the outcome when malloc's memory      *)
(* holds zeros; this is any other.                                         *)
CollectWild ==
  /\ stopped = "no"
  /\ \E c \in Marked : ~ready[c]
  /\ stopped' = "wild"
  /\ UNCHANGED <<stklist, current, actstk, held, freshblk, ready, creating>>

Stopped == stopped # "no" /\ UNCHANGED vars

Next ==
  \/ \E c \in Coexpr : CreateBegin(c) \/ Drop(c)
  \/ CreateEnd
  \/ \E x, c \in Coexpr : Refresh(x, c)
  \/ \E n \in Coexpr, v \in Coexpr \cup {None} : Activate(n, v)
  \/ \E v \in Coexpr \cup {None} : Return(v)
  \/ Collect
  \/ CollectWild
  \/ Stopped

Spec == Init /\ [][Next]_vars

-----------------------------------------------------------------------------
(* Every variable keeps its type. *)
TypeOK ==
  /\ stklist \in SUBSET (Coexpr \ {Main})
  /\ current \in Allocated
  /\ \A c \in Coexpr : actstk[c] \in Seq(Seq(Record))
  /\ held \in [Coexpr -> SUBSET Coexpr]
  /\ freshblk \in [Coexpr -> SUBSET Coexpr]
  /\ ready \in [Coexpr -> BOOLEAN]
  /\ creating \in stklist \cup {None}
  /\ stopped \in {"no", "empty", "wild"}

(* A block is full before the chain gets another, only the last can be     *)
(* empty, and the running co-expression has an activator to return to.     *)
Packed ==
  \A c \in Coexpr : LET s == actstk[c] IN
    \A i \in 1..Len(s) :
      /\ Len(s[i]) <= ActStkBlkEnts
      /\ i < Len(s) => Len(s[i]) = ActStkBlkEnts

\* The entries for co-expression c in all activator stacks.
Entries(c) ==
  UNION {{<<d, i>> : i \in {j \in 1..Len(Flat(actstk[d])) : Flat(actstk[d])[j] = c}} :
           d \in Coexpr}

(* The bookkeeping behind it: a co-expression has as many activations of   *)
(* its own pending as it has made of others, give or take the running one  *)
(* and &main, which nobody activated.                                      *)
Balanced ==
  \A c \in Coexpr :
    Len(Flat(actstk[c])) + (IF c = Main THEN 1 ELSE 0)
      = Cardinality(Entries(c)) + (IF c = current THEN 1 ELSE 0)

(* However activations and returns interleave, popact finds an activator.  *)
NeverEmpty == stopped # "empty"

(* &source, which looks at the stack, is where a return goes to.           *)
SourceIsActivator == TopAct(actstk[current]) = Last(Flat(actstk[current]))

(* No collection frees a co-expression that a stack, an activator record   *)
(* or a refresh block of another one on the list still refers to.          *)
NoDangling ==
  \A c \in Allocated :
    held[c] \cup freshblk[c] \cup Activators(actstk[c]) \subseteq Allocated

(* What a collection frees waits for nobody and nobody for it: cofree      *)
(* never meets a chain of two blocks, as its comment supposes.             *)
GarbageIsIdle ==
  \A c \in stklist \ Marked : Flat(actstk[c]) = <<>> /\ Len(actstk[c]) <= 1

(* The chains of activator blocks are what popact and topact expect, and a *)
(* collection frees co-expressions of no further use only.                 *)
StacksSound ==
  TypeOK /\ Packed /\ Balanced /\ NeverEmpty /\ SourceIsActivator /\ NoDangling /\ GarbageIsIdle

(* "Method is to start at a known point, specifically, the frame that the  *)
(* fp points to": sweep_stk.                                               *)
SweepStartsKnown == stopped # "wild"

Stacks == INSTANCE ActivatorStacks WITH
  allocated <- Allocated,
  activators <- [c \in Coexpr |-> Flat(actstk[c])]

(* The chain of blocks implements a plain sequence of activators: a return *)
(* goes to the most recent activation that has not returned.               *)
ImplementsStacks == Stacks!Spec
=============================================================================
