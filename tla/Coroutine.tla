----------------------------- MODULE Coroutine -----------------------------
(***************************************************************************)
(* What the interpreter expects of a context switch: co-expressions are    *)
(* coroutines.  One of them has control, a switch hands it to another that *)
(* exists, and a co-expression that a collection reclaims never gets it    *)
(* again.  CoSwitch shows that threads and semaphores provide this.        *)
(***************************************************************************)
CONSTANTS
  Coexpr,   \* co-expression blocks
  Main      \* the block of &main

VARIABLES
  holder,   \* the co-expression that has control
  live      \* the co-expressions control may be handed to

Init ==
  /\ holder = Main
  /\ live = {Main}

Create(c) ==
  /\ c \notin live
  /\ live' = live \cup {c}
  /\ UNCHANGED holder

Transfer(c) ==
  /\ c \in live
  /\ holder' = c
  /\ UNCHANGED live

Reclaim(c) ==
  /\ c \in live \ {Main, holder}
  /\ live' = live \ {c}
  /\ UNCHANGED holder

Next == \E c \in Coexpr : Create(c) \/ Transfer(c) \/ Reclaim(c)

Spec == Init /\ [][Next]_<<holder, live>>
=============================================================================
