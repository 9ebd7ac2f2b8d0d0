-------------------------- MODULE ActivatorStacks --------------------------
(***************************************************************************)
(* What a co-expression's activator stack promises: a return goes to the   *)
(* most recent activation that has not returned, and a collection forgets  *)
(* nothing of a co-expression that it keeps.                               *)
(***************************************************************************)
EXTENDS Sequences, SequencesExt

CONSTANTS
  Coexpr,  \* co-expression blocks
  Main     \* the block of &main

VARIABLES
  allocated,   \* the blocks that exist
  current,     \* the co-expression that runs
  activators   \* activators[c]: who has activated c, most recent last

Init ==
  /\ allocated = {Main}
  /\ current = Main
  /\ activators = [c \in Coexpr |-> IF c = Main THEN <<Main>> ELSE <<>>]

Create(c) ==
  /\ c \notin allocated
  /\ allocated' = allocated \cup {c}
  /\ UNCHANGED <<current, activators>>

Activate(n) ==
  /\ n \in allocated
  /\ activators' = [activators EXCEPT ![n] = Append(@, current)]
  /\ current' = n
  /\ UNCHANGED allocated

Return ==
  /\ current # Main
  /\ activators[current] # <<>>
  /\ current' = Last(activators[current])
  /\ activators' = [activators EXCEPT ![current] = Front(@)]
  /\ UNCHANGED allocated

Free(S) ==
  /\ S \subseteq allocated \ {Main, current}
  /\ \A c \in allocated \ S : S \cap ToSet(activators[c]) = {}
  /\ allocated' = allocated \ S
  /\ activators' = [c \in Coexpr |-> IF c \in S THEN <<>> ELSE activators[c]]
  /\ UNCHANGED current

Next ==
  \/ \E c \in Coexpr : Create(c) \/ Activate(c)
  \/ Return
  \/ \E S \in SUBSET Coexpr : Free(S)

Spec == Init /\ [][Next]_<<allocated, current, activators>>
=============================================================================
