------------------------------- MODULE Labels -------------------------------
(***************************************************************************)
(* How gencode lays out the code of procedures and resolves labels.  The   *)
(* references to a label that is still to come are chained through the     *)
(* operands of the instructions that make them, and filled in, in the code *)
(* buffer, when the label is met.  Of the code only the operands of jumps  *)
(* are kept: a jump goes to the address of the word after its operand plus *)
(* the operand (interp.r).                                                 *)
(***************************************************************************)
EXTENDS Integers, FiniteSets

CONSTANTS
  Label,
  IntSize,    \* IntBits / ByteBits, of an opcode
  WordSize,
  BlockWords, \* words of a procedure block
  MaxPc,      \* bound on the code
  MaxJumps    \* bound on the jumps of a procedure

LabelsAssumption ==
  /\ {IntSize, WordSize, BlockWords} \subseteq Nat \ {0}
  /\ WordSize % IntSize = 0
  /\ {MaxPc, MaxJumps} \subseteq Nat

VARIABLES
  pc,       \* address of the next byte of code
  codeb,    \* address of the first byte that is still in the buffer
  words,    \* operands of jumps, by address: a jump of this procedure, or one before
  labels,   \* of the current procedure: address, minus the last reference, or 0
  within,   \* gencode is in the code of a procedure
  jumps,    \* what was asked for: addresses of operands, and labels
  target    \* where the labels of this procedure are, once they were met

labelVars == <<pc, codeb, words, labels, within, jumps, target>>

Unmet == -1

Init ==
  /\ pc = 0 /\ codeb = 0 /\ words = <<>>
  /\ labels = [l \in Label |-> 0]
  /\ within = FALSE
  /\ jumps = {} /\ target = [l \in Label |-> Unmet]

-----------------------------------------------------------------------------
align(p) == IF p % WordSize = 0 THEN p ELSE p + WordSize - (p % WordSize)

\* Noop is one opcode long.
misalign(p) == IF (p + IntSize) % WordSize = 0 THEN p ELSE p + IntSize

\* A slip: labels of the procedure before are left in the table.
clearlab_Forgotten(old) == old

clearlab(old) == [l \in Label |-> 0]

\* proc, declend: a new procedure begins on a word, with its block.
Declend ==
  /\ ~within
  /\ within' = TRUE
  /\ pc' = align(pc) + BlockWords * WordSize
  /\ pc' <= MaxPc
  /\ labels' = clearlab(labels)
  /\ jumps' = {} /\ target' = [l \in Label |-> Unmet]
  /\ UNCHANGED <<codeb, words>>

\* An instruction without operand.
lemit ==
  /\ within /\ pc < MaxPc
  /\ pc' = pc + IntSize
  /\ UNCHANGED <<codeb, words, labels, within, jumps, target>>

\* An instruction with an operand that is no label.
lemitn ==
  /\ within /\ pc < MaxPc
  /\ pc' = misalign(pc) + IntSize + WordSize
  /\ UNCHANGED <<codeb, words, labels, within, jumps, target>>

lemitl(lab) ==
  /\ within /\ pc < MaxPc /\ Cardinality(jumps) < MaxJumps
  /\ LET operand == misalign(pc) + IntSize
         after == operand + WordSize
     IN /\ pc' = after
        /\ IF labels[lab] <= 0
           THEN /\ words' = [a \in DOMAIN words \cup {operand} |->
                               IF a = operand THEN labels[lab] ELSE words[a]]
                /\ labels' = [labels EXCEPT ![lab] = WordSize - after]
           ELSE /\ words' = [a \in DOMAIN words \cup {operand} |->
                               IF a = operand THEN labels[lab] - after ELSE words[a]]
                /\ UNCHANGED labels
        /\ jumps' = jumps \cup {<<operand, lab>>}
  /\ UNCHANGED <<codeb, within, target>>

\* The addresses of the chain that begins with p.
Chain(p) ==
  LET Follow[n \in Nat] ==
        IF n = 0 THEN {-p}
        ELSE LET before == Follow[n - 1] IN before \cup {-words[a] : a \in before \cap DOMAIN words}
  IN Follow[Cardinality(DOMAIN words)] \cap DOMAIN words

\* lab is met.  The translator defines a label once in a procedure, so that
\* "multiply defined label" does not come.
backpatch(lab) ==
  /\ within /\ target[lab] = Unmet
  /\ words' = IF labels[lab] >= 0 THEN words
              ELSE [a \in DOMAIN words |->
                      IF a \in Chain(labels[lab]) THEN pc - (WordSize + a) ELSE words[a]]
  /\ labels' = [labels EXCEPT ![lab] = pc]
  /\ target' = [target EXCEPT ![lab] = pc]
  /\ UNCHANGED <<pc, codeb, within, jumps>>

\* end, when every label that was used was met: the buffer is written out.
End ==
  /\ within
  /\ \A j \in jumps : target[j[2]] # Unmet
  /\ within' = FALSE
  /\ codeb' = pc
  /\ words' = <<>>
  /\ UNCHANGED <<pc, labels, jumps, target>>

Next ==
  \/ Declend \/ lemit \/ lemitn \/ End
  \/ \E lab \in Label : lemitl(lab) \/ backpatch(lab)

Spec == Init /\ [][Next]_labelVars

-----------------------------------------------------------------------------
\* Every jump to a label that was met goes there, from whichever side of the
\* label; only operands that are still in the buffer are written, and they
\* are aligned; and a label that no procedure has met yet has in its chain
\* the jumps that wait for it, and no others (lemitl, backpatch).
JumpsLand ==
  within =>
    \A lab \in Label :
      LET from == {j[1] : j \in {i \in jumps : i[2] = lab}}
      IN /\ \A a \in from : a >= codeb /\ a % WordSize = 0
         /\ IF target[lab] # Unmet
            THEN \A a \in from : a + WordSize + words[a] = target[lab]
            ELSE (IF labels[lab] = 0 THEN {} ELSE Chain(labels[lab])) = from
=============================================================================
