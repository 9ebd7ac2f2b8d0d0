----------------------------- MODULE StringVars -----------------------------
(***************************************************************************)
(* What strings are to a program: values that are never modified, only     *)
(* taken apart and put together.                                           *)
(***************************************************************************)
EXTENDS Naturals, Sequences

CONSTANTS
  Var,     \* variables
  Literal  \* the strings of a program's text

VARIABLE value  \* value[d]: the characters of d

Init == value \in [Var -> Literal]

Parts(s) == {<<>>} \cup {SubSeq(s, i, j) : i \in 1..Len(s), j \in 1..Len(s)}

\* What an expression may evaluate to.
Result(s) ==
  \/ s \in Literal
  \/ \E x \in Var : s \in Parts(value[x])
  \/ \E x, y \in Var : s = value[x] \o value[y]

Assign(d) ==
  /\ \A e \in Var \ {d} : value'[e] = value[e]
  /\ Result(value'[d])

Next == \E d \in Var : Assign(d)

Spec == Init /\ [][Next]_value
=============================================================================
