------------------------------- MODULE Deque -------------------------------
(***************************************************************************)
(* What an Icon list promises: a sequence that grows and shrinks at both   *)
(* ends and can be subscripted.                                            *)
(***************************************************************************)
EXTENDS Naturals, Sequences, SequencesExt

CONSTANTS
  Value,  \* Icon values
  None    \* failure, or no value of interest

VARIABLES
  contents,  \* the elements, from left to right
  result     \* what the last operation has returned

vars == <<contents, result>>

Init ==
  /\ contents \in Seq(Value)
  /\ result = None

Push(v) ==
  /\ contents' = <<v>> \o contents
  /\ result' = None

Put(v) ==
  /\ contents' = Append(contents, v)
  /\ result' = None

Get ==
  IF contents = <<>>
    THEN result' = None /\ UNCHANGED contents
    ELSE contents' = Tail(contents) /\ result' = Head(contents)

Pull ==
  IF contents = <<>>
    THEN result' = None /\ UNCHANGED contents
    ELSE contents' = Front(contents) /\ result' = Last(contents)

Assign(i, v) ==
  /\ contents' = [contents EXCEPT ![i] = v]
  /\ result' = None

Section(i, j) ==
  /\ contents' = SubSeq(contents, i, j - 1)
  /\ result' = None

\* An element is produced, or nothing.
Read ==
  /\ result' \in ToSet(contents) \cup {None}
  /\ UNCHANGED contents

Next ==
  \/ Read
  \/ Get
  \/ Pull
  \/ \E v \in Value : Push(v) \/ Put(v)
  \/ \E i \in 1..Len(contents), v \in Value : Assign(i, v)
  \/ \E i, j \in 1..Len(contents) + 1 : i <= j /\ Section(i, j)

Spec == Init /\ [][Next]_vars
=============================================================================
