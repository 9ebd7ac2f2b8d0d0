----------------------------- MODULE Generation -----------------------------
(***************************************************************************)
(* What the generation of the elements of a set or table promises while    *)
(* the structure changes: an element that stays in it throughout is        *)
(* produced exactly once before the generation ends, one that is inserted  *)
(* or deleted meanwhile at most once, and no other ever.                   *)
(***************************************************************************)
CONSTANT Element

VARIABLES
  elements,   \* the elements in the structure
  suspended,  \* a generator is suspended in it
  must,       \* elements that it has yet to produce
  may         \* may[e]: how often it may yet produce e, at most once

vars == <<elements, suspended, must, may>>

\* Nothing may be produced.
Nothing == [e \in Element |-> 0]

Init ==
  /\ elements \subseteq Element
  /\ suspended = FALSE
  /\ must = {}
  /\ may = Nothing

\* may' is m, but for elements that have been deleted.
MayBe(m) ==
  /\ DOMAIN may' = Element
  /\ \A e \in Element : may'[e] = m[e] \/ (e \notin elements' /\ may'[e] = 0)

Insert(e) ==
  /\ e \notin elements
  /\ elements' = elements \cup {e}
  /\ may' = IF suspended THEN [may EXCEPT ![e] = 1] ELSE may
  /\ UNCHANGED <<suspended, must>>

Delete(e) ==
  /\ e \in elements
  /\ elements' = elements \ {e}
  /\ must' = must \ {e}
  /\ MayBe(may)
  /\ UNCHANGED suspended

\* The first element is produced at once; only an empty structure has none.
Start ==
  /\ ~suspended
  /\ \E e \in elements :
       /\ suspended' = TRUE
       /\ must' = elements \ {e}
       /\ may' = [d \in Element |-> IF d \in elements \ {e} THEN 1 ELSE 0]
  /\ UNCHANGED elements

Produce(e) ==
  /\ suspended
  /\ may[e] = 1
  /\ must' = must \ {e}
  /\ UNCHANGED <<elements, suspended>>
  /\ MayBe([may EXCEPT ![e] = 0])

\* It fails when nothing is left that it must produce ...
End ==
  /\ suspended
  /\ must = {}
  /\ suspended' = FALSE
  /\ may' = Nothing
  /\ UNCHANGED <<elements, must>>

\* ... or is abandoned.
Abandon ==
  /\ suspended
  /\ suspended' = FALSE
  /\ must' = {}
  /\ may' = Nothing
  /\ UNCHANGED elements

\* The program goes on with another structure.
Replace ==
  /\ ~suspended
  /\ elements' \subseteq Element
  /\ UNCHANGED <<suspended, must, may>>

Next ==
  \/ \E e \in Element : Insert(e) \/ Delete(e) \/ Produce(e)
  \/ Start \/ End \/ Abandon \/ Replace

Spec == Init /\ [][Next]_vars
=============================================================================
