------------------------------- MODULE Arena -------------------------------
(***************************************************************************)
(* What a program sees of the regions: room that is taken up by what it    *)
(* still uses, and by nothing else.  There is no garbage here, and there   *)
(* are no collections.                                                     *)
(***************************************************************************)
EXTENDS Integers, FiniteSets, FiniteSetsExt

CONSTANTS
  Region,   \* the regions there may be
  Request   \* the sizes that programs ask for

VARIABLES
  size,     \* how much a region holds, 0 when there is no such region
  live,     \* how much of it the program uses
  pending,  \* the request that is not answered yet, or 0
  answer,   \* 0 for room, or the error that has met the last request
  credit,   \* what is promised to the program
  stuck     \* regions that memory for a collection is too short for

vars == <<size, live, pending, answer, credit, stuck>>

Hopeless(n) == \A r \in Region \ stuck : size[r] - live[r] < n

Init ==
  /\ size \in [Region -> Nat]
  /\ live = [r \in Region |-> 0]
  /\ pending = 0 /\ answer = 0 /\ credit = 0 /\ stuck = {}

Ask ==
  /\ pending = 0
  /\ pending' \in Request
  /\ credit' = 0 /\ stuck' = {}
  /\ UNCHANGED <<size, live, answer>>

\* A request that is met at once or after a while.
Grant(n) ==
  /\ pending \in {0, n}
  /\ \E r \in Region : size'[r] - live[r] >= n
  /\ credit' = IF pending = 0 THEN Max({credit, n}) ELSE n
  /\ pending' = 0 /\ answer' = 0
  /\ \/ UNCHANGED size
     \/ \E r \in Region : size[r] = 0 /\ size' = [size EXCEPT ![r] = size'[r]]
  /\ stuck' \subseteq Region
  /\ UNCHANGED live

Refuse ==
  /\ pending # 0
  /\ Hopeless(pending)
  /\ pending' = 0 /\ answer' # 0 /\ credit' = 0
  /\ UNCHANGED <<size, live, stuck>>

\* Collecting shows that memory is too short for a collection of r.
Stick ==
  /\ stuck' \subseteq Region
  /\ UNCHANGED <<size, live, pending, answer, credit>>

Place(r, n) ==
  /\ pending = 0
  /\ live[r] + n <= size[r]
  /\ live' = [live EXCEPT ![r] = @ + n]
  /\ credit' = Max({credit - n, 0})
  /\ UNCHANGED <<size, pending, answer, stuck>>

Drop(r) ==
  /\ pending = 0
  /\ live' \in [Region -> Nat]
  /\ \A q \in Region : IF q = r THEN live'[q] <= live[q] ELSE live'[q] = live[q]
  /\ UNCHANGED <<size, pending, answer, credit, stuck>>

Next ==
  \/ Ask
  \/ \E n \in Request : Grant(n)
  \/ Refuse
  \/ Stick
  \/ \E r \in Region, n \in Request : Place(r, n)
  \/ \E r \in Region : Drop(r)

Spec == Init /\ [][Next]_vars
=============================================================================
