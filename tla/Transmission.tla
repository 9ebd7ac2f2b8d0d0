---------------------------- MODULE Transmission ----------------------------
(***************************************************************************)
(* The values that co-expressions hand each other: co_chng of rcoexpr.r,   *)
(* with Op_Coact, Op_Coret and Op_Cofail of interp.r and the code that     *)
(* tcode.c generates for `create e':                                       *)
(*                                                                         *)
(*          pop; mark L1; <e>; coret; efail; L1: cofail; goto L1           *)
(*                                                                         *)
(* The operand of x @ e lies on the interpreter stack of the co-expression *)
(* that executes it, and the result of the activation replaces it there:   *)
(* tvalloc is the address of that slot while the co-expression is          *)
(* suspended.  Who activates whom is ActivatorStacks.                      *)
(***************************************************************************)
EXTENDS Naturals, Sequences, SequencesExt

CONSTANTS
  Coexpr,      \* the co-expressions
  Main,        \* &main
  Value,       \* Icon values
  NoValue,     \* what a failure transmits
  MaxSlots,    \* bound on the operands on one interpreter stack
  MaxPending   \* bound on the activations of one co-expression

Assumption ==
  /\ Main \in Coexpr
  /\ NoValue \notin Value
  /\ MaxSlots \in Nat /\ MaxPending \in Nat

VARIABLES
  current,     \* &current
  activators,  \* the activator stacks, see Activation
  stack,       \* stack[c]: the operands on c's interpreter stack
  tvalloc,     \* tvalloc[c]: the index of a slot of c, NULL or Garbage
  mode,        \* mode[c]: what c executes, or is suspended in
  sent,        \* history: the value of the last switch, or NoValue
  wild         \* a store has gone through a pointer nobody has set

vars == <<current, activators, stack, tvalloc, mode, sent, wild>>

NULL == 0
Garbage == MaxSlots + 1

(***************************************************************************)
(* "new"        never activated                                            *)
(* "code"       in the code of its expression, or in the efail after coret *)
(* "coact"      suspended in Op_Coact                                      *)
(* "coret"      suspended in Op_Coret                                      *)
(* "exhausted"  in the cofail that the code loops on                       *)
(***************************************************************************)
Mode == {"new", "code", "coact", "coret", "exhausted"}

\* init.r leaves &main's tvalloc as malloc has returned it.
Init ==
  /\ current = Main
  /\ activators = [c \in Coexpr |-> IF c = Main THEN <<Main>> ELSE <<>>]
  /\ stack = [c \in Coexpr |-> <<>>]
  /\ \E t \in {NULL, Garbage} : tvalloc = [c \in Coexpr |-> IF c = Main THEN t ELSE NULL]
  /\ mode = [c \in Coexpr |-> IF c = Main THEN "code" ELSE "new"]
  /\ sent = NoValue
  /\ wild = FALSE

-----------------------------------------------------------------------------
(* A definition named X_Slip is X as a plausible mistake in the code would *)
(* make it.  Next does not use it: it shows which property would notice.   *)

(* *ncp->tvalloc = *valloc, on the stacks s as they are at the switch.  A  *)
(* slot above the top of the stack holds nothing of interest.              *)
Delivered(s, n, v) ==
  IF v # NoValue /\ tvalloc[n] \in 1..Len(s[n])
    THEN [s EXCEPT ![n][tvalloc[n]] = v]
    ELSE s

\* What follows coswitch in n.  When Op_Coact sees A_Cofail, the expression
\* fails and its operand is popped; Op_Coret and Op_Cofail see no signal.
Resumed_SignalIgnored(s, n, v) == s
Resumed(s, n, v) ==
  IF v = NoValue /\ mode[n] = "coact" THEN [s EXCEPT ![n] = Front(@)] ELSE s

Mode_Next(n) == IF mode[n] = "exhausted" THEN "exhausted" ELSE "code"

(* co_chng from current, which stays suspended in m with its results to go *)
(* to slot r, to n with value v; s is stack with v already on it.          *)
CoChng(s, n, v, r, m) ==
  /\ stack' = Resumed(Delivered(s, n, v), n, v)
  /\ tvalloc' = [tvalloc EXCEPT ![n] = NULL, ![current] = r]
  /\ mode' = [mode EXCEPT ![current] = m, ![n] = Mode_Next(n)]
  /\ wild' = (v # NoValue /\ tvalloc[n] = Garbage)
  /\ sent' = v
  /\ current' = n

(* v @ n *)
Activate_SlotBelow(n, v) ==
  /\ mode[current] = "code"
  /\ Len(stack[current]) < MaxSlots
  /\ Len(activators[n]) < MaxPending
  /\ activators' = [activators EXCEPT ![n] = Append(@, current)]
  /\ CoChng([stack EXCEPT ![current] = Append(@, v)], n, v,
            Len(stack[current]), "coact")

Activate(n, v) ==
  /\ mode[current] = "code"
  /\ Len(stack[current]) < MaxSlots
  /\ Len(activators[n]) < MaxPending
  /\ activators' = [activators EXCEPT ![n] = Append(@, current)]
  /\ CoChng([stack EXCEPT ![current] = Append(@, v)], n, v,
            Len(stack[current]) + 1, "coact")

(* The expression of the current co-expression produces v ... *)
Return(v) ==
  /\ mode[current] = "code"
  /\ current # Main
  /\ activators' = [activators EXCEPT ![current] = Front(@)]
  /\ CoChng(stack, Last(activators[current]), v, NULL, "coret")

(* ... or is exhausted, and stays so. *)
Fail ==
  /\ mode[current] \in {"code", "exhausted"}
  /\ current # Main
  /\ activators' = [activators EXCEPT ![current] = Front(@)]
  /\ CoChng([stack EXCEPT ![current] = <<>>], Last(activators[current]),
            NoValue, NULL, "exhausted")

(* Other code of the current co-expression pushes or consumes an operand. *)
Compute(v) ==
  /\ mode[current] = "code"
  /\ \/ /\ Len(stack[current]) < MaxSlots
        /\ stack' = [stack EXCEPT ![current] = Append(@, v)]
     \/ /\ stack[current] # <<>>
        /\ stack' = [stack EXCEPT ![current] = Front(@)]
  /\ UNCHANGED <<current, activators, tvalloc, mode, sent, wild>>

Stopped == wild /\ UNCHANGED vars

Next ==
  \/ /\ ~wild
     /\ \/ \E n \in Coexpr, v \in Value : Activate(n, v)
        \/ \E v \in Value : Return(v) \/ Compute(v)
        \/ Fail
  \/ Stopped

Spec == Init /\ [][Next]_vars

-----------------------------------------------------------------------------
(* Every variable keeps its type. *)
TypeOK ==
  /\ current \in Coexpr
  /\ activators \in [Coexpr -> Seq(Coexpr)]
  /\ stack \in [Coexpr -> Seq(Value)]
  /\ tvalloc \in [Coexpr -> 0..Garbage]
  /\ mode \in [Coexpr -> Mode]
  /\ sent \in Value \cup {NoValue}
  /\ wild \in BOOLEAN

(* While a co-expression is suspended, tvalloc points to the operand of    *)
(* the @ it is suspended in, the last one on its stack, and is NULL if it  *)
(* waits for no result.                                                    *)
ResultSlot ==
  \A c \in Coexpr \ {current} :
    /\ mode[c] = "coact" => stack[c] # <<>> /\ tvalloc[c] = Len(stack[c])
    /\ mode[c] \in {"new", "coret", "exhausted"} => tvalloc[c] = NULL
    /\ mode[c] # "code"
SlotsSound == TypeOK /\ ResultSlot

\* Control passes from one co-expression to another.
Switch == current' # current

Arrives ==
  LET s == stack[current'] IN
  stack'[current'] = IF sent' = NoValue THEN Front(s) ELSE Append(Front(s), sent')

\* A step that changes a value on a stack changes the last one of the
\* co-expression that it resumes.
Overwrites ==
  \A c \in Coexpr, i \in 1..MaxSlots :
    /\ i <= Len(stack[c])
    /\ i <= Len(stack'[c])
    /\ stack'[c][i] # stack[c][i]
    => c = current' /\ i = Len(stack[c]) /\ mode[c] = "coact"

(* A value that is transmitted becomes the result of the activation the    *)
(* receiver is suspended in, and a failure makes that activation fail; no  *)
(* other operand is overwritten (co_chng, and what follows coswitch).      *)
OutcomeArrives == [][Switch => Overwrites /\ (mode[current'] = "coact" => Arrives)]_vars

(* "location of value being transmitted", "location to put result": the    *)
(* same for every activation, v @ &current among them.                     *)
OnlyResultOverwritten == [][~wild' => Overwrites]_vars

(* "where to place transmitted value": the field is never followed before  *)
(* it has been set.                                                        *)
NoWildStore == ~wild
=============================================================================
