--------------------------- MODULE OperatorProofs ---------------------------
(***************************************************************************)
(* Proofs about two small components, each for any constants.              *)
(*                                                                         *)
(* Of Transmission: SlotsSound is an invariant, and OutcomeArrives holds   *)
(* of every step.  That a return has an activator to go to is the trail of *)
(* ProofLemmas.                                                            *)
(*                                                                         *)
(* Of MapCache: a table that is used again is the one of the strings of    *)
(* this call.                                                              *)
(***************************************************************************)
EXTENDS Transmission, MapCache, ProofLemmas, Integers, FiniteSetTheorems

Nested == Nest(Coexpr, activators, Main, current)
IInv == SlotsSound /\ Nested

-----------------------------------------------------------------------------
\* co_chng, from the stacks s on which v has been pushed, leaves the current
\* co-expression suspended with its result slot where m says.
LEMMA CoChngSound ==
  ASSUME Assumption, SlotsSound,
         NEW s \in [Coexpr -> Seq(Value)], NEW n \in Coexpr,
         NEW v \in Value \cup {NoValue}, NEW r \in 0..Garbage, NEW m \in Mode,
         activators' \in [Coexpr -> Seq(Coexpr)],
         \A c \in Coexpr \ {current} : s[c] = stack[c],
         m = "coact" => s[current] # <<>> /\ r = Len(s[current]),
         m \in {"coret", "exhausted"} => r = NULL,
         m \in {"coact", "coret", "exhausted"},
         mode[current] \in {"code", "exhausted"},
         CoChng(s, n, v, r, m)
  PROVE  SlotsSound'
<1>1. /\ current \in Coexpr /\ stack \in [Coexpr -> Seq(Value)]
      /\ tvalloc \in [Coexpr -> 0..Garbage] /\ mode \in [Coexpr -> Mode]
  BY DEF SlotsSound, TypeOK
<1>2. PICK d : d = Delivered(s, n, v)
  OBVIOUS
<1>3. /\ d \in [Coexpr -> Seq(Value)] /\ \A c \in Coexpr : Len(d[c]) = Len(s[c])
      /\ \A c \in Coexpr \ {n} : d[c] = s[c]
  <2>1. CASE v # NoValue /\ tvalloc[n] \in 1..Len(s[n])
    <3>1. d = [s EXCEPT ![n] = [s[n] EXCEPT ![tvalloc[n]] = v]] /\ v \in Value
      BY <1>2, <2>1 DEF Delivered
    <3>2. PICK q : q = [s[n] EXCEPT ![tvalloc[n]] = v]
      OBVIOUS
    <3>3. q \in Seq(Value) /\ Len(q) = Len(s[n])
      BY <2>1, <3>1, <3>2
    <3>4. QED
      BY <3>1, <3>2, <3>3
  <2>2. CASE ~(v # NoValue /\ tvalloc[n] \in 1..Len(s[n]))
    BY <1>2, <2>2 DEF Delivered
  <2>3. QED
    BY <2>1, <2>2
<1>4. /\ stack' \in [Coexpr -> Seq(Value)] /\ \A c \in Coexpr \ {n} : stack'[c] = d[c]
  <2>1. stack' = Resumed(d, n, v)
    BY <1>2 DEF CoChng
  <2>2. CASE v = NoValue /\ mode[n] = "coact"
    <3>1. stack' = [d EXCEPT ![n] = Front(d[n])]
      BY <2>1, <2>2 DEF Resumed
    <3>2. n # current
      BY <2>2
    <3>3. d[n] \in Seq(Value) /\ d[n] # <<>>
      <4>1. s[n] # <<>> /\ s[n] \in Seq(Value)
        BY <2>2, <3>2 DEF SlotsSound, ResultSlot
      <4>2. Len(s[n]) # 0
        BY <4>1
      <4>3. Len(d[n]) # 0 /\ d[n] \in Seq(Value)
        BY <1>3, <4>2
      <4>4. QED
        BY <4>3
    <3>4. Front(d[n]) \in Seq(Value)
      BY <3>3, FrontLast
    <3>5. QED
      BY <1>3, <3>1, <3>4
  <2>3. CASE ~(v = NoValue /\ mode[n] = "coact")
    BY <1>3, <2>1, <2>3 DEF Resumed
  <2>4. QED
    BY <2>2, <2>3
<1>5. /\ tvalloc' = [tvalloc EXCEPT ![n] = NULL, ![current] = r]
      /\ mode' = [mode EXCEPT ![current] = m, ![n] = Mode_Next(n)]
      /\ current' = n /\ sent' = v
      /\ wild' = (v # NoValue /\ tvalloc[n] = Garbage)
  BY DEF CoChng
<1>6. Mode_Next(n) \in Mode
  BY DEF Mode_Next, Mode
<1>7. NULL \in 0..Garbage
  BY DEF Assumption, NULL, Garbage
<1>8. tvalloc' \in [Coexpr -> 0..Garbage] /\ mode' \in [Coexpr -> Mode]
  BY <1>1, <1>5, <1>6, <1>7
<1>9. TypeOK'
  BY <1>4, <1>5, <1>8 DEF TypeOK
<1>10. ResultSlot'
  <2> SUFFICES ASSUME NEW c \in Coexpr, c # n
               PROVE  /\ mode'[c] = "coact" => stack'[c] # <<>> /\ tvalloc'[c] = Len(stack'[c])
                      /\ mode'[c] \in {"new", "coret", "exhausted"} => tvalloc'[c] = NULL
                      /\ mode'[c] # "code"
    BY <1>5 DEF ResultSlot
  <2>1. stack'[c] = s[c]
    BY <1>3, <1>4
  <2>2. CASE c = current
    <3>1. mode'[c] = m /\ tvalloc'[c] = r
      BY <1>1, <1>5, <2>2
    <3>2. QED
      BY <2>1, <2>2, <3>1
  <2>3. CASE c # current
    <3>1. mode'[c] = mode[c] /\ tvalloc'[c] = tvalloc[c] /\ stack'[c] = stack[c]
      BY <1>1, <1>5, <2>1, <2>3
    <3>2. QED
      BY <2>3, <3>1 DEF SlotsSound, ResultSlot
  <2>4. QED
    BY <2>2, <2>3
<1>11. QED
  BY <1>9, <1>10 DEF SlotsSound
\* A co-expression that waits in Op_Coact finds the outcome in place of the
\* last operand of its stack, and nothing else has been written to.
LEMMA CoChngArrives ==
  ASSUME SlotsSound,
         NEW s \in [Coexpr -> Seq(Value)], NEW n \in Coexpr, n # current,
         NEW v \in Value \cup {NoValue}, NEW r, NEW m,
         \A c \in Coexpr \ {current} : s[c] = stack[c],
         \A i \in 1..MaxSlots : /\ i <= Len(stack[current])
                               /\ i <= Len(s[current])
                               => s[current][i] = stack[current][i],
         CoChng(s, n, v, r, m)
  PROVE  Overwrites /\ (mode[current'] = "coact" => Arrives)
<1>1. /\ current \in Coexpr /\ stack \in [Coexpr -> Seq(Value)]
      /\ mode \in [Coexpr -> Mode] /\ tvalloc \in [Coexpr -> 0..Garbage]
  BY DEF SlotsSound, TypeOK
<1>2. /\ stack' = Resumed(Delivered(s, n, v), n, v)
      /\ current' = n /\ sent' = v
  BY DEF CoChng
<1>3. /\ mode[n] = "coact" => stack[n] # <<>> /\ tvalloc[n] = Len(stack[n])
      /\ mode[n] # "coact" => tvalloc[n] = 0
      /\ s[n] = stack[n] /\ stack[n] \in Seq(Value)
  BY <1>1 DEF SlotsSound, ResultSlot, Mode, NULL
<1>4. \A c \in Coexpr \ {n} : stack'[c] = s[c]
  <2>1. \A c \in Coexpr \ {n} : Delivered(s, n, v)[c] = s[c]
    BY DEF Delivered
  <2>2. \A c \in Coexpr \ {n} : stack'[c] = Delivered(s, n, v)[c]
    BY <1>2 DEF Resumed
  <2>3. QED
    BY <2>1, <2>2
<1>5. CASE mode[n] # "coact"
  <2>1. stack'[n] = stack[n]
    <3>1. Delivered(s, n, v) = s
      BY <1>3, <1>5 DEF Delivered
    <3>2. QED
      BY <1>2, <1>3, <1>5, <3>1 DEF Resumed
  <2>2. Overwrites
    BY <1>1, <1>4, <2>1 DEF Overwrites
  <2>3. QED
    BY <1>2, <1>5, <2>2
<1>6. CASE mode[n] = "coact"
  <2>1. PICK q, len : q = stack[n] /\ len = Len(stack[n])
    OBVIOUS
  <2>2. /\ q \in Seq(Value) /\ q # <<>> /\ len = Len(q) /\ len \in Nat \ {0}
        /\ Front(q) \in Seq(Value) /\ Len(Front(q)) = len - 1
        /\ \A i \in 1..(len - 1) : Front(q)[i] = q[i]
    BY <1>3, <1>6, <2>1, FrontLast
  <2>3. stack'[n] = IF v = NoValue THEN Front(q) ELSE Append(Front(q), v)
    <3>1. CASE v = NoValue
      <4>1. Delivered(s, n, v) = s
        BY <3>1 DEF Delivered
      <4>2. stack' = [s EXCEPT ![n] = Front(s[n])]
        BY <1>2, <1>6, <3>1, <4>1 DEF Resumed
      <4>3. QED
        BY <1>3, <2>1, <3>1, <4>2
    <3>2. CASE v # NoValue
      <4>1. tvalloc[n] = len /\ len \in 1..Len(s[n])
        BY <1>3, <1>6, <2>1, <2>2
      <4>2. stack' = [s EXCEPT ![n] = [s[n] EXCEPT ![len] = v]]
        BY <1>2, <3>2, <4>1 DEF Delivered, Resumed
      <4>3. stack'[n] = [q EXCEPT ![len] = v] /\ v \in Value
        BY <1>3, <2>1, <3>2, <4>2
      <4>4. PICK f : f = Front(q)
        OBVIOUS
      <4>5. [q EXCEPT ![len] = v] = Append(f, v)
        <5>1. /\ f \in Seq(Value) /\ Len(f) = len - 1
              /\ \A i \in 1..(len - 1) : f[i] = q[i]
          BY <2>2, <4>4
        <5>2. PICK a, b : a = [q EXCEPT ![len] = v] /\ b = Append(f, v)
          OBVIOUS
        <5>3. a \in Seq(Value) /\ Len(a) = len /\ b \in Seq(Value) /\ Len(b) = len
          BY <2>2, <4>3, <5>1, <5>2
        <5>4. ASSUME NEW i \in 1..len PROVE a[i] = b[i]
          <6>1. CASE i = len
            BY <2>2, <4>3, <5>1, <5>2, <6>1
          <6>2. CASE i # len
            <7>1. i \in 1..(len - 1)
              BY <2>2, <6>2
            <7>2. QED
              BY <2>2, <4>3, <5>1, <5>2, <6>2, <7>1
          <6>3. QED
            BY <6>1, <6>2
        <5>5. a = b
          BY <5>3, <5>4
        <5>6. QED
          BY <5>2, <5>5
      <4>6. QED
        BY <3>2, <4>3, <4>4, <4>5
    <3>3. QED
      BY <3>1, <3>2
  <2>4. Arrives
    BY <1>2, <2>1, <2>3 DEF Arrives
  <2>5. Overwrites
    <3> SUFFICES ASSUME NEW c \in Coexpr, NEW i \in 1..MaxSlots, i <= Len(stack[c]),
                        i <= Len(stack'[c]), stack'[c][i] # stack[c][i]
                 PROVE  c = current' /\ i = Len(stack[c]) /\ mode[c] = "coact"
      BY DEF Overwrites
    <3>1. c = n
      BY <1>4
    <3>2. i <= len /\ i # 0
      BY <2>1, <3>1
    <3>3. CASE i \in 1..(len - 1)
      <4>1. stack'[n][i] = q[i]
        <5>1. CASE v = NoValue
          BY <2>2, <2>3, <3>3, <5>1
        <5>2. CASE v # NoValue
          <6>1. v \in Value /\ stack'[n] = Append(Front(q), v) /\ i \in 1..Len(Front(q))
            BY <2>2, <2>3, <3>3, <5>2
          <6>2. stack'[n][i] = Front(q)[i]
            BY <2>2, <6>1, AppendOne
          <6>3. QED
            BY <2>2, <3>3, <6>2
        <5>3. QED
          BY <5>1, <5>2
      <4>2. QED
        BY <2>1, <3>1, <4>1
    <3>4. CASE i = len
      BY <1>2, <1>6, <2>1, <3>1, <3>4
    <3>5. QED
      BY <2>2, <3>2, <3>3, <3>4
  <2>6. QED
    BY <2>4, <2>5
<1>7. QED
  BY <1>5, <1>6
-----------------------------------------------------------------------------
\* What a step has to leave behind and to show.
Step == IInv' /\ (Switch => Overwrites /\ (mode[current'] = "coact" => Arrives))

LEMMA InitIInv == ASSUME Assumption, Init PROVE IInv
<1>1. Main \in Coexpr /\ NULL \in 0..Garbage /\ Garbage \in 0..Garbage
  BY DEF Assumption, NULL, Garbage
<1>2. TypeOK
  <2>1. activators \in [Coexpr -> Seq(Coexpr)]
    BY <1>1 DEF Init
  <2>2. stack \in [Coexpr -> Seq(Value)] /\ tvalloc \in [Coexpr -> 0..Garbage]
    BY <1>1 DEF Init
  <2>3. mode \in [Coexpr -> Mode] /\ current \in Coexpr
    BY <1>1 DEF Init, Mode
  <2>4. QED
    BY <2>1, <2>2, <2>3 DEF Init, TypeOK
<1>3. ResultSlot
  BY <1>1 DEF Init, ResultSlot
<1>4. Nested
  BY <1>1, TrailStarts DEF Init, Nested
<1>5. QED
  BY <1>2, <1>3, <1>4 DEF IInv, SlotsSound

LEMMA ActivateStep ==
  ASSUME Assumption, IInv, NEW n \in Coexpr, NEW v \in Value, Activate(n, v)
  PROVE  Step
<1>1. /\ SlotsSound /\ current \in Coexpr /\ stack \in [Coexpr -> Seq(Value)]
      /\ activators \in [Coexpr -> Seq(Coexpr)] /\ Main \in Coexpr /\ mode[current] = "code"
  BY DEF IInv, SlotsSound, TypeOK, Assumption, Activate
<1>2. PICK s, r : s = [stack EXCEPT ![current] = Append(@, v)] /\ r = Len(stack[current]) + 1
  OBVIOUS
<1>3. /\ CoChng(s, n, v, r, "coact") /\ Len(stack[current]) < MaxSlots
      /\ activators' = [activators EXCEPT ![n] = Append(@, current)]
  BY <1>2 DEF Activate
<1>4. s[current] = Append(stack[current], v) /\ \A c \in Coexpr \ {current} : s[c] = stack[c]
  BY <1>1, <1>2
<1>5. /\ Len(stack[current]) \in Nat /\ s[current] \in Seq(Value)
      /\ Len(s[current]) = r /\ s[current] # <<>>
      /\ \A i \in 1..Len(stack[current]) : s[current][i] = stack[current][i]
  <2>1. stack[current] \in Seq(Value)
    BY <1>1
  <2>2. QED
    BY <1>2, <1>4, <2>1, AppendOne
<1>6. s \in [Coexpr -> Seq(Value)]
  BY <1>1, <1>2, <1>4, <1>5
<1>7. r \in 0..Garbage
  BY <1>2, <1>3, <1>5 DEF Assumption, Garbage
<1>8. activators' \in [Coexpr -> Seq(Coexpr)]
  BY <1>1, <1>3
<1>9. SlotsSound'
  BY <1>1, <1>3, <1>4, <1>5, <1>6, <1>7, <1>8, CoChngSound DEF Mode
<1>10. current' = n
  BY <1>3 DEF CoChng
<1>11. Nested'
  <2>1. Nest(Coexpr, activators, Main, current)
    BY DEF IInv, Nested
  <2>2. Nest(Coexpr, activators', Main, n)
    BY <1>1, <1>3, <2>1, TrailGrows
  <2>3. QED
    BY <1>10, <2>2 DEF Nested
<1>12. ASSUME Switch PROVE Overwrites /\ (mode[current'] = "coact" => Arrives)
  <2>1. n # current
    BY <1>10, <1>12 DEF Switch
  <2>2. \A i \in 1..MaxSlots : /\ i <= Len(stack[current])
                              /\ i <= Len(s[current])
                              => s[current][i] = stack[current][i]
    BY <1>5
  <2>3. QED
    BY <1>1, <1>3, <1>4, <1>6, <2>1, <2>2, CoChngArrives
<1>13. QED
  BY <1>9, <1>11, <1>12 DEF Step, IInv

\* Return and Fail: v goes to the last activator.
LEMMA BackStep ==
  ASSUME Assumption, IInv, NEW s \in [Coexpr -> Seq(Value)],
         s = stack \/ s = [stack EXCEPT ![current] = <<>>],
         NEW v \in Value \cup {NoValue}, NEW m \in {"coret", "exhausted"},
         mode[current] \in {"code", "exhausted"}, current # Main,
         activators' = [activators EXCEPT ![current] = Front(@)],
         CoChng(s, Last(activators[current]), v, NULL, m)
  PROVE  Step
<1>1. /\ SlotsSound /\ current \in Coexpr /\ stack \in [Coexpr -> Seq(Value)]
      /\ activators \in [Coexpr -> Seq(Coexpr)] /\ Main \in Coexpr
      /\ NULL \in 0..Garbage /\ m \in Mode
  BY DEF IInv, SlotsSound, TypeOK, Assumption, NULL, Garbage, Mode
<1>2. PICK n : n = Last(activators[current])
  OBVIOUS
<1>3. /\ activators[current] # <<>>
      /\ Nest(Coexpr, activators', Main, n)
  <2>1. Nest(Coexpr, activators, Main, current)
    BY DEF IInv, Nested
  <2>2. PICK after : after = activators' /\ after = [activators EXCEPT ![current] = Front(@)]
    OBVIOUS
  <2>3. activators[current] # <<>> /\ Nest(Coexpr, after, Main, Last(activators[current]))
    BY <1>1, <2>1, <2>2, TrailShrinks
  <2>4. QED
    BY <1>2, <2>2, <2>3
<1>4. n \in Coexpr /\ Front(activators[current]) \in Seq(Coexpr)
  <2>1. activators[current] \in Seq(Coexpr)
    BY <1>1
  <2>2. QED
    BY <1>2, <1>3, <2>1, FrontLast
<1>5. activators' \in [Coexpr -> Seq(Coexpr)]
  BY <1>1, <1>4
<1>6. CoChng(s, n, v, NULL, m) /\ current' = n
  BY <1>2 DEF CoChng
<1>7. \A c \in Coexpr \ {current} : s[c] = stack[c]
  OBVIOUS
<1>8. SlotsSound'
  BY <1>1, <1>4, <1>5, <1>6, <1>7, CoChngSound
<1>9. Nested'
  BY <1>3, <1>6 DEF Nested
<1>10. ASSUME Switch PROVE Overwrites /\ (mode[current'] = "coact" => Arrives)
  <2>1. n # current
    BY <1>6, <1>10 DEF Switch
  <2>2. \A i \in 1..MaxSlots : /\ i <= Len(stack[current])
                              /\ i <= Len(s[current])
                              => s[current][i] = stack[current][i]
    <3>1. CASE s = stack
      BY <3>1
    <3>2. CASE s = [stack EXCEPT ![current] = <<>>]
      <4>1. s[current] = <<>>
        BY <1>1, <3>2
      <4>2. Len(s[current]) = 0
        BY <4>1
      <4>3. QED
        BY <4>2
    <3>3. QED
      BY <3>1, <3>2
  <2>3. QED
    BY <1>1, <1>4, <1>6, <1>7, <2>1, <2>2, CoChngArrives
<1>11. QED
  BY <1>8, <1>9, <1>10 DEF Step, IInv

LEMMA ReturnStep ==
  ASSUME Assumption, IInv, NEW v \in Value, Return(v)
  PROVE  Step
<1>1. stack \in [Coexpr -> Seq(Value)]
  BY DEF IInv, SlotsSound, TypeOK
<1>2. QED
  BY <1>1, BackStep DEF Return

LEMMA FailStep ==
  ASSUME Assumption, IInv, Fail
  PROVE  Step
<1>1. PICK s : s = [stack EXCEPT ![current] = <<>>]
  OBVIOUS
<1>2. s \in [Coexpr -> Seq(Value)]
  BY <1>1 DEF IInv, SlotsSound, TypeOK
<1>3. QED
  BY <1>1, <1>2, BackStep DEF Fail

LEMMA ComputeStep ==
  ASSUME Assumption, IInv, NEW v \in Value, Compute(v)
  PROVE  Step
<1>1. /\ current \in Coexpr /\ stack \in [Coexpr -> Seq(Value)]
      /\ UNCHANGED <<current, activators, tvalloc, mode, sent, wild>>
  BY DEF IInv, SlotsSound, TypeOK, Compute
<1>2. \E e \in Seq(Value) : stack' = [stack EXCEPT ![current] = e]
  <2>1. Append(stack[current], v) \in Seq(Value)
    BY <1>1
  <2>2. stack[current] # <<>> => Front(stack[current]) \in Seq(Value)
    BY <1>1, FrontLast
  <2>3. QED
    BY <2>1, <2>2 DEF Compute
<1>3. stack' \in [Coexpr -> Seq(Value)] /\ \A c \in Coexpr \ {current} : stack'[c] = stack[c]
  BY <1>1, <1>2
<1>4. TypeOK'
  BY <1>1, <1>3 DEF IInv, SlotsSound, TypeOK
<1>5. ResultSlot'
  BY <1>1, <1>3 DEF IInv, SlotsSound, ResultSlot
<1>6. Nested'
  BY <1>1 DEF IInv, Nested
<1>7. QED
  BY <1>1, <1>4, <1>5, <1>6 DEF Step, IInv, SlotsSound, Switch

LEMMA StutterStep ==
  ASSUME IInv, UNCHANGED vars
  PROVE  Step
BY DEF vars, Step, Switch, IInv, SlotsSound, TypeOK, ResultSlot, Nested

LEMMA NextStep ==
  ASSUME Assumption, IInv, [Next]_vars
  PROVE  Step
<1>1. ASSUME NEW n \in Coexpr, NEW v \in Value, Activate(n, v) PROVE Step
  BY <1>1, ActivateStep
<1>2. ASSUME NEW v \in Value, Return(v) PROVE Step
  BY <1>2, ReturnStep
<1>3. ASSUME NEW v \in Value, Compute(v) PROVE Step
  BY <1>3, ComputeStep
<1>4. CASE Fail
  BY <1>4, FailStep
<1>5. CASE Stopped
  BY <1>5, StutterStep DEF Stopped
<1>6. CASE UNCHANGED vars
  BY <1>6, StutterStep
<1>7. QED
  BY <1>1, <1>2, <1>3, <1>4, <1>5, <1>6 DEF Next

\* While a co-expression is suspended, tvalloc is the operand of the @ that it
\* is suspended in (co_chng, Op_Coact); with the trail it is an invariant.
THEOREM SlotsInvariant == ASSUME Assumption PROVE Spec => []SlotsSound
<1>1. Init => IInv
  BY InitIInv
<1>2. IInv /\ [Next]_vars => IInv'
  BY NextStep DEF Step
<1>3. IInv => SlotsSound
  BY DEF IInv
<1>4. QED
  BY <1>1, <1>2, <1>3, PTL DEF Spec

\* What is transmitted becomes the result of the activation that the receiver
\* waits in, or makes it fail, and no other operand is written (co_chng).
THEOREM TransmissionArrives == ASSUME Assumption PROVE Spec => OutcomeArrives
<1>1. Init => IInv
  BY InitIInv
<1>2. IInv /\ [Next]_vars => IInv'
  BY NextStep DEF Step
<1>3. IInv /\ [Next]_vars =>
        [Switch => Overwrites /\ (mode[current'] = "coact" => Arrives)]_vars
  BY NextStep DEF Step
<1>4. QED
  BY <1>1, <1>2, <1>3, PTL DEF Spec, OutcomeArrives

-----------------------------------------------------------------------------
(* The places of the members of a set of numbers, in order.                *)

Rank(L, i) == Cardinality({k \in L : k <= i})
At(L, m) == CHOOSE j \in L : Rank(L, j) = m

LEMMA RankStep ==
  ASSUME NEW n \in Nat, NEW L \in SUBSET (1..n)
  PROVE  /\ IsFiniteSet(L) /\ Cardinality(L) \in Nat
         /\ \A i \in L : Rank(L, i) \in 1..Cardinality(L)
         /\ \A i, j \in L : i < j => Rank(L, i) < Rank(L, j)
<1>1. IsFiniteSet(1..n)
  BY FS_Interval
<1>2. IsFiniteSet(L) /\ Cardinality(L) \in Nat
  BY <1>1, FS_Subset, FS_CardinalityType
<1>3. ASSUME NEW i \in L
      PROVE  /\ IsFiniteSet({k \in L : k <= i}) /\ Rank(L, i) \in Nat
             /\ Rank(L, i) <= Cardinality(L) /\ Rank(L, i) # 0
  <2>1. PICK D : D = {k \in L : k <= i}
    OBVIOUS
  <2>2. D \in SUBSET L /\ i \in D
    BY <2>1
  <2>3. IsFiniteSet(D) /\ Cardinality(D) <= Cardinality(L) /\ Cardinality(D) \in Nat
    BY <1>2, <2>2, FS_Subset, FS_CardinalityType
  <2>4. Cardinality(D) # 0
    BY <2>2, <2>3, FS_EmptySet
  <2>5. QED
    BY <2>1, <2>3, <2>4 DEF Rank
<1>4. \A i \in L : Rank(L, i) \in 1..Cardinality(L)
  <2> SUFFICES ASSUME NEW i \in L PROVE Rank(L, i) \in 1..Cardinality(L)
    OBVIOUS
  <2>1. PICK r, c : r = Rank(L, i) /\ c = Cardinality(L)
    OBVIOUS
  <2>2. r \in Nat /\ c \in Nat /\ r <= c /\ r # 0
    BY <1>2, <1>3, <2>1
  <2>3. QED
    BY <2>1, <2>2
<1>5. ASSUME NEW i \in L, NEW j \in L, i < j
      PROVE  Rank(L, i) < Rank(L, j)
  <2>1. PICK D, E : D = {k \in L : k <= i} /\ E = {k \in L : k <= j}
    OBVIOUS
  <2>2. D \in SUBSET E /\ j \in E /\ j \notin D
    <3>1. L \subseteq Nat
      OBVIOUS
    <3>2. i \in Nat /\ j \in Nat
      BY <3>1
    <3>3. \A k \in L : k <= i => k <= j
      BY <1>5, <3>1, <3>2
    <3>4. ~(j <= i)
      BY <1>5, <3>2
    <3>5. j <= j
      BY <3>2
    <3>6. QED
      BY <2>1, <3>3, <3>4, <3>5, Zenon
  <2>3. IsFiniteSet(D) /\ IsFiniteSet(E) /\ Cardinality(D) \in Nat /\ Cardinality(E) \in Nat
    BY <1>3, <2>1, FS_CardinalityType
  <2>4. Cardinality(D) <= Cardinality(E) /\ (Cardinality(E) = Cardinality(D) => E = D)
    BY <2>2, <2>3, FS_Subset
  <2>5. Cardinality(D) < Cardinality(E)
    BY <2>2, <2>3, <2>4
  <2>6. QED
    BY <2>1, <2>5 DEF Rank
<1>6. QED
  BY <1>2, <1>4, <1>5

\* At finds the member that has a place, and every place has one.
LEMMA RankAt ==
  ASSUME NEW n \in Nat, NEW L \in SUBSET (1..n)
  PROVE  /\ \A i \in L : At(L, Rank(L, i)) = i
         /\ \A m \in 1..Cardinality(L) : At(L, m) \in L
<1>1. PICK c : c = Cardinality(L)
  OBVIOUS
<1>2. /\ IsFiniteSet(L) /\ c \in Nat
      /\ \A i \in L : Rank(L, i) \in 1..c
      /\ \A i, j \in L : i < j => Rank(L, i) < Rank(L, j)
  BY <1>1, RankStep
<1>3. \A i, j \in L : Rank(L, i) = Rank(L, j) => i = j
  <2> SUFFICES ASSUME NEW i \in L, NEW j \in L, Rank(L, i) = Rank(L, j), i # j PROVE FALSE
    OBVIOUS
  <2>1. i < j \/ j < i
    OBVIOUS
  <2>2. Rank(L, i) \in Nat /\ Rank(L, j) \in Nat
    BY <1>2
  <2>3. QED
    BY <1>2, <2>1, <2>2
<1>4. \A i \in L : At(L, Rank(L, i)) = i
  BY <1>3 DEF At
<1>5. PICK f : f = [i \in L |-> Rank(L, i)]
  OBVIOUS
<1>6. f \in Injection(L, 1..c)
  BY <1>2, <1>3, <1>5 DEF Injection, IsInjective
<1>7. IsFiniteSet(1..c) /\ Cardinality(1..c) = c
  BY <1>2, FS_Interval
<1>8. f \in Surjection(L, 1..c)
  BY <1>1, <1>6, <1>7, FS_Injection
<1>9. ASSUME NEW m \in 1..c PROVE At(L, m) \in L
  <2>1. \E i \in L : f[i] = m
    BY <1>8 DEF Surjection
  <2>2. \E i \in L : Rank(L, i) = m
    BY <1>5, <2>1
  <2>3. QED
    BY <2>2 DEF At
<1>10. QED
  BY <1>1, <1>4, <1>9

-----------------------------------------------------------------------------
(* Descriptors and the strings they stand for.                             *)

Fixed == {nulldesc, list, ucase, lcase}
IsIn(sp, d) == \E i \in DOMAIN sp : d = Desc(Len(sp[i]), i)
ValidIn(sp, d) == d \in Fixed \/ IsIn(sp, d)
TextIn(sp, d) == IF d = ucase THEN <<"A">> ELSE IF d = lcase THEN <<"a">>
                 ELSE sp[d.vword]

LEMMA TextTypes ==
  ASSUME NEW t \in Text
  PROVE  /\ Len(t) \in 0..MaxText /\ DOMAIN t = 1..Len(t)
         /\ \A i \in 1..Len(t) : t[i] \in Letter
<1>1. PICK n \in 0..MaxText : t \in [1..n -> Letter]
  BY DEF Text
<1>2. t \in Seq(Letter) /\ Len(t) = n
  BY <1>1, SMT
<1>3. QED
  BY <1>1, <1>2

\* What a valid descriptor is.
LEMMA Strings ==
  ASSUME NEW sp \in Seq(Text), NEW d, ValidIn(sp, d)
  PROVE  /\ d = Desc(d.dword, d.vword) /\ d.dword \in D_List..MaxText
         /\ d.vword \in -2..Len(sp)
         /\ d.dword >= 0 => /\ TextIn(sp, d) \in Text /\ Len(TextIn(sp, d)) = d.dword
                            /\ d # nulldesc
         /\ IsIn(sp, d) => /\ d.vword \in DOMAIN sp /\ d.dword = Len(sp[d.vword])
                           /\ d.dword >= 0 /\ TextIn(sp, d) = sp[d.vword]
                           /\ d \notin Fixed
<1>1. CASE d \in Fixed
  <2>1. <<"A">> \in Text /\ <<"a">> \in Text
    BY DEF Text, MaxText, Letter
  <2>2. ~IsIn(sp, d)
    BY <1>1 DEF Fixed, IsIn, Desc, nulldesc, list, ucase, lcase, D_Null, D_List
  <2>3. QED
    BY <1>1, <2>1, <2>2 DEF Fixed, Desc, nulldesc, list, ucase, lcase, D_Null, D_List, TextIn, MaxText
<1>2. CASE IsIn(sp, d)
  <2>1. PICK i \in DOMAIN sp : d = Desc(Len(sp[i]), i)
    BY <1>2 DEF IsIn
  <2>2. sp[i] \in Text /\ i \in 1..Len(sp)
    BY <2>1
  <2>3. Len(sp[i]) \in 0..MaxText
    BY <2>2, TextTypes
  <2>4. d.dword = Len(sp[i]) /\ d.vword = i
    BY <2>1 DEF Desc
  <2>5. d \notin Fixed
    BY <2>2, <2>4 DEF Fixed, Desc, nulldesc, list, ucase, lcase
  <2>6. TextIn(sp, d) = sp[i]
    BY <2>4, <2>5 DEF TextIn, Fixed
  <2>7. QED
    BY <2>1, <2>2, <2>3, <2>4, <2>5, <2>6 DEF Desc, D_List, MaxText, Fixed
<1>3. QED
  BY <1>1, <1>2 DEF ValidIn

\* A table is one of letters, when the strings are of one length.
LEMMA Tables ==
  ASSUME NEW t \in Text, NEW u \in Text, Len(t) = Len(u)
  PROVE  Table(t, u) \in [Letter -> Letter \cup {""}]
<1> SUFFICES ASSUME NEW c \in Letter, NEW S, S = {i \in DOMAIN t : t[i] = c}, S # {}
             PROVE  u[CHOOSE i \in S : \A j \in S : j <= i] \in Letter
  BY DEF Table
<1>1. DOMAIN t = 1..Len(t) /\ Len(t) \in 0..2 /\ \A i \in 1..Len(t) : u[i] \in Letter
  BY TextTypes DEF MaxText
<1>2. S \subseteq {1, 2} /\ S \subseteq 1..Len(t)
  BY <1>1
<1>3. \E i \in S : \A j \in S : j <= i
  BY <1>2
<1>4. (CHOOSE i \in S : \A j \in S : j <= i) \in S
  BY <1>3
<1>5. QED
  BY <1>1, <1>2, <1>4

-----------------------------------------------------------------------------
(* A collection.                                                           *)

Moved(L, d) == IF d.dword >= 0 /\ d.vword \in L THEN Desc(d.dword, Rank(L, d.vword)) ELSE d
Compact(L, sp) == [i \in 1..Cardinality(L) |-> sp[At(L, i)]]

\* A descriptor of a string that stays has the same string after the move.
LEMMA MovedKeeps ==
  ASSUME NEW sp \in Seq(Text), NEW L \in SUBSET DOMAIN sp, NEW d, ValidIn(sp, d),
         IsIn(sp, d) => d.vword \in L
  PROVE  /\ ValidIn(Compact(L, sp), Moved(L, d))
         /\ Moved(L, d).dword = d.dword
         /\ d.dword >= 0 => TextIn(Compact(L, sp), Moved(L, d)) = TextIn(sp, d)
<1>1. PICK n \in Nat : n = Len(sp) /\ DOMAIN sp = 1..n
  OBVIOUS
<1>2. PICK sq, e : sq = Compact(L, sp) /\ e = Moved(L, d)
  OBVIOUS
<1>3. CASE d \in Fixed
  <2>1. e = d
    BY <1>1, <1>2, <1>3 DEF Moved, Fixed, Desc, nulldesc, list, ucase, lcase, D_Null, D_List
  <2>2. d.dword >= 0 => d = ucase \/ d = lcase
    BY <1>3 DEF Fixed, Desc, nulldesc, list, ucase, lcase, D_Null, D_List
  <2>3. d.dword >= 0 => TextIn(sq, d) = TextIn(sp, d)
    BY <2>2 DEF TextIn
  <2>4. QED
    BY <1>2, <1>3, <2>1, <2>3 DEF ValidIn
<1>4. CASE IsIn(sp, d)
  <2>1. /\ d.vword \in L /\ d.dword = Len(sp[d.vword]) /\ d.dword >= 0
        /\ TextIn(sp, d) = sp[d.vword]
    BY <1>4, Strings
  <2>2. PICK r, i : r = Rank(L, d.vword) /\ i = d.vword
    OBVIOUS
  <2>3. r \in 1..Cardinality(L) /\ At(L, r) = i
    BY <1>1, <2>1, <2>2, RankStep, RankAt
  <2>4. r \in DOMAIN sq /\ sq[r] = sp[i]
    BY <1>2, <2>3 DEF Compact
  <2>5. e = Desc(Len(sq[r]), r)
    BY <1>2, <2>1, <2>2, <2>4 DEF Moved
  <2>6. IsIn(sq, e)
    BY <2>4, <2>5 DEF IsIn
  <2>7. e.dword = d.dword /\ e.vword = r
    BY <2>1, <2>2, <2>4, <2>5 DEF Desc
  <2>8. r \in Nat /\ r > 0
    BY <2>3
  <2>9. e # ucase /\ e # lcase
    BY <2>7, <2>8 DEF ucase, lcase, Desc
  <2>10. TextIn(sq, e) = sp[i]
    BY <2>4, <2>7, <2>9 DEF TextIn
  <2>11. QED
    BY <1>2, <2>1, <2>2, <2>6, <2>7, <2>10 DEF ValidIn
<1>5. QED
  BY <1>3, <1>4 DEF ValidIn

-----------------------------------------------------------------------------
(* The invariant.                                                          *)

Good(sp, d, e, tab) == Maps(d, e) /\ tab = Table(TextIn(sp, d), TextIn(sp, e))

Shape ==
  /\ space \in Seq(Text) /\ Len(space) <= MaxSpace
  /\ value = [v \in Var |-> value[v]]
  /\ \A v \in Var : ValidIn(space, value[v])
  /\ ValidIn(space, maps2) /\ ValidIn(space, maps3)
  /\ maptab \in [Letter -> Letter \cup {""}]
  /\ outcome \in {"", "result", "error"} /\ refused \in BOOLEAN

\* The table is the one of the descriptors that are kept, unless none are, and
\* a result was one for them.
TableKept ==
  ~refused => maps2 = nulldesc \/ Good(space, maps2, maps3, maptab)
ResultKept ==
  ~refused /\ outcome = "result" => args = <<maps2, maps3>> /\ maps2 # nulldesc

KeptInv == Shape /\ TableKept /\ ResultKept

LEMMA Implied ==
  ASSUME KeptInv
  PROVE  MapTypeOK /\ KeptTableRight
<1>1. \A d : TextOf(d) = TextIn(space, d)
  BY DEF TextOf, TextIn
<1>2. ASSUME NEW d, ValidIn(space, d)
      PROVE  d \in Descriptors /\ (d.dword >= 0 => Len(TextOf(d)) = d.dword)
  <2>1. space \in Seq(Text)
    BY DEF KeptInv, Shape
  <2>2. /\ d = Desc(d.dword, d.vword) /\ d.dword \in D_List..MaxText
        /\ d.vword \in -2..Len(space)
        /\ d.dword >= 0 => Len(TextIn(space, d)) = d.dword
        /\ IsIn(space, d) => d.vword \in DOMAIN space /\ d.dword >= 0
    BY <1>2, <2>1, Strings
  <2>3. d \in [dword : D_List..MaxText, vword : -2..Len(space)]
    BY <2>2 DEF Desc
  <2>4. d \in Fixed \/ (d.dword >= 0 /\ d.vword \in DOMAIN space)
    BY <1>2, <2>2 DEF ValidIn
  <2>5. d \in Descriptors
    BY <2>3, <2>4 DEF Descriptors, Fixed
  <2>6. QED
    BY <1>1, <2>2, <2>5
<1>3. \A d \in {value[v] : v \in Var} \cup {maps2, maps3} : ValidIn(space, d)
  BY DEF KeptInv, Shape
<1>4. MapTypeOK
  BY <1>2, <1>3 DEF MapTypeOK, KeptInv, Shape
<1>5. ASSUME ~refused, outcome = "result"
      PROVE  MapsByArguments
  <2>1. args[1] = maps2 /\ args[2] = maps3 /\ Good(space, maps2, maps3, maptab)
    BY <1>5 DEF KeptInv, ResultKept, TableKept
  <2>2. QED
    BY <1>1, <2>1 DEF MapsByArguments, Good
<1>6. KeptTableRight
  BY <1>5 DEF KeptTableRight, MapsByArguments
<1>7. QED
  BY <1>4, <1>6

GrownBy(sp, sq, t) ==
  /\ sq \in Seq(Text) /\ Len(sq) = Len(sp) + 1
  /\ ValidIn(sq, Desc(Len(t), Len(sp) + 1))
  /\ \A d : ValidIn(sp, d) => ValidIn(sq, d) /\ (d.dword >= 0 => TextIn(sq, d) = TextIn(sp, d))

\* A string that is added leaves the others where they are.
LEMMA Grown ==
  ASSUME NEW sp \in Seq(Text), NEW t \in Text, NEW sq, sq = Append(sp, t)
  PROVE  GrownBy(sp, sq, t)
<1>1. PICK n \in Nat : n = Len(sp)
  OBVIOUS
<1>2. /\ sq \in Seq(Text) /\ Len(sq) = n + 1 /\ DOMAIN sq = 1..n + 1 /\ DOMAIN sp = 1..n
      /\ sq[n + 1] = t /\ \A i \in 1..n : sq[i] = sp[i]
  BY <1>1
<1>3. ValidIn(sq, Desc(Len(t), n + 1))
  BY <1>2 DEF ValidIn, IsIn
<1>4. ASSUME NEW d, ValidIn(sp, d)
      PROVE  ValidIn(sq, d) /\ (d.dword >= 0 => TextIn(sq, d) = TextIn(sp, d))
  <2>1. CASE d \in Fixed
    <3>1. d.dword >= 0 => d = ucase \/ d = lcase
      BY <2>1 DEF Fixed, Desc, nulldesc, list, ucase, lcase, D_Null, D_List
    <3>2. d.dword >= 0 => TextIn(sq, d) = TextIn(sp, d)
      BY <3>1 DEF TextIn
    <3>3. QED
      BY <2>1, <3>2 DEF ValidIn
  <2>2. CASE IsIn(sp, d)
    <3>1. d.vword \in 1..n /\ TextIn(sp, d) = sp[d.vword] /\ d \notin Fixed
      BY <1>2, <1>4, <2>2, Strings
    <3>2. IsIn(sq, d)
      BY <1>2, <2>2 DEF IsIn
    <3>3. TextIn(sq, d) = sq[d.vword]
      BY <3>1 DEF TextIn, Fixed
    <3>4. QED
      BY <1>2, <3>1, <3>2, <3>3 DEF ValidIn
  <2>3. QED
    BY <1>4, <2>1, <2>2 DEF ValidIn
<1>5. QED
  BY <1>1, <1>2, <1>3, <1>4 DEF GrownBy

\* What was good of two descriptors is good of two others for the same strings.
LEMMA GoodKept ==
  ASSUME NEW sp, NEW sq, NEW d, NEW e, NEW d1, NEW e1, NEW tab,
         Good(sp, d, e, tab), d1.dword = d.dword, e1.dword = e.dword,
         d.dword >= 0 => TextIn(sq, d1) = TextIn(sp, d),
         e.dword >= 0 => TextIn(sq, e1) = TextIn(sp, e)
  PROVE  Good(sq, d1, e1, tab)
  BY DEF Good, Maps

-----------------------------------------------------------------------------
(* Every step keeps it.                                                    *)

LEMMA Starts ==
  ASSUME MapAssumption, MapInit
  PROVE  KeptInv
<1>1. space \in Seq(Text) /\ Len(space) <= MaxSpace
  <2>1. space = <<>>
    BY DEF MapInit
  <2>2. <<>> \in Seq(Text) /\ Len(<<>>) = 0
    OBVIOUS
  <2>3. 0 <= MaxSpace
    BY DEF MapAssumption
  <2>4. QED
    BY <2>1, <2>2, <2>3
<1>2. \A v \in Var : value[v] = nulldesc
  BY DEF MapInit
<1>3. maptab \in [Letter -> Letter \cup {""}]
  BY DEF MapInit
<1>4. QED
  BY <1>1, <1>2, <1>3 DEF MapInit, KeptInv, Shape, TableKept, ResultKept, ValidIn, Fixed

LEMMA NewKeeps ==
  ASSUME KeptInv, NEW v \in Var, NEW t \in Text, MaxSpace \in Nat, New(v, t)
  PROVE  KeptInv'
<1>1. space \in Seq(Text)
  BY DEF KeptInv, Shape
<1>2. /\ space' = Append(space, t) /\ Len(space) < MaxSpace
      /\ value' = [value EXCEPT ![v] = Desc(Len(t), Len(space) + 1)]
      /\ maps2' = maps2 /\ maps3' = maps3 /\ maptab' = maptab /\ refused' = refused
      /\ outcome' = ""
  BY DEF New, Quiet
<1>3. PICK sq, nd : sq = space' /\ nd = Desc(Len(t), Len(space) + 1)
  OBVIOUS
<1>4. /\ sq \in Seq(Text) /\ Len(sq) = Len(space) + 1 /\ ValidIn(sq, nd)
      /\ \A d : ValidIn(space, d) => /\ ValidIn(sq, d)
                                     /\ d.dword >= 0 => TextIn(sq, d) = TextIn(space, d)
  <2>1. sq = Append(space, t) /\ Len(space) + 1 = Len(space) + 1
    BY <1>2, <1>3
  <2>2. PICK sp : sp = space
    OBVIOUS
  <2>3. sp \in Seq(Text) /\ sq = Append(sp, t)
    BY <1>1, <2>1, <2>2
  <2>4. GrownBy(sp, sq, t)
    BY <2>3, Grown
  <2>5. QED
    BY <1>3, <2>2, <2>4 DEF GrownBy
<1>5. Len(sq) <= MaxSpace
  <2>1. PICK n : n = Len(space)
    OBVIOUS
  <2>2. n \in Nat /\ n < MaxSpace
    <3>1. Len(space) \in Nat
      BY <1>1
    <3>2. QED
      BY <1>2, <2>1, <3>1
  <2>3. Len(sq) = n + 1
    BY <1>4, <2>1
  <2>4. QED
    BY <2>2, <2>3
<1>6. value' = [w \in Var |-> value'[w]] /\ \A w \in Var : value'[w] = nd \/ value'[w] = value[w]
  BY <1>2, <1>3 DEF KeptInv, Shape
<1>7. \A w \in Var : ValidIn(sq, value'[w])
  BY <1>4, <1>6 DEF KeptInv, Shape
<1>8. ValidIn(sq, maps2') /\ ValidIn(sq, maps3')
  BY <1>2, <1>4 DEF KeptInv, Shape
<1>9. Shape'
  BY <1>2, <1>3, <1>4, <1>5, <1>6, <1>7, <1>8 DEF KeptInv, Shape
<1>10. TableKept'
  <2> SUFFICES ASSUME ~refused, maps2 # nulldesc PROVE Good(sq, maps2, maps3, maptab)
    BY <1>2, <1>3 DEF TableKept
  <2>1. Good(space, maps2, maps3, maptab)
    BY DEF KeptInv, TableKept
  <2>2. /\ maps2.dword >= 0 => TextIn(sq, maps2) = TextIn(space, maps2)
        /\ maps3.dword >= 0 => TextIn(sq, maps3) = TextIn(space, maps3)
    BY <1>4 DEF KeptInv, Shape
  <2>3. QED
    BY <2>1, <2>2, GoodKept
<1>11. ResultKept'
  BY <1>2 DEF ResultKept
<1>12. QED
  BY <1>9, <1>10, <1>11 DEF KeptInv

LEMMA AssignKeeps ==
  ASSUME KeptInv, NEW v \in Var, NEW d \in {nulldesc, list} \cup {value[w] : w \in Var}, Assign(v, d)
  PROVE  KeptInv'
<1>1. /\ value' = [value EXCEPT ![v] = d] /\ space' = space
      /\ maps2' = maps2 /\ maps3' = maps3 /\ maptab' = maptab /\ refused' = refused
      /\ outcome' = ""
  BY DEF Assign, Quiet
<1>2. ValidIn(space, d)
  BY DEF KeptInv, Shape, ValidIn, Fixed
<1>3. value' = [w \in Var |-> value'[w]] /\ \A w \in Var : value'[w] = d \/ value'[w] = value[w]
  BY <1>1 DEF KeptInv, Shape
<1>4. \A w \in Var : ValidIn(space, value'[w])
  BY <1>2, <1>3 DEF KeptInv, Shape
<1>5. QED
  BY <1>1, <1>3, <1>4 DEF KeptInv, Shape, TableKept, ResultKept

LEMMA CollectKeeps ==
  ASSUME KeptInv, MaxSpace \in Nat, Collect
  PROVE  KeptInv'
<1>1. PICK n \in Nat : n = Len(space) /\ DOMAIN space = 1..n /\ space \in Seq(Text)
  <2>1. space \in Seq(Text)
    BY DEF KeptInv, Shape
  <2>2. Len(space) \in Nat /\ DOMAIN space = 1..Len(space)
    BY <2>1
  <2>3. QED
    BY <2>1, <2>2
<1>2. PICK L : L = {i \in DOMAIN space : \E d \in Kept : d.dword >= 0 /\ d.vword = i}
  OBVIOUS
<1>3. L \in SUBSET DOMAIN space /\ L \in SUBSET (1..n)
  BY <1>1, <1>2
<1>4. \A d : Moved(L, d) = IF d.dword >= 0 /\ d.vword \in L
                 THEN Desc(d.dword, Cardinality({i \in L : i <= d.vword})) ELSE d
  BY DEF Moved, Rank
<1>5. /\ space' = Compact(L, space)
      /\ value' = [v \in Var |-> Moved(L, value[v])]
      /\ maps2' = Moved(L, maps2) /\ maps3' = Moved(L, maps3)
      /\ maptab' = maptab /\ refused' = refused /\ outcome' = ""
  <2>1. \A v \in Var : value[v] \in Kept
    BY DEF Kept
  <2>2. maps2 \in Kept /\ maps3 \in Kept
    BY DEF Kept
  <2>3. space' = Compact(L, space)
    BY <1>2 DEF Collect, Compact, At, Rank
  <2>4. value' = [v \in Var |-> Moved(L, value[v])]
    BY <1>2, <2>1 DEF Collect, Moved, Rank
  <2>5. maps2' = Moved(L, maps2) /\ maps3' = Moved(L, maps3)
    BY <1>2, <2>2 DEF Collect, Moved, Rank
  <2>6. maptab' = maptab /\ refused' = refused /\ outcome' = ""
    BY DEF Collect, Quiet
  <2>7. QED
    BY <2>3, <2>4, <2>5, <2>6
<1>6. ASSUME NEW d \in Kept, ValidIn(space, d)
      PROVE  IsIn(space, d) => d.vword \in L
  BY <1>1, <1>2, <1>6, Strings
<1>7. PICK sq : sq = space'
  OBVIOUS
<1>8. \A d \in Kept : ValidIn(space, d)
  BY DEF Kept, KeptInv, Shape
<1>9. ASSUME NEW d \in Kept
      PROVE  /\ ValidIn(sq, Moved(L, d))
             /\ Moved(L, d).dword = d.dword
             /\ d.dword >= 0 => TextIn(sq, Moved(L, d)) = TextIn(space, d)
  BY <1>1, <1>3, <1>5, <1>6, <1>7, <1>8, MovedKeeps
<1>10. sq \in Seq(Text) /\ Len(sq) <= MaxSpace
  <2>1. PICK c : c = Cardinality(L)
    OBVIOUS
  <2>2. c \in Nat
    BY <1>3, <2>1, RankStep
  <2>3. IsFiniteSet(1..n) /\ Cardinality(1..n) = n
    BY FS_Interval
  <2>4. c <= n
    BY <1>3, <2>1, <2>3, FS_Subset
  <2>5. \A m \in 1..c : At(L, m) \in L
    BY <1>3, <2>1, RankAt
  <2>6. \A m \in 1..c : space[At(L, m)] \in Text
    BY <1>1, <1>3, <2>5
  <2>7. sq = [i \in 1..c |-> space[At(L, i)]]
    BY <1>5, <1>7, <2>1 DEF Compact
  <2>8. sq \in Seq(Text) /\ Len(sq) = c
    BY <2>2, <2>6, <2>7
  <2>9. n <= MaxSpace
    BY <1>1 DEF KeptInv, Shape
  <2>10. QED
    BY <2>2, <2>4, <2>8, <2>9
<1>11. \A v \in Var : value'[v] = Moved(L, value[v]) /\ value[v] \in Kept
  BY <1>5 DEF Kept
<1>12. maps2 \in Kept /\ maps3 \in Kept
  BY DEF Kept
<1>13. value' = [v \in Var |-> value'[v]]
  BY <1>5
<1>14. Shape'
  <2>1. \A v \in Var : ValidIn(sq, value'[v])
    BY <1>9, <1>11
  <2>2. ValidIn(sq, maps2') /\ ValidIn(sq, maps3')
    BY <1>5, <1>9, <1>12
  <2>3. QED
    BY <1>5, <1>7, <1>10, <1>13, <2>1, <2>2 DEF KeptInv, Shape
<1>15. TableKept'
  <2> SUFFICES ASSUME ~refused, maps2' # nulldesc PROVE Good(sq, maps2', maps3', maptab)
    BY <1>5, <1>7 DEF TableKept
  <2>1. maps2 # nulldesc
    <3>1. nulldesc.dword = -1
      BY DEF nulldesc, Desc, D_Null
    <3>2. Moved(L, nulldesc) = nulldesc
      BY <3>1 DEF Moved
    <3>3. QED
      BY <1>5, <3>2
  <2>2. Good(space, maps2, maps3, maptab)
    BY <2>1 DEF KeptInv, TableKept
  <2>3. PICK d, e : d = Moved(L, maps2) /\ e = Moved(L, maps3)
    OBVIOUS
  <2>4. /\ d.dword = maps2.dword /\ e.dword = maps3.dword
        /\ maps2.dword >= 0 => TextIn(sq, d) = TextIn(space, maps2)
        /\ maps3.dword >= 0 => TextIn(sq, e) = TextIn(space, maps3)
    BY <1>9, <1>12, <2>3
  <2>5. Good(sq, d, e, maptab)
    BY <2>2, <2>4, GoodKept
  <2>6. QED
    BY <1>5, <2>3, <2>5
<1>16. ResultKept'
  BY <1>5 DEF ResultKept
<1>17. QED
  BY <1>14, <1>15, <1>16 DEF KeptInv

LEMMA MapKeeps ==
  ASSUME KeptInv, NEW v2 \in Var, NEW v3 \in Var, map(v2, v3)
  PROVE  KeptInv'
<1>1. PICK s2, s3 : s2 = Defaulted(value[v2], ucase) /\ s3 = Defaulted(value[v3], lcase)
  OBVIOUS
<1>2. space' = space /\ value' = value /\ args' = <<s2, s3>>
  BY <1>1 DEF map
<1>3. /\ ValidIn(space, s2) /\ s2 # nulldesc /\ ValidIn(space, s3)
  <2>1. ucase # nulldesc
    BY DEF nulldesc, ucase, Desc, D_Null
  <2>2. ValidIn(space, ucase) /\ ValidIn(space, lcase)
    BY DEF ValidIn, Fixed
  <2>3. ValidIn(space, value[v2]) /\ ValidIn(space, value[v3])
    BY DEF KeptInv, Shape
  <2>4. QED
    BY <1>1, <2>1, <2>2, <2>3 DEF Defaulted
<1>4. CASE EqlDesc(maps2, s2) /\ EqlDesc(maps3, s3)
  <2>1. /\ outcome' = "result" /\ maps2' = maps2 /\ maps3' = maps3
        /\ maptab' = maptab /\ refused' = refused
    BY <1>1, <1>4 DEF map
  <2>2. \A d : ValidIn(space, d) => d = Desc(d.dword, d.vword)
    BY Strings DEF KeptInv, Shape
  <2>3. maps2 = s2 /\ maps3 = s3
    BY <1>3, <1>4, <2>2 DEF EqlDesc, KeptInv, Shape
  <2>4. Shape' /\ TableKept'
    BY <1>2, <2>1 DEF KeptInv, Shape, TableKept
  <2>5. ResultKept'
    BY <1>2, <1>3, <2>1, <2>3 DEF ResultKept
  <2>6. QED
    BY <2>4, <2>5 DEF KeptInv
<1>5. CASE ~(EqlDesc(maps2, s2) /\ EqlDesc(maps3, s3))
  <2>1. /\ maps2' = s2 /\ maps3' = s3 /\ refused' = ~Maps(s2, s3)
        /\ outcome' = IF Maps(s2, s3) THEN "result" ELSE "error"
        /\ maptab' = IF Maps(s2, s3) THEN Table(TextOf(s2), TextOf(s3)) ELSE maptab
    BY <1>1, <1>5 DEF map
  <2>2. TextOf(s2) = TextIn(space, s2) /\ TextOf(s3) = TextIn(space, s3)
    BY DEF TextOf, TextIn
  <2>3. ASSUME Maps(s2, s3) PROVE maptab' \in [Letter -> Letter \cup {""}]
    <3>1. PICK t, u : t = TextIn(space, s2) /\ u = TextIn(space, s3)
      OBVIOUS
    <3>2. t \in Text /\ u \in Text /\ Len(t) = Len(u)
      BY <1>3, <2>3, <3>1, Strings DEF Maps, KeptInv, Shape
    <3>3. QED
      BY <2>1, <2>2, <2>3, <3>1, <3>2, Tables
  <2>4. maptab' \in [Letter -> Letter \cup {""}]
    BY <2>1, <2>3 DEF KeptInv, Shape
  <2>5. outcome' \in {"", "result", "error"} /\ refused' \in BOOLEAN
    BY <2>1
  <2>6. Shape'
    BY <1>2, <1>3, <2>1, <2>4, <2>5 DEF KeptInv, Shape
  <2>7. TableKept'
    BY <1>2, <2>1, <2>2 DEF TableKept, Good
  <2>8. ResultKept'
    BY <1>2, <1>3, <2>1 DEF ResultKept
  <2>9. QED
    BY <2>6, <2>7, <2>8 DEF KeptInv
<1>6. QED
  BY <1>4, <1>5

-----------------------------------------------------------------------------
\* A table that is used again was made from the strings of this call, if the
\* arguments that are kept were accepted (fstr.r): for any number of variables,
\* any size of the region and any history of collections.
THEOREM MapCacheInvariant ==
  ASSUME MapAssumption
  PROVE  MapSpec => [](MapTypeOK /\ KeptTableRight)
<1>1. MaxSpace \in Nat
  BY DEF MapAssumption
<1>2. MapInit => KeptInv
  BY Starts
<1>3. KeptInv /\ [MapNext]_(mapVars) => KeptInv'
  <2> SUFFICES ASSUME KeptInv, [MapNext]_(mapVars) PROVE KeptInv'
    OBVIOUS
  <2>1. CASE MapNext
    BY <1>1, <2>1, NewKeeps, AssignKeeps, CollectKeeps, MapKeeps DEF MapNext
  <2>2. CASE UNCHANGED mapVars
    BY <2>2 DEF mapVars, KeptInv, Shape, TableKept, ResultKept
  <2>3. QED
    BY <2>1, <2>2
<1>4. KeptInv => MapTypeOK /\ KeptTableRight
  BY Implied
<1>5. QED
  BY <1>2, <1>3, <1>4, PTL DEF MapSpec
=============================================================================
