-------------------------------- MODULE Goal --------------------------------
(***************************************************************************)
(* What the expressions of Icode mean: goal-directed evaluation by depth-  *)
(* first search, without a stack of frames or code.  An expression is      *)
(* solved for its first result and delivers it to what is to be done next; *)
(* if that fails, it goes on to its next result.                           *)
(*                                                                         *)
(* A world holds what has been written, &subject (its length) and &pos,    *)
(* the saved scanning environments and the limits that count down, and a   *)
(* bound on the depth of the search.  An outcome is a world and a signal:  *)
(* failure, or an exit to an enclosing construct, with a value or the      *)
(* expression that a break is to be replaced by.                           *)
(***************************************************************************)
EXTENDS Integers, Sequences

Failure == <<"failure", 0>>
OutOfFuel == <<"fuel", 0>>

Outcome(sig, v, w) == [sig |-> sig, val |-> v, world |-> w]
Fails(w) == Outcome(Failure, 0, w)
Failed(r) == r.sig = Failure

\* Exchange the scanning environment with a saved one.
Exchange(w, n) ==
  [w EXCEPT !.subject = w.saved[n].subject, !.pos = w.saved[n].pos,
            !.saved[n] = [subject |-> w.subject, pos |-> w.pos]]

RECURSIVE Solve(_, _, _, _), Deliver(_, _, _), Count(_, _, _, _)

\* The first result of e only.
First(e, env, w) ==
  Solve(e, <<[f |-> "first", id |-> w.ids]>>, env, [w EXCEPT !.ids = @ + 1])
Found(r, w) == r.sig = <<"first", w.ids>>

\* The do clause of a loop, once; then the loop goes on.
Do(e, env, w) ==
  LET r == First(e, env, w) IN
  IF Found(r, w) \/ r.sig = <<"next", env.loop>> THEN Fails(r.world) ELSE r

Inner(env, w) == [env EXCEPT !.loop = w.ids]
OneId(w) == [w EXCEPT !.ids = @ + 1]

\* After a loop: a break is replaced by its expression, outside the loop.
Broken(r, k, env, w) ==
  IF r.sig = <<"break", w.ids>> THEN Solve(r.val, k, env, r.world) ELSE r

-----------------------------------------------------------------------------
Pair(op, a, b) == [f |-> op, e |-> a, env |-> b]

SolveBar(e, k, env, w) ==
  LET n == Len(w.cells) + 1
      r == Solve(e[2], <<[f |-> "flag", cell |-> n]>> \o k, env,
                 [w EXCEPT !.cells = Append(@, 0)])
  IN IF Failed(r) /\ r.world.cells[n] = 1 THEN Solve(e, k, env, r.world) ELSE r

SolveIf(e, k, env, w) ==
  LET b == First(e[2], env, w) IN
  IF Found(b, w) THEN Solve(e[3], k, env, b.world)
  ELSE IF Failed(b) /\ e[4] # <<"empty">> THEN Solve(e[4], k, env, b.world)
  ELSE b

SolveNot(e, k, env, w) ==
  LET b == First(e[2], env, w) IN
  IF Found(b, w) THEN Fails(b.world)
  ELSE IF Failed(b) THEN Deliver(k, 0, b.world) ELSE b

SolveList(e, k, env, w) ==
  LET b == First(e[2], env, w) IN
  IF Found(b, w) \/ Failed(b) THEN Solve(e[3], k, env, b.world) ELSE b

SolveCase(e, k, env, w) ==
  LET b == First(e[2], env, w) IN
  IF ~Found(b, w) THEN b
  ELSE LET x == b.world
           s == Solve(e[3], <<[f |-> "eqv", l |-> b.val],
                              [f |-> "first", id |-> x.ids]>>, env, OneId(x))
       IN IF Found(s, x) THEN Solve(e[4], k, env, s.world)
          ELSE IF Failed(s) /\ e[5] # <<"nodefault">>
                 THEN Solve(e[5], k, env, s.world) ELSE s

SolveEvery(e, k, env, w) ==
  LET in == Inner(env, w) IN
  Broken(Solve(e[2], <<Pair("do", e[3], in)>>, in, OneId(w)), k, env, w)

SolveSuspend(e, k, env, w) ==
  LET in == Inner(env, w) IN
  Broken(Solve(e[2], <<Pair("suspend", e[3], in)>>, in, OneId(w)), k, env, w)

\* while e1 do e2, and until e1 do e2
SolveWhile(e, k, env, w) ==
  LET in == Inner(env, w)
      b  == First(e[2], in, OneId(w))
      found == Found(b, OneId(w))
      goeson == IF e[1] = "while" THEN found ELSE Failed(b)
      d  == IF goeson THEN Do(e[3], in, b.world)
            ELSE IF found THEN Fails(b.world) ELSE b
  IN IF d.sig = <<"next", w.ids>> \/ (goeson /\ Failed(d))
       THEN Solve(e, k, env, d.world) ELSE Broken(d, k, env, w)

SolveRepeat(e, k, env, w) ==
  LET d == Do(e[2], Inner(env, w), OneId(w)) IN
  IF Failed(d) THEN Solve(e, k, env, d.world) ELSE Broken(d, k, env, w)

SolveReturn(e, env, w) ==
  LET b == First(e[2], env, w) IN
  IF Found(b, w) THEN Outcome(<<"return", env.call>>, b.val, b.world)
  ELSE IF Failed(b) THEN Outcome(<<"fail", env.call>>, 0, b.world) ELSE b

Solve(e, k, env, w0) ==
  IF w0.fuel = 0 THEN Outcome(OutOfFuel, 0, w0) ELSE
  LET w == [w0 EXCEPT !.fuel = @ - 1] IN
  CASE e[1] = "int" -> Deliver(k, e[2], w)
    [] e[1] = "empty" -> Deliver(k, 0, w)
    [] e[1] = "arg" -> Deliver(k, env.arg, w)
    [] e[1] = "subject" -> Deliver(k, w.subject, w)
    [] e[1] = "pos" -> Deliver(k, w.pos, w)
    [] e[1] \in {"write", "move"} -> Solve(e[2], <<[f |-> e[1]]>> \o k, env, w)
    [] e[1] = "call" -> Solve(e[2], <<[f |-> "call", body |-> env.proc]>> \o k, env, w)
    [] e[1] \in {"plus", "numlt", "to"} ->
         Solve(e[2], <<[f |-> "left", op |-> e[1], e |-> e[3], env |-> env]>> \o k,
               env, w)
    [] e[1] = "conj" -> Solve(e[2], <<Pair("conj", e[3], env)>> \o k, env, w)
    [] e[1] = "limit" -> Solve(e[3], <<Pair("limit", e[2], env)>> \o k, env, w)
    [] e[1] = "scan" -> Solve(e[2], <<Pair("bscan", e[3], env)>> \o k, env, w)
    [] e[1] = "alt" ->
         LET r == Solve(e[2], k, env, w) IN
         IF Failed(r) THEN Solve(e[3], k, env, r.world) ELSE r
    [] e[1] = "bar" -> SolveBar(e, k, env, w)
    [] e[1] = "if" -> SolveIf(e, k, env, w)
    [] e[1] = "not" -> SolveNot(e, k, env, w)
    [] e[1] = "slist" -> SolveList(e, k, env, w)
    [] e[1] = "case" -> SolveCase(e, k, env, w)
    [] e[1] = "every" -> SolveEvery(e, k, env, w)
    [] e[1] = "suspend" -> SolveSuspend(e, k, env, w)
    [] e[1] \in {"while", "until"} -> SolveWhile(e, k, env, w)
    [] e[1] = "repeat" -> SolveRepeat(e, k, env, w)
    [] e[1] = "break" -> Outcome(<<"break", env.loop>>, e[2], w)
    [] e[1] = "next" -> Outcome(<<"next", env.loop>>, 0, w)
    [] e[1] = "return" -> SolveReturn(e, env, w)
    [] e[1] = "fail" -> Outcome(<<"fail", env.call>>, 0, w)

-----------------------------------------------------------------------------
DeliverMove(k, v, w) ==
  IF w.pos + v \notin 1..(w.subject + 1) THEN Fails(w)
  ELSE LET r == Deliver(k, v, [w EXCEPT !.pos = @ + v]) IN
       IF Failed(r) THEN Fails([r.world EXCEPT !.pos = w.pos]) ELSE r

\* a to b
Count(a, b, k, w) ==
  IF a > b THEN Fails(w)
  ELSE LET r == Deliver(k, a, w) IN
       IF Failed(r) THEN Count(a + 1, b, k, r.world) ELSE r

DeliverRight(op, l, k, v, w) ==
  CASE op = "plus" -> Deliver(k, l + v, w)
    [] op = "numlt" -> IF l < v THEN Deliver(k, v, w) ELSE Fails(w)
    [] op = "to" -> Count(l, v, k, w)

\* A limit starts to count, and counts a result.
DeliverLimit(fr, k, v, w) ==
  LET n == Len(w.cells) + 1
      r == Solve(fr.e, <<[f |-> "count", cell |-> n]>> \o k, fr.env,
                 [w EXCEPT !.cells = Append(@, v)])
  IN IF v = 0 THEN Fails(w)
     ELSE IF r.sig = <<"limit", n>> THEN Fails(r.world) ELSE r

DeliverCount(n, k, v, w) ==
  LET x == [w EXCEPT !.cells[n] = @ - 1]
      r == Deliver(k, v, x)
  IN IF x.cells[n] = 0 /\ Failed(r) THEN Outcome(<<"limit", n>>, 0, r.world) ELSE r

\* The environment of a scan is restored however the scan is left.
DeliverScan(fr, k, v, w) ==
  LET n == Len(w.saved) + 1
      r == Solve(fr.e, <<[f |-> "escan", n |-> n]>> \o k,
                 IF fr.env.scan = 0 THEN [fr.env EXCEPT !.scan = n] ELSE fr.env,
                 [w EXCEPT !.subject = v, !.pos = 1,
                           !.saved = Append(@, [subject |-> w.subject, pos |-> w.pos])])
  IN [r EXCEPT !.world = Exchange(@, n)]

DeliverCall(body, k, v, w) ==
  LET env == [arg |-> v, call |-> w.ids, k |-> k, scan |-> 0, loop |-> 0,
              proc |-> body]
      r == Solve(body, <<[f |-> "end", id |-> w.ids]>>, env, OneId(w))
  IN IF r.sig = <<"return", w.ids>> THEN Deliver(k, r.val, r.world)
     ELSE IF r.sig = <<"fail", w.ids>> THEN Fails(r.world) ELSE r

\* A procedure suspends: what follows its call sees its caller's environment.
DeliverSuspend(fr, v, w) ==
  LET n == fr.env.scan
      r == Deliver(fr.env.k, v, IF n = 0 THEN w ELSE Exchange(w, n))
      x == IF n = 0 THEN r.world ELSE Exchange(r.world, n)
  IN IF Failed(r) THEN Do(fr.e, fr.env, x) ELSE Outcome(r.sig, r.val, x)

Deliver(k, v, w) ==
  LET fr == Head(k)
      rest == Tail(k)
  IN CASE fr.f = "first" -> Outcome(<<"first", fr.id>>, v, w)
       [] fr.f = "end" -> Outcome(<<"fail", fr.id>>, 0, w)
       [] fr.f = "write" -> Deliver(rest, v, [w EXCEPT !.out = Append(@, v)])
       [] fr.f = "move" -> DeliverMove(rest, v, w)
       [] fr.f = "call" -> DeliverCall(fr.body, rest, v, w)
       [] fr.f = "conj" -> Solve(fr.e, rest, fr.env, w)
       [] fr.f = "right" -> DeliverRight(fr.op, fr.l, rest, v, w)
       [] fr.f = "eqv" -> IF fr.l = v THEN Deliver(rest, v, w) ELSE Fails(w)
       [] fr.f = "flag" -> Deliver(rest, v, [w EXCEPT !.cells[fr.cell] = 1])
       [] fr.f = "limit" -> DeliverLimit(fr, rest, v, w)
       [] fr.f = "count" -> DeliverCount(fr.cell, rest, v, w)
       [] fr.f = "do" -> Do(fr.e, fr.env, w)
       [] fr.f = "suspend" -> DeliverSuspend(fr, v, w)
       [] fr.f = "bscan" -> DeliverScan(fr, rest, v, w)
       [] fr.f = "escan" ->
            LET r == Deliver(rest, v, Exchange(w, fr.n))
            IN [r EXCEPT !.world = Exchange(@, fr.n)]
       [] fr.f = "left" ->
            Solve(fr.e, <<[f |-> "right", op |-> fr.op, l |-> v]>> \o rest, fr.env, w)

-----------------------------------------------------------------------------
\* A program: its main procedure, called with null.
Run(prog, fuel) ==
  LET w == [out |-> <<>>, subject |-> 0, pos |-> 1, saved |-> <<>>, cells |-> <<>>,
            ids |-> 1, fuel |-> fuel]
      env == [arg |-> 0, call |-> 0, k |-> <<>>, scan |-> 0, loop |-> 0,
              proc |-> prog.proc]
  IN Solve(prog.main, <<[f |-> "end", id |-> 0]>>, env, w)
=============================================================================
