-------------------------- MODULE StringFunctions --------------------------
(***************************************************************************)
(* The functions of runtime/fstr.r that make strings: center, left, right, *)
(* repl, reverse, trim, detab and entab.  (map is in MapCache.)  A string  *)
(* is a sequence of characters.  Each behaviour is one call.               *)
(***************************************************************************)
EXTENDS Integers, FiniteSets, SequencesExt

CONSTANTS
  Call,         \* the calls, records whose fields depend on the function
  TabInterval,  \* between tab stops, when none are given: 8
  MaxLong,      \* the largest word
  MaxRepl       \* bound: length of a result of repl

StringFunctionsAssumption == TabInterval \in Nat \ {0} /\ MaxRepl \in 1..MaxLong

VARIABLES call, result

vars == <<call, result>>

Blank == " "
Tab == "\t"
Newline == "\n"
Backspace == "back"
Bell == "bell"     \* stands for what is not printable
Moving == {Tab, Newline, Backspace, Bell}

String(s) == [outcome |-> "string", s |-> s]
runerr(n) == [outcome |-> "error", number |-> n]
None == [outcome |-> "none"]
Wild == [outcome |-> "wild"]    \* what is written is not the result's

-----------------------------------------------------------------------------
\* Padding.  Copies of p, the first from the left or the last from the right.
FromLeft(p, n) == [k \in 1..n |-> p[((k - 1) % Len(p)) + 1]]
FromRight(p, n) == [k \in 1..n |-> p[Len(p) - ((n - k) % Len(p))]]

\* s is copied to buf, from index at on.
Copied(buf, s, at) ==
  [k \in DOMAIN buf |-> IF k \in at..at + Len(s) - 1 THEN s[k - at + 1] ELSE buf[k]]

Padding(c) == IF c.pad = <<>> THEN <<Blank>> ELSE c.pad

left(c) ==
  IF c.n <= Len(c.s) THEN SubSeq(c.s, 1, c.n)
  ELSE Copied(FromRight(Padding(c), c.n), c.s, 1)

right(c) ==
  IF c.n <= Len(c.s) THEN SubSeq(c.s, Len(c.s) - c.n + 1, Len(c.s))
  ELSE Copied(FromLeft(Padding(c), c.n), c.s, c.n - Len(c.s) + 1)

\* Slip: where n is even and *s odd is not considered.
center_Even(c) ==
  LET slen == Len(c.s)
      drop == (slen - c.n + 1) \div 2
      hcnt == c.n \div 2
  IN IF c.n <= slen THEN SubSeq(c.s, drop + 1, drop + c.n)
     ELSE Copied(FromLeft(Padding(c), hcnt) \o FromRight(Padding(c), c.n - hcnt),
                 c.s, hcnt - (slen \div 2) + 1)

center(c) ==
  LET slen == Len(c.s)
      drop == (slen - c.n + 1) \div 2
      hcnt == c.n \div 2
      odd == IF c.n % 2 = 0 /\ slen % 2 = 1 THEN 1 ELSE 0
  IN IF c.n <= slen THEN SubSeq(c.s, drop + 1, drop + c.n)
     ELSE Copied(FromLeft(Padding(c), hcnt) \o FromRight(Padding(c), c.n - hcnt),
                 c.s, hcnt - slen \div 2 - odd + 1)

\* FstrSetup
Padded(c, s) == IF c.n < 0 THEN runerr(205) ELSE String(s)

-----------------------------------------------------------------------------
\* Tabs.  A position has a column, how many of the stops are behind, the last
\* of these but one, and the interval after the last.
StartOfLine(t) == [t EXCEPT !.tab = 0, !.last = 1]
Begin(stops) == [col |-> 1, tab |-> 0, last |-> 1, out |-> <<>>,
                 interval |-> IF stops = <<>> THEN TabInterval ELSE 0]

\* C's remainder has the sign of a.
Rem(a, b) == IF a >= 0 THEN a % b ELSE -((-a) % b)

RECURSIVE nxttab(_, _)
nxttab(t, stops) ==
  LET passed == t.tab + 1
      behind == passed <= Len(stops) /\ t.col >= stops[passed]
  IN CASE behind /\ passed = Len(stops) ->
            nxttab([t EXCEPT !.tab = passed, !.interval = stops[passed] - t.last], stops)
       [] behind /\ passed < Len(stops) ->
            nxttab([t EXCEPT !.tab = passed, !.last = stops[passed]], stops)
       [] ~behind /\ passed <= Len(stops) -> [t EXCEPT !.col = stops[passed]]
       [] OTHER -> [t EXCEPT !.col = @ + t.interval - Rem(@ - t.last, t.interval)]

\* What a character other than a tab does to the position.
Moved(t, c) ==
  CASE c = Backspace -> StartOfLine([t EXCEPT !.col = @ - 1])
    [] c = Newline -> StartOfLine([t EXCEPT !.col = 1])
    [] c = Bell -> t
    [] OTHER -> [t EXCEPT !.col = @ + 1]

Spaces(n) == [k \in 1..n |-> Blank]

BadStops(stops) ==
  \/ \E j \in 2..Len(stops) : stops[j] <= stops[j - 1]
  \/ stops # <<>> /\ stops[1] <= 1

detab(s, stops) ==
  LET Step(t, c) ==
        IF c = Tab THEN [nxttab(t, stops) EXCEPT !.out = @ \o Spaces(nxttab(t, stops).col - t.col)]
        ELSE [Moved(t, c) EXCEPT !.out = Append(@, c)]
  IN FoldLeft(Step, Begin(stops), s).out

\* while (nt <= target): nt is at column nt, the text written to column col.
RECURSIVE PutTabs(_, _, _, _)
PutTabs(nt, col, target, stops) ==
  IF nt.col <= target
  THEN PutTabs(nxttab([nt EXCEPT !.out = Append(@, Tab)], stops), nt.col, target, stops)
  ELSE [nt EXCEPT !.out = @ \o Spaces(target - col), !.col = target]

\* A run of blanks up to target.
PutRun(t, target, stops) ==
  LET nt == nxttab(t, stops)
      nt1 == nxttab(nt, stops)
  IN CASE target - t.col = 1 -> [t EXCEPT !.out = Append(@, Blank), !.col = target]
       [] target - t.col > 1 /\ nt.col = t.col + 1 /\ nt1.col > target ->
            PutTabs([nt1 EXCEPT !.out = Append(@, Blank)], t.col + 1, target, stops)
       [] target - t.col > 1 /\ nt.col = t.col + 1 /\ nt1.col <= target ->
            PutTabs([nt1 EXCEPT !.col = nt.col], t.col, target, stops)
       [] OTHER -> PutTabs(nt, t.col, target, stops)

RECURSIVE EntabFrom(_, _, _)
EntabFrom(t, s, stops) ==
  LET others == {k \in DOMAIN s : s[k] # Blank}
      run == IF others = {} THEN Len(s) ELSE Min(others) - 1
      rest(n) == SubSeq(s, n + 1, Len(s))
  IN CASE s = <<>> -> t.out
       [] run > 0 -> EntabFrom(PutRun(t, t.col + run, stops), rest(run), stops)
       [] OTHER ->
            LET u == IF s[1] = Tab THEN nxttab(t, stops) ELSE Moved(t, s[1])
            IN EntabFrom([u EXCEPT !.out = Append(@, s[1])], rest(1), stops)

entab(s, stops) == EntabFrom(Begin(stops), s, stops)

-----------------------------------------------------------------------------
\* repl multiplies words, which wrap.
Wrapped(n) == ((n + MaxLong + 1) % (2 * MaxLong + 2)) - MaxLong - 1

repl(s, n) ==
  LET size == Wrapped(n * Len(s))
  IN CASE n < 0 \/ size > MaxRepl -> runerr(205)
       [] n >= 0 /\ size # n * Len(s) /\ size <= MaxRepl -> Wild
       [] OTHER -> String(FlattenSeq([k \in 1..n |-> s]))

\* Characters are exchanged from both ends.
Reversed(s) == [k \in DOMAIN s |-> s[Len(s) + 1 - k]]

trim(s, c) ==
  LET kept == {k \in DOMAIN s : s[k] \notin c}
  IN SubSeq(s, 1, IF kept = {} THEN 0 ELSE Max(kept))

-----------------------------------------------------------------------------
Init == call \in Call /\ result = None

Function(fn, r) == call.fn = fn /\ result = None /\ result' = r /\ UNCHANGED call

Tabbed(s) == IF BadStops(call.stops) THEN runerr(210) ELSE String(s)

Left == Function("left", Padded(call, left(call)))
Right == Function("right", Padded(call, right(call)))
Center == Function("center", Padded(call, center(call)))
Detab == Function("detab", Tabbed(detab(call.s, call.stops)))
Entab == Function("entab", Tabbed(entab(call.s, call.stops)))
Repl == Function("repl", repl(call.s, call.n))
ReverseS == Function("reverse", String(Reversed(call.s)))
Trim == Function("trim", String(trim(call.s, call.c)))

Next == Left \/ Right \/ Center \/ Detab \/ Entab \/ Repl \/ ReverseS \/ Trim

Spec == Init /\ [][Next]_vars

-----------------------------------------------------------------------------
\* Properties.

Margins(s, l, r) == SubSeq(s, l + 1, Len(s) - r)
IsPadded(s, c, l, r) ==
  /\ Len(s) = c.n
  /\ s = FromLeft(Padding(c), l) \o c.s \o FromRight(Padding(c), r)

(* The result has n characters, with s at the side or in the middle, or    *)
(* the part of s that is there; left margins are copies of the padding     *)
(* from the left end, right margins from the right end, so that columns of *)
(* padding line up.  What cannot be in the middle is to the left of it.    *)
PaddingRight(s, c) ==
  LET n == c.n - Len(c.s)
      size == IF n < 0 THEN -n ELSE n
      befores == CASE c.fn = "left" -> {0}
                   [] c.fn = "right" -> {size}
                   [] OTHER -> {(IF n < 0 THEN size + 1 ELSE size) \div 2}
  IN \E before \in befores :
       IF n >= 0 THEN IsPadded(s, c, before, n - before)
       ELSE s = Margins(c.s, before, size - before)

\* Where the stops are: after the last one, as far apart as that from the one
\* before it.
IsStop(k, stops) ==
  LET n == Len(stops)
      gap == IF n > 1 THEN stops[n] - stops[n - 1] ELSE stops[n] - 1
  IN IF stops = <<>> THEN (k - 1) % TabInterval = 0
     ELSE k \in ToSet(stops) \/ (k > stops[n] /\ (k - stops[n]) % gap = 0)
StopAfter(k, stops) ==
  CHOOSE m \in 2..k + 2 * TabInterval + 8 :
    /\ m > k /\ IsStop(m, stops)
    /\ \A j \in 2..m - 1 : j > k => ~IsStop(j, stops)

\* What a terminal shows: the visible characters and where they are.
Shown(s, stops) ==
  LET Step(p, c) ==
        CASE c = Tab -> [p EXCEPT !.col = StopAfter(@, stops)]
          [] c = Newline -> [p EXCEPT !.line = @ + 1, !.col = 1]
          [] c = Backspace -> [p EXCEPT !.col = @ - 1]
          [] c = Blank -> [p EXCEPT !.col = @ + 1]
          [] c = Bell -> [p EXCEPT !.seen = Append(@, c)]
          [] OTHER -> [p EXCEPT !.seen = Append(@, <<c, p.line, p.col>>), !.col = @ + 1]
  IN FoldLeft(Step, [line |-> 1, col |-> 1, seen |-> <<>>], s)

\* No run of blanks from column a to b could be made shorter by tabs.
NoShorter(s, stops) ==
  \A i, j \in DOMAIN s :
    i < j /\ (\A k \in i..j : s[k] = Blank) =>
      LET a == Shown(SubSeq(s, 1, i - 1), stops).col
          b == a + j - i + 1
          inside == {k \in a + 1..b : k > 1 /\ IsStop(k, stops)}
      IN inside = {} \/ Cardinality(inside) + b - Max(inside) >= j - i + 1

\* No backspace in the first column.
OnScreen(s, stops) == \A k \in DOMAIN s : Shown(SubSeq(s, 1, k), stops).col > 0

TabsRight(s, c) ==
  /\ OnScreen(c.s, c.stops) => Shown(s, c.stops) = Shown(c.s, c.stops)
  /\ c.fn = "detab" => Tab \notin ToSet(s)
  /\ c.fn = "entab" => Len(s) <= Len(c.s) /\ NoShorter(s, c.stops)

(* Each function makes the string it is said to: the padded one; one that  *)
(* looks the same on a terminal with these stops, without tabs, or with as *)
(* few blanks as possible; n copies, or the beginning up to the last       *)
(* character that stays.                                                   *)
Made ==
  result.outcome = "string" =>
    LET s == result.s IN
    CASE call.fn \in {"left", "right", "center"} -> PaddingRight(s, call)
      [] call.fn \in {"detab", "entab"} -> TabsRight(s, call)
      [] call.fn = "repl" ->
           /\ Len(s) = call.n * Len(call.s) /\ Len(s) <= MaxRepl
           /\ \A k \in DOMAIN s : s[k] = call.s[((k - 1) % Len(call.s)) + 1]
      [] call.fn = "reverse" -> Reverse(s) = call.s
      [] OTHER ->
           /\ IsPrefix(s, call.s) /\ (s # <<>> => Last(s) \notin call.c)
           /\ \A k \in Len(s) + 1..Len(call.s) : call.s[k] \in call.c

(* "Make sure the resulting string will not be too long": repl.            *)
NotTooLong == result # Wild
=============================================================================
