------------------------------ MODULE Scanning ------------------------------
(***************************************************************************)
(* The matching functions of runtime/fscan.r and the analysis functions of *)
(* fstranl.r, with the subject they scan.  A program calls them, assigns   *)
(* to &subject and &pos between, and resumes the last one that is          *)
(* suspended or leaves it.  A string is a sequence of characters, a cset a *)
(* set of them.                                                            *)
(***************************************************************************)
EXTENDS Integers, FiniteSets, SequencesExt

CONSTANTS
  Null,        \* an argument that is left out
  Bad,         \* an argument that cannot be converted
  Subject,     \* strings that are scanned
  Pattern,     \* strings that are looked for, or Bad
  Cset,        \* csets that are looked for, or Bad
  Place,       \* positions in arguments, or Bad
  Ranges,      \* the last three arguments of an analysis function
  lparcs, rparcs,  \* the other csets of bal
  MaxCalls,    \* bound: suspended calls
  MaxAnalyses, \* bound: calls of analysis functions
  MaxSteps     \* bound: calls, assignments and resumptions

ScanningAssumption ==
  /\ Null # Bad
  /\ \A r \in Ranges : DOMAIN r = {"s", "i", "j"}
  /\ MaxCalls \in Nat /\ MaxAnalyses \in Nat /\ MaxSteps \in Nat

VARIABLES
  subject, pos,  \* &subject and &pos
  suspended,     \* calls that can be resumed, the last one first
  last,          \* the call of the last step, which result it was, and how it ended
  steps, analyses  \* how many steps there were, and calls of analysis functions

vars == <<subject, pos, suspended, last, steps, analyses>>

CvtFail == -99
cvpos(p, len) ==
  CASE p < -len \/ p > len + 1 -> CvtFail
    [] p > 0 /\ p <= len + 1 -> p
    [] OTHER -> len + p + 1

Fails == [outcome |-> "fails"]
runerr(n) == [outcome |-> "error", number |-> n]
Gives(v) == [outcome |-> "gives", value |-> v]

Lower(i, j) == IF i < j THEN i ELSE j

\* str_anal, and the conversion of the first argument after it.  A call has
\* its arguments, and the subject and position at the time.
str_anal(c, number) ==
  LET s == IF c.s = Null THEN c.subject ELSE c.s
      i == IF c.i # Null THEN cvpos(c.i, Len(s)) ELSE IF c.s = Null THEN c.pos ELSE 1
      j == IF c.j = Null THEN Len(s) + 1 ELSE cvpos(c.j, Len(s))
  IN IF c.s = Bad THEN runerr(103)
     ELSE IF c.i = Bad THEN runerr(101)
     ELSE IF i = CvtFail THEN Fails
     ELSE IF c.j = Bad THEN runerr(101)
     ELSE IF j = CvtFail THEN Fails
     ELSE IF c.arg = Bad THEN runerr(number)
     ELSE [outcome |-> "begins", s |-> s, i |-> Lower(i, j), j |-> i + j - Lower(i, j), cnt |-> 0]

-----------------------------------------------------------------------------
\* The bodies.  b is what str_anal gives or a resumption goes on with; a
\* body gives a result and what to go on with.
Ends == [how |-> Fails]
Returns(v) == [how |-> Gives(v)]
Suspends(v, b) == [how |-> Gives(v), next |-> b]

any(b, c) == IF b.i = b.j \/ b.s[b.i] \notin c THEN Ends ELSE Returns(b.i + 1)

many(b, c) ==
  LET i == Min({k \in b.i..b.j - 1 : b.s[k] \notin c} \cup {b.j})
  IN IF i = b.i THEN Ends ELSE Returns(i)

match(b, s1) ==
  IF b.j - b.i < Len(s1) \/ SubSeq(b.s, b.i, b.i + Len(s1) - 1) # s1 THEN Ends
  ELSE Returns(b.i + Len(s1))

upto(b, c) ==
  LET found == {k \in b.i..b.j - 1 : b.s[k] \in c}
  IN IF found = {} THEN Ends ELSE Suspends(Min(found), [b EXCEPT !.i = Min(found) + 1])

find(b, s1) ==
  LET found == {k \in b.i..b.j - Len(s1) : SubSeq(b.s, k, k + Len(s1) - 1) = s1}
  IN IF found = {} THEN Ends ELSE Suspends(Min(found), [b EXCEPT !.i = Min(found) + 1])

\* What a character adds to the count of open parentheses.
Opens(char) == IF char \in lparcs THEN 1 ELSE IF char \in rparcs THEN -1 ELSE 0

bal(b, c1) ==
  LET cnt[k \in b.i..b.j] == IF k = b.i THEN b.cnt ELSE cnt[k - 1] + Opens(b.s[k - 1])
      found == {k \in b.i..(b.j - 1) :
                  cnt[k] = 0 /\ b.s[k] \in c1 /\ \A m \in b.i..k : cnt[m] >= 0}
      first == Min(found)
  IN IF found = {} THEN Ends
     ELSE Suspends(first, [b EXCEPT !.i = first + 1, !.cnt = Opens(b.s[first])])

Body(c, b) ==
  CASE c.fn = "any" -> any(b, c.arg)
    [] c.fn = "many" -> many(b, c.arg)
    [] c.fn = "match" -> match(b, c.arg)
    [] c.fn = "upto" -> upto(b, c.arg)
    [] c.fn = "find" -> find(b, c.arg)
    [] c.fn = "bal" -> bal(b, c.arg)

-----------------------------------------------------------------------------
Init ==
  /\ subject \in Subject
  /\ pos \in 1..Len(subject) + 1
  /\ suspended = <<>>
  /\ last = [how |-> Fails]
  /\ steps = 0 /\ analyses = 0

Step == steps < MaxSteps /\ steps' = steps + 1 /\ UNCHANGED analyses

\* The nth result of call c, after which it may be suspended.
Result(c, nth, r, others) ==
  /\ last' = [call |-> c, nth |-> nth, how |-> r.how]
  /\ suspended' = (IF "next" \in DOMAIN r
                   THEN <<[call |-> c, nth |-> nth, next |-> r.next]>> ELSE <<>>) \o others

Analyze(fn, arg, number) ==
  /\ steps < MaxSteps /\ steps' = steps + 1
  /\ analyses < MaxAnalyses /\ analyses' = analyses + 1
  /\ Len(suspended) < MaxCalls
  /\ \E r \in Ranges :
       LET c == [fn |-> fn, arg |-> arg, s |-> r.s, i |-> r.i, j |-> r.j,
                 subject |-> subject, pos |-> pos]
           b == str_anal(c, number)
       IN Result(c, 1, IF b.outcome = "begins" THEN Body(c, b) ELSE [how |-> b], suspended)
  /\ UNCHANGED <<subject, pos>>

AnyF == \E c \in Cset : Analyze("any", c, 104)
ManyF == \E c \in Cset : Analyze("many", c, 104)
UptoF == \E c \in Cset : Analyze("upto", c, 104)
BalF == \E c \in Cset : Analyze("bal", c, 104)
FindF == \E s1 \in Pattern : Analyze("find", s1, 103)
MatchF == \E s1 \in Pattern : Analyze("match", s1, 103)

ResumeAnalysis ==
  /\ Step
  /\ suspended # <<>> /\ Head(suspended).call.fn \in {"upto", "bal", "find"}
  /\ LET a == Head(suspended)
     IN Result(a.call, a.nth + 1, Body(a.call, a.next), Tail(suspended))
  /\ UNCHANGED <<subject, pos>>

\* tab and move: to position to, and back to where they were.
Spanned(from, to) == SubSeq(subject, Lower(from, to), from + to - Lower(from, to) - 1)
Scan(fn, i, to) ==
  /\ Result([fn |-> fn, arg |-> i, subject |-> subject, pos |-> pos], 1,
            Suspends(Spanned(pos, to), [oldpos |-> pos]), suspended)
  /\ pos' = to
  /\ UNCHANGED subject

NoScan(fn, i, how) ==
  /\ Result([fn |-> fn, arg |-> i, subject |-> subject, pos |-> pos], 1, [how |-> how], suspended)
  /\ UNCHANGED <<subject, pos>>

TabF ==
  /\ Step /\ Len(suspended) < MaxCalls
  /\ \E i \in Place :
       IF i = Bad THEN NoScan("tab", i, runerr(101))
       ELSE IF cvpos(i, Len(subject)) = CvtFail THEN NoScan("tab", i, Fails)
       ELSE Scan("tab", i, cvpos(i, Len(subject)))

MoveF ==
  /\ Step /\ Len(suspended) < MaxCalls
  /\ \E i \in Place :
       IF i = Bad THEN NoScan("move", i, runerr(101))
       ELSE IF i + pos <= 0 \/ i + pos > Len(subject) + 1 THEN NoScan("move", i, Fails)
       ELSE Scan("move", i, pos + i)

PosF ==
  /\ Step
  /\ \E i \in Place :
       NoScan("pos", i, IF i = Bad THEN runerr(101)
                        ELSE IF cvpos(i, Len(subject)) # pos THEN Fails ELSE Gives(pos))

\* Slip: the subject is taken to be as long as it was.
ResumeScan_Unchecked ==
  /\ Step
  /\ suspended # <<>> /\ Head(suspended).call.fn \in {"tab", "move"}
  /\ LET a == Head(suspended)
     IN /\ Result(a.call, 2, Ends, Tail(suspended))
        /\ pos' = a.next.oldpos
  /\ UNCHANGED subject

ResumeScan ==
  /\ Step
  /\ suspended # <<>> /\ Head(suspended).call.fn \in {"tab", "move"}
  /\ LET a == Head(suspended)
     IN IF a.next.oldpos > Len(subject) + 1
        THEN Result(a.call, 2, [how |-> runerr(205)], Tail(suspended)) /\ UNCHANGED pos
        ELSE Result(a.call, 2, Ends, Tail(suspended)) /\ pos' = a.next.oldpos
  /\ UNCHANGED subject

\* The end of an expression leaves what is suspended in it.
Leave ==
  /\ suspended # <<>>
  /\ suspended' = Tail(suspended)
  /\ UNCHANGED <<subject, pos, last, steps, analyses>>

AssignSubject ==
  /\ Step
  /\ subject' \in Subject
  /\ pos' = 1
  /\ UNCHANGED <<suspended, last>>

AssignPos ==
  /\ Step
  /\ \E i \in Place \ {Bad} :
       /\ cvpos(i, Len(subject)) # CvtFail
       /\ pos' = cvpos(i, Len(subject))
  /\ UNCHANGED <<subject, suspended, last>>

Next ==
  \/ AnyF \/ ManyF \/ UptoF \/ BalF \/ FindF \/ MatchF \/ ResumeAnalysis
  \/ TabF \/ MoveF \/ PosF \/ ResumeScan \/ Leave \/ AssignSubject \/ AssignPos

Spec == Init /\ [][Next]_vars

-----------------------------------------------------------------------------
\* Properties.

\* The positions that argument p can be, from the left or from the right.
Positions(p, s, default) ==
  IF p = Null THEN {default} ELSE {k \in 1..Len(s) + 1 : p \in {k, k - Len(s) - 1}}

\* All results of a call, in the order in which they are due.
Ordered(S) == SetToSortSeq(S, <)
Balance(s, i, k) ==
  Cardinality({m \in i..k : s[m] \in lparcs}) - Cardinality({m \in i..k : s[m] \in rparcs \ lparcs})

Results(c) ==
  LET s == IF c.s = Null THEN c.subject ELSE c.s
      ends == {<<i, j>> \in Positions(c.i, s, IF c.s = Null THEN c.pos ELSE 1)
                              \X Positions(c.j, s, Len(s) + 1) : TRUE}
      x == Min(UNION {{e[1], e[2]} : e \in ends})
      y == Max(UNION {{e[1], e[2]} : e \in ends})
      Here(k, t) == k + Len(t) <= y /\ SubSeq(s, k, k + Len(t) - 1) = t
  IN CASE ends = {} -> <<>>
       [] ends # {} /\ c.fn = "upto" -> Ordered({k \in x..y - 1 : s[k] \in c.arg})
       [] ends # {} /\ c.fn = "find" -> Ordered({k \in x..y : Here(k, c.arg)})
       [] ends # {} /\ c.fn = "bal" ->
            Ordered({k \in x..y - 1 : /\ s[k] \in c.arg /\ Balance(s, x, k - 1) = 0
                                      /\ \A m \in x..k - 1 : Balance(s, x, m) >= 0})
       [] ends # {} /\ c.fn = "any" -> IF x < y /\ s[x] \in c.arg THEN <<x + 1>> ELSE <<>>
       [] ends # {} /\ c.fn = "match" -> IF Here(x, c.arg) THEN <<x + Len(c.arg)>> ELSE <<>>
       [] OTHER ->
            Ordered({k \in x + 1..y : /\ \A m \in x..k - 1 : s[m] \in c.arg
                                      /\ k < y => s[k] \notin c.arg})

Analyzes == "call" \in DOMAIN last /\ last.call.fn \in {"any", "many", "match", "upto", "find", "bal"}

(* However calls, resumptions and assignments interleave, an analysis      *)
(* function gives the positions of the string and range it was called      *)
(* with, each once and in order, and then fails; and &pos is a position of *)
(* &subject, also after a tab or move is resumed with another subject.     *)
Scanned ==
  /\ pos \in 1..Len(subject) + 1
  /\ Analyzes /\ last.how.outcome = "gives" =>
       last.nth <= Len(Results(last.call)) /\ last.how.value = Results(last.call)[last.nth]
  /\ Analyzes /\ last.how.outcome = "fails" => last.nth = Len(Results(last.call)) + 1
=============================================================================
