------------------------------- MODULE Icode -------------------------------
(***************************************************************************)
(* The code that icont generates for expressions (tcode.c).                *)
(*                                                                         *)
(* An expression is a tuple: the name of its node and its operands.  A     *)
(* label is the place of a node in the tree and a number; "lab" is the     *)
(* pseudo-instruction that defines it.  Values are integers, 0 for null,   *)
(* and a program has one procedure, with one parameter, besides main.      *)
(***************************************************************************)
EXTENDS Integers, Sequences, SequencesExt

Op(o) == [op |-> o, opnd |-> 0, lab |-> <<>>]
OpN(o, n) == [op |-> o, opnd |-> n, lab |-> <<>>]
OpL(o, p, n) == [op |-> o, opnd |-> 0, lab |-> p \o <<0, n>>]

\* loopstk, outermost loop first; the first entry is that of N_Proc.
Loop(p, next, brk, every) ==
  [nextlab |-> p \o <<0, next>>, breaklab |-> p \o <<0, brk>>,
   markcount |-> 1, every |-> every]
NoLoop == [nextlab |-> <<>>, breaklab |-> <<>>, markcount |-> 0, every |-> FALSE]

Marked(c) == Append(Front(c), [Last(c) EXCEPT !.markcount = @ + 1])

Empty == <<"empty">>

RECURSIVE Traverse(_, _, _)
Child(e, i, p, c) == Traverse(e[i + 1], Append(p, i), c)

-----------------------------------------------------------------------------
N_Alt(e, p, c) ==
  <<OpL("mark", p, 1)>> \o Child(e, 1, p, Marked(c))
    \o <<Op("esusp"), OpL("goto", p, 2), OpL("lab", p, 1)>>
    \o Child(e, 2, p, c) \o <<OpL("lab", p, 2)>>

N_Binop(e, p, c) ==
  <<Op("pnull")>> \o Child(e, 1, p, c) \o Child(e, 2, p, c) \o <<Op(e[1])>>

N_To(e, p, c) ==
  <<Op("pnull")>> \o Child(e, 1, p, c) \o Child(e, 2, p, c)
    \o <<OpN("int", 1), Op("toby")>>

N_Bar_NoMark0(e, p, c) ==
  <<OpL("lab", p, 1), OpL("mark", p, 1)>> \o Child(e, 1, p, Marked(c))
    \o <<OpL("chfail", p, 1), Op("esusp")>>

N_Bar(e, p, c) ==
  <<OpL("lab", p, 1), Op("mark0")>> \o Child(e, 1, p, Marked(c))
    \o <<OpL("chfail", p, 1), Op("esusp")>>

N_Conj(e, p, c) == Child(e, 1, p, c) \o <<Op("pop")>> \o Child(e, 2, p, c)

N_Limit(e, p, c) ==
  Child(e, 2, p, c) \o <<Op("limit")>> \o Child(e, 1, p, Marked(c))
    \o <<Op("lsusp")>>

N_If(e, p, c) ==
  IF e[4] = Empty
    THEN <<Op("mark0")>> \o Child(e, 1, p, Marked(c)) \o <<Op("unmark")>>
           \o Child(e, 2, p, c)
    ELSE <<OpL("mark", p, 1)>> \o Child(e, 1, p, Marked(c)) \o <<Op("unmark")>>
           \o Child(e, 2, p, c) \o <<OpL("goto", p, 2), OpL("lab", p, 1)>>
           \o Child(e, 3, p, c) \o <<OpL("lab", p, 2)>>

N_Not(e, p, c) ==
  <<OpL("mark", p, 1)>> \o Child(e, 1, p, Marked(c))
    \o <<Op("unmark"), Op("efail"), OpL("lab", p, 1), Op("pnull")>>

N_Slist(e, p, c) ==
  <<OpL("mark", p, 1)>> \o Child(e, 1, p, Marked(c))
    \o <<Op("unmark"), OpL("lab", p, 1)>> \o Child(e, 2, p, c)

\* case e1 of { e2: e3; default: e4 }, or without the default clause
N_Case(e, p, c) ==
  <<Op("mark0")>> \o Child(e, 1, p, Marked(c)) \o <<Op("eret")>>
    \o <<OpL("mark", p, 1), Op("ccase")>> \o Child(e, 2, p, Marked(c))
    \o <<Op("eqv"), Op("unmark"), Op("pop")>> \o Child(e, 3, p, c)
    \o <<OpL("goto", p, 2), OpL("lab", p, 1)>>
    \o (IF e[5] = <<"nodefault">> THEN <<Op("efail")>>
                                  ELSE <<Op("pop")>> \o Child(e, 4, p, c))
    \o <<OpL("lab", p, 2)>>

-----------------------------------------------------------------------------
(* Loops.  The do clause of every and suspend is compiled as the body of   *)
(* another kind of loop, of which next leaves the marks.                   *)
DoClause(e, p, c) ==
  IF e[3] = Empty THEN <<>>
  ELSE <<Op("mark0")>>
         \o Child(e, 2, p, Marked(Append(Front(c), [Last(c) EXCEPT !.every = FALSE])))
         \o <<Op("unmark")>>

N_Every(e, p, c) ==
  LET l == Append(c, Loop(p, 1, 2, TRUE)) IN
  <<Op("mark0")>> \o Child(e, 1, p, l) \o <<Op("pop")>> \o DoClause(e, p, l)
    \o <<OpL("lab", p, 1), Op("efail"), OpL("lab", p, 2)>>

N_Suspend(e, p, c) ==
  LET l == Append(c, Loop(p, 1, 2, TRUE)) IN
  <<Op("mark0")>> \o Child(e, 1, p, l) \o <<Op("psusp"), Op("pop")>>
    \o DoClause(e, p, l)
    \o <<OpL("lab", p, 1), Op("efail"), OpL("lab", p, 2)>>

N_While(e, p, c) ==
  LET l == Append(c, Loop(p, 2, 3, FALSE)) IN
  <<OpL("lab", p, 1), Op("mark0")>> \o Child(e, 1, p, l)
    \o (IF e[3] = Empty THEN <<>>
        ELSE <<Op("unmark"), OpL("mark", p, 1)>> \o Child(e, 2, p, l))
    \o <<OpL("lab", p, 2), Op("unmark"), OpL("goto", p, 1), OpL("lab", p, 3)>>

N_Until(e, p, c) ==
  LET l == Append(c, Loop(p, 3, 4, FALSE)) IN
  <<OpL("lab", p, 1), OpL("mark", p, 2)>> \o Child(e, 1, p, l)
    \o <<Op("unmark"), Op("efail"), OpL("lab", p, 2), OpL("mark", p, 1)>>
    \o Child(e, 2, p, l)
    \o <<OpL("lab", p, 3), Op("unmark"), OpL("goto", p, 1), OpL("lab", p, 4)>>

N_Repeat(e, p, c) ==
  LET l == Append(c, Loop(p, 2, 3, FALSE)) IN
  <<OpL("lab", p, 1), OpL("mark", p, 1)>> \o Child(e, 1, p, l)
    \o <<OpL("lab", p, 2), Op("unmark"), OpL("goto", p, 1), OpL("lab", p, 3)>>

Unmarks(n) == [i \in 1..n |-> Op("unmark")]

N_Break(e, p, c) ==
  Unmarks(Last(c).markcount) \o Child(e, 1, p, Front(c))
    \o <<[Op("goto") EXCEPT !.lab = Last(c).breaklab]>>

N_Next(c) ==
  (IF Last(c).every THEN <<>> ELSE Unmarks(Last(c).markcount - 1))
    \o <<[Op("goto") EXCEPT !.lab = Last(c).nextlab]>>

-----------------------------------------------------------------------------
(* Invocation of write(e), move(e) or the procedure, p(e). *)
N_Invok(e, p, c) ==
  <<Op("var")>> \o Child(e, 1, p, c)
    \o <<IF e[1] = "call" THEN [Op("invoke") EXCEPT !.lab = <<1, 0, 0>>]
                          ELSE Op(e[1])>>

N_Ret(e, p, c) ==
  IF e[1] = "fail" THEN <<Op("pfail")>>
  ELSE <<OpL("mark", p, 1)>> \o Child(e, 1, p, Marked(c))
         \o <<Op("pret"), OpL("lab", p, 1), Op("pfail")>>

N_Scan(e, p, c) ==
  Child(e, 1, p, c) \o <<Op("bscan")>> \o Child(e, 2, p, c) \o <<Op("escan")>>

Traverse(e, p, c) ==
  CASE e[1] = "int" -> <<OpN("int", e[2])>>
    [] e[1] = "empty" -> <<Op("pnull")>>
    [] e[1] \in {"arg", "subject", "pos"} -> <<Op(e[1])>>
    [] e[1] \in {"write", "move", "call"} -> N_Invok(e, p, c)
    [] e[1] \in {"plus", "numlt"} -> N_Binop(e, p, c)
    [] e[1] = "to" -> N_To(e, p, c)
    [] e[1] = "alt" -> N_Alt(e, p, c)
    [] e[1] = "bar" -> N_Bar(e, p, c)
    [] e[1] = "conj" -> N_Conj(e, p, c)
    [] e[1] = "limit" -> N_Limit(e, p, c)
    [] e[1] = "if" -> N_If(e, p, c)
    [] e[1] = "not" -> N_Not(e, p, c)
    [] e[1] = "slist" -> N_Slist(e, p, c)
    [] e[1] = "case" -> N_Case(e, p, c)
    [] e[1] = "every" -> N_Every(e, p, c)
    [] e[1] = "suspend" -> N_Suspend(e, p, c)
    [] e[1] = "while" -> N_While(e, p, c)
    [] e[1] = "until" -> N_Until(e, p, c)
    [] e[1] = "repeat" -> N_Repeat(e, p, c)
    [] e[1] = "break" -> N_Break(e, p, c)
    [] e[1] = "next" -> N_Next(c)
    [] e[1] \in {"return", "fail"} -> N_Ret(e, p, c)
    [] e[1] = "scan" -> N_Scan(e, p, c)

\* A procedure body is a list of expressions that ends with an empty one.
N_Proc(body, n) ==
  <<OpL("lab", <<n>>, 0)>>
    \o Traverse(<<"slist", body, Empty>>, <<n>>, <<NoLoop>>) \o <<Op("pfail")>>

\* main's code and that of the procedure, after the code that invokes main.
CodeOf(prog) ==
  <<[Op("invoke") EXCEPT !.lab = <<0, 0, 0>>], Op("quit")>>
    \o N_Proc(prog.main, 0) \o N_Proc(prog.proc, 1)

Target(code, lab) ==
  CHOOSE i \in 1..Len(code) : code[i].op = "lab" /\ code[i].lab = lab
=============================================================================
