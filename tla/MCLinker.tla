------------------------------ MODULE MCLinker ------------------------------
(***************************************************************************)
(* Linker, Labels and Preprocessor, for TLC.  Two files say of b and of c  *)
(* that it is a record, a procedure, a global variable, or nothing; main   *)
(* and the procedures refer to b, c, the function w and the variable u.    *)
(* Labels is about the code of any procedures.  What is preprocessed has   *)
(* two files too; each kind of program is about a group of directives.  A  *)
(* behaviour is one of part, and the variables of the others rest.         *)
(***************************************************************************)
EXTENDS Linker, TLC

CONSTANTS Label, IntSize, WordSize, BlockWords, MaxPc, MaxJumps,
  SourceFile, FileName, Ident, MaxOpen   \* of Preprocessor

VARIABLES part, pc, codeb, words, labels, within, jumps, target,
          source, translated, pp, bstack, buf, loc, out, reading

labelVars == <<pc, codeb, words, labels, within, jumps, target>>

L == INSTANCE Labels

sourceVars == <<source, translated, pp, bstack, buf, loc, out, reading>>

-----------------------------------------------------------------------------
(***************************************************************************)
(* Source texts for TLC to preprocess.  The lines of a group are in every  *)
(* order, so that conditionals and files may be nested in any way or not   *)
(* at all.                                                                 *)
(***************************************************************************)

Dir(dir, name, arg, n) == [dir |-> dir, name |-> name, arg |-> arg, n |-> n]
Text(ws) == Dir("text", "", ws, 0)
Define(name, ws) == Dir("define", name, ws, 0)
Do(dir, name) == Dir(dir, name, <<>>, 0)
Number(n, name) == Dir("line", name, <<>>, n)

Lines(n, S) == [1..n -> S]
Source(args, main, f) == [args |-> args, lines |-> [main |-> main, f |-> f]]
Alone(S) == {Source(<<"main">>, s, <<>>) : s \in S}

A == <<"a">>

\* Conditionals, and $line in code that is or is not skipped; the longer ones
\* begin with a conditional.
Branches == {Do("ifdef", "a"), Do("ifndef", "a"), Do("else", ""), Do("endif", ""), Text(A)}
Nested ==
  Alone(Lines(4, {Text(A), Define("a", <<"x">>), Do("ifdef", "a"), Do("else", ""),
                  Do("endif", ""), Number(7, "z")}))
  \cup Alone({<<Do("ifdef", "a")>> \o s : s \in Lines(5, Branches)})

\* Definitions that use themselves, each other, or nothing.
Bodies == {Define("a", <<"b">>), Define("a", <<"a", "x", "b">>), Define("b", A),
           Define("b", <<"q", "a", "q">>), Define("b", <<>>), Do("undef", "a")}
Expanded ==
  Alone({s \o <<Text(t)>> : s \in Lines(3, Bodies),
                             t \in {A, <<"a", "x", "b">>, <<"q", "a", "q", "b">>}})

\* A file that the other one includes, and that is translated before it.
Including ==
  {Source(<<"f", "main">>, s, t) :
     s \in Lines(3, {Text(A), Do("include", "f"), Do("include", "main"), Do("ifdef", "a"),
                     Do("endif", ""), Define("a", <<"x">>)}),
     t \in Lines(2, {Text(A), Do("endif", ""), Do("ifndef", "a"), Do("undef", "a"),
                     Do("include", "main"), Number(3, ""), Define("a", <<"b">>)})}

\* Continued literals, directives in error, and names given to files, of which
\* one is the name of no file.
Others ==
  Alone(Lines(3, {Text(<<"q", "x">>), Text(<<"a", "q", "a">>), Define("a", <<"x">>),
                  Do("error", ""), Do("pragma", ""), Do("ifdef", ""), Do("endif", ""),
                  Do("include", "z"), Do("include", "main"), Number(1, "main"), Number(4, "f"),
                  Number(4, "z")}))

NoSource == Source(<<"main">>, <<>>, <<>>)

Sources == {NoSource} \cup Nested \cup Expanded \cup Including \cup Others

PP == INSTANCE Preprocessor
       WITH File <- SourceFile, Program <- Sources, lf <- translated, phase <- reading

-----------------------------------------------------------------------------
(* Ucode for TLC to link. *)

f1 == "f1"
f2 == "f2"
FieldsOf == [b |-> <<"x", "y">>, c |-> <<"y", "z">>]

\* What a file says of a name.
Sayings == {"nothing", "global", "record", "procedure"}

\* The variables of main and of procedures b and c, after one static.
Local0(n) == [name |-> n, flag |-> {}]
Static == [name |-> "s", flag |-> {"Static"}]
Uses == [main : SUBSET {"b", "c"}, b : {{}, {"c", "w"}}, c : {{}, {"b", "u"}}]

AllVars(locals) == [i \in DOMAIN locals |-> [op |-> "var", arg |-> i]]
AllFields == <<[op |-> "field", arg |-> "x"], [op |-> "field", arg |-> "y"], [op |-> "field", arg |-> "z"]>>

Procedure(n, used) ==
  LET locals == <<Static>> \o SetToSeq({Local0(m) : m \in used})
  IN [name |-> n, locals |-> locals,
      code |-> AllVars(locals) \o (IF n = Main THEN AllFields ELSE <<>>)]

\* A file that mentions the names in this order; main, if it is there, is last.
Ucode(says, order, uses, main, links, invocable) ==
  LET Which(S) == SelectSeq(order, LAMBDA n : says[n] \in S)
      Flag(n) == CASE says[n] = "procedure" -> {"Proc", "Global"}
                   [] says[n] = "record" -> {"Record", "Global"}
                   [] OTHER -> {"Global"}
      declared == Which({"global", "record", "procedure"})
      procs == Which({"procedure"})
      withMain == IF main THEN <<Main>> ELSE <<>>
  IN [records |-> [i \in DOMAIN Which({"record"}) |->
                     [name |-> Which({"record"})[i], fields |-> FieldsOf[Which({"record"})[i]]]],
      links |-> links,
      invocable |-> invocable,
      globals |-> [i \in DOMAIN (declared \o withMain) |->
                     IF i <= Len(declared) THEN [name |-> declared[i], flag |-> Flag(declared[i])]
                     ELSE [name |-> Main, flag |-> {"Proc", "Global"}]],
      procs |-> [i \in DOMAIN (procs \o withMain) |->
                   LET n == (procs \o withMain)[i] IN Procedure(n, uses[n])]]

\* The second file may mention the names in the other order.
Order == <<"b", "c">>
Orders == {Order, Reverse(Order)}

\* The command line names either file first or both, and either links the other.
Commands == {<<<<f1>>, <<f2>>, <<>>>>, <<<<f2, f1>>, <<>>, <<>>>>, <<<<f1, f1>>, <<f2, f1>>, <<f1>>>>}

Programs ==
  {[args |-> cmd[1],
    ucode |-> (f1 :> Ucode(says1, Order, uses, TRUE, cmd[2], inv)) @@
              (f2 :> Ucode(says2, order, uses, FALSE, cmd[3], {}))] :
     cmd \in Commands, order \in Orders, uses \in Uses,
     inv \in {{}, {"b"}, {All}},
     says1 \in [{"b", "c"} -> Sayings], says2 \in [{"b", "c"} -> Sayings]}

NoProgram ==
  [args |-> <<f1>>,
   ucode |-> [f \in {f1, f2} |->
                Ucode([n \in {"b", "c"} |-> "nothing"], Order, [main |-> {}], f = f1,
                      IF f = f1 THEN <<f2>> ELSE <<>>, {})]]

-----------------------------------------------------------------------------
ASSUME Assumptions == LinkerAssumption /\ L!LabelsAssumption /\ PP!PreprocessorAssumption

EitherInit ==
  /\ L!Init
  /\ \/ part = "tables" /\ source = NoSource /\ PP!Init /\ Init
     \/ part = "labels" /\ source = NoSource /\ PP!Init /\ program = NoProgram /\ Init
     \/ part = "source" /\ program = NoProgram /\ Init /\ PP!Init

EitherNext ==
  /\ UNCHANGED part
  /\ \/ part = "tables" /\ Next /\ UNCHANGED <<labelVars, sourceVars>>
     \/ part = "labels" /\ L!Next /\ UNCHANGED <<vars, sourceVars>>
     \/ part = "source" /\ PP!Next /\ UNCHANGED <<vars, labelVars>>

EitherSpec == EitherInit /\ [][EitherNext]_<<part, vars, labelVars, sourceVars>>

\* Preprocessor!Preprocessed: the lexical analyzer gets what it should.
Preprocessed == PP!Preprocessed

\* Labels!JumpsLand: every jump goes to its label.
JumpsLand == L!JumpsLand

\* Labels are interchangeable.
Interchangeable == Permutations(Label)
=============================================================================
