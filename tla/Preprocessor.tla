---------------------------- MODULE Preprocessor ----------------------------
(***************************************************************************)
(* The preprocessor (common/ipp.c) as the lexical analyzer sees it:        *)
(* directives, nested files, skipped code, and definitions that are        *)
(* expanded while the characters of a line are asked for.  A line is a     *)
(* directive or a text of words: identifiers, quotes, and others that only *)
(* separate these.  Comments, and the search for files along a path, are   *)
(* left out.                                                               *)
(***************************************************************************)
EXTENDS Integers, FiniteSets, SequencesExt

CONSTANTS
  File,      \* names of the files that there are; elements of FileName
  FileName,  \* names that directives mention
  Ident,     \* identifiers
  Program,   \* the files of the command line, and the lines of each file
  MaxOpen    \* how many files can be open at a time

PreprocessorAssumption ==
  /\ File \subseteq FileName
  /\ \A p \in Program : p.args \in Seq(File) \ {<<>>} /\ DOMAIN p.lines = File
  /\ MaxOpen \in Nat \ {0}

VARIABLES
  source,  \* the program; it does not change
  lf,      \* which file of the command line is translated
  pp,      \* open files, definitions, nesting and messages: see ppinit
  bstack,  \* buffers to which to return, with the definition expanded above
  buf,     \* the words to come, of which the first ready ones are preprocessed
  loc,     \* where the lexical analyzer believes it is
  out,     \* the words it has got, each with the place it was at
  phase    \* "open" or "eof"

vars == <<source, lf, pp, bstack, buf, loc, out, phase>>

Quote == "q"
Newline == "nl"
IsIdent(w) == w \in Ident

\* A place in a file.  A buffer may begin with the words of a #line comment,
\* as pushline makes it, already scanned.
Place(fname, lno) == [fname |-> fname, lno |-> lno]
NoPlace == Place("", -1)
Buffer(n, ws) == [ready |-> n, words |-> ws, line |-> NoPlace]
EmptyLine == Buffer(1, <<Newline>>)
pushline(f) == [EmptyLine EXCEPT !.line = Place(f.fname, f.lno)]

curfile(p) == Last(p.files)
SetCurfile(p, f) == [p EXCEPT !.files[Len(p.files)] = f]
LinesOf(p) == source.lines[curfile(p).file]
AtEof(p) == curfile(p).at = Len(LinesOf(p))

pfatal(p, msg) ==
  [p EXCEPT !.fatals = Append(@, [msg |-> msg, fname |-> curfile(p).fname, lno |-> curfile(p).lno])]

\* What a handler returns: the state, and what the buffer has instead of the line.
Does(p, b) == [p |-> p, buf |-> b]
Complains(p, msg) == Does(pfatal(p, msg), EmptyLine)

Defined(p, w) == w \in DOMAIN p.cbin

-----------------------------------------------------------------------------
\* Files.

Opened(p, fname) == [p EXCEPT !.files = Append(@, [file |-> fname, at |-> 0, fname |-> fname,
                                                  lno |-> 0, ifdepth |-> p.ifdepth])]

\* pathfind opens the file to see whether it can be read, and closes it again,
\* before ppopen compares its name with those of the open files.
CanRead(fname, open) == fname \in File /\ open < MaxOpen

include(p, fname) ==
  CASE ~CanRead(fname, Len(p.files)) -> Complains(p, "cannot open")
    [] CanRead(fname, Len(p.files)) /\ fname \in {p.files[i].fname : i \in DOMAIN p.files} ->
         Complains(p, "circular include")
    [] OTHER -> Does(Opened(p, fname), pushline(curfile(Opened(p, fname))))

ReadLine(p) == SetCurfile(p, [curfile(p) EXCEPT !.at = @ + 1, !.lno = @ + 1])

setline(p, d) ==
  LET f == [curfile(p) EXCEPT !.lno = d.n, !.fname = IF d.name = "" THEN @ ELSE d.name]
  IN Does(SetCurfile(p, f), pushline(f))

-----------------------------------------------------------------------------
\* Conditionals.

\* skipcode(doelse, 1), with its nested calls of skipcode(0, 0) as a level.
SkipLine(s, d, doelse) ==
  LET p == ReadLine(s.p)
      deeper == [p EXCEPT !.ifdepth = @ + 1]
      up == [p EXCEPT !.ifdepth = @ - 1]
  IN CASE s.over -> s
       [] ~s.over /\ d.dir = "line" ->
            [s EXCEPT !.p = setline(p, d).p, !.buf = setline(p, d).buf]
       [] ~s.over /\ d.dir \in {"ifdef", "ifndef"} -> [s EXCEPT !.p = deeper, !.level = @ + 1]
       [] ~s.over /\ d.dir = "endif" ->
            [s EXCEPT !.p = up, !.level = @ - 1, !.over = s.level = 0,
                      !.buf = IF s.level = 0 THEN pushline(curfile(p)) ELSE @]
       [] ~s.over /\ d.dir = "else" /\ doelse /\ s.level = 0 ->
            [s EXCEPT !.p = p, !.over = TRUE, !.buf = pushline(curfile(p))]
       [] OTHER -> [s EXCEPT !.p = p]

skipcode(p, doelse) ==
  LET rest == SubSeq(LinesOf(p), curfile(p).at + 1, Len(LinesOf(p)))
      s == FoldLeft(LAMBDA t, d : SkipLine(t, d, doelse),
                    [p |-> p, level |-> 0, over |-> FALSE, buf |-> EmptyLine], rest)
  IN Does(s.p, s.buf)

\* Slip: the depth counts only when the directive is well formed.
ifxdef_CountsLater(p, d) ==
  LET q == [p EXCEPT !.ifdepth = @ + 1]
  IN CASE d.name = "" -> Complains(p, "missing name")
       [] d.name # "" /\ (Defined(p, d.name) <=> d.dir = "ifdef") -> Does(q, EmptyLine)
       [] OTHER -> skipcode(q, TRUE)

\* The depth counts before the name is looked for.
ifxdef(p, d) ==
  LET q == [p EXCEPT !.ifdepth = @ + 1]
  IN CASE d.name = "" -> Complains(q, "missing name")
       [] d.name # "" /\ (Defined(p, d.name) <=> d.dir = "ifdef") -> Does(q, EmptyLine)
       [] OTHER -> skipcode(q, TRUE)

NoneOpen(p) == p.ifdepth <= curfile(p).ifdepth

elsedir(p) == IF NoneOpen(p) THEN Complains(p, "unexpected $else") ELSE skipcode(p, FALSE)

endif(p) ==
  IF NoneOpen(p) THEN Complains(p, "unexpected $endif")
  ELSE Does([p EXCEPT !.ifdepth = @ - 1], EmptyLine)

-----------------------------------------------------------------------------
\* Definitions.  A second definition is installed only if there is none.

define(p, d) ==
  CASE ~Defined(p, d.name) ->
         Does([p EXCEPT !.cbin = [w \in DOMAIN @ \cup {d.name} |->
                                    IF w = d.name THEN d.arg ELSE @[w]]], EmptyLine)
    [] Defined(p, d.name) /\ p.cbin[d.name] = d.arg -> Does(p, EmptyLine)
    [] OTHER -> Complains(p, "value redefined")

undef(p, d) == Does([p EXCEPT !.cbin = [w \in DOMAIN @ \ {d.name} |-> @[w]]], EmptyLine)

ppdir(p, d) ==
  CASE d.dir = "define" -> define(p, d)
    [] d.dir = "undef" -> undef(p, d)
    [] d.dir \in {"ifdef", "ifndef"} -> ifxdef(p, d)
    [] d.dir = "else" -> elsedir(p)
    [] d.dir = "endif" -> endif(p)
    [] d.dir = "include" -> include(p, d.name)
    [] d.dir = "line" -> setline(p, d)
    [] d.dir = "error" -> Complains(p, "explicit $error")
    [] OTHER -> Complains(p, "invalid preprocessing directive")

-----------------------------------------------------------------------------
\* ppch, one turn of its loop at a time.

\* The definitions go; nothing else is reset.
ppinit(p, fname) == Opened([p EXCEPT !.cbin = <<>>], fname)
Start == [files |-> <<>>, ifdepth |-> 0, cbin |-> <<>>, fatals |-> <<>>]

Init ==
  /\ source \in Program
  /\ lf = 1
  /\ pp = ppinit(Start, source.args[1])
  /\ buf = pushline(curfile(pp))
  /\ bstack = <<>>
  /\ loc = Place("", 0)
  /\ out = <<>>
  /\ phase = "open"

\* The lexical analyzer gets a word, and n others after it are preprocessed.
\* setlineno and setfilenm take a #line comment, nextchar counts a new line.
Returns(n) ==
  LET w == Head(buf.words)
      at == IF buf.line = NoPlace THEN loc ELSE buf.line
  IN /\ buf' = Buffer(n, Tail(buf.words))
     /\ IF w = Newline THEN loc' = [at EXCEPT !.lno = @ + 1] /\ UNCHANGED out
        ELSE /\ out' = Append(out, [word |-> w, fname |-> loc.fname, lno |-> loc.lno])
             /\ UNCHANGED loc

\* if (bnxt < bstop)
Ready ==
  /\ buf.ready > 0
  /\ Returns(buf.ready - 1)
  /\ UNCHANGED <<source, lf, pp, bstack, phase>>

Unscanned == buf.ready = 0 /\ buf.words # <<>>

\* What dlookup finds is expanded, unless it is being expanded.
inuse == {bstack[i].defn : i \in DOMAIN bstack}

Expands(w) == IsIdent(w) /\ Defined(pp, w) /\ w \notin inuse

PushDef ==
  /\ Unscanned
  /\ Expands(Head(buf.words))
  /\ bstack' = Append(bstack, [defn |-> Head(buf.words), buf |-> Buffer(0, Tail(buf.words))])
  /\ buf' = Buffer(0, pp.cbin[Head(buf.words)])
  /\ UNCHANGED <<source, lf, pp, loc, out, phase>>

Identifier ==
  /\ Unscanned
  /\ IsIdent(Head(buf.words)) /\ ~Expands(Head(buf.words))
  /\ Returns(0)
  /\ UNCHANGED <<source, lf, pp, bstack, phase>>

\* The words before the next identifier that is not in a literal; matchq
\* looks for the end of a literal in this buffer.
Stretch(words) ==
  LET Closed(i) == Cardinality({j \in 1..i : words[j] = Quote}) % 2 = 0
      idents == {i \in DOMAIN words : IsIdent(words[i]) /\ Closed(i)}
  IN IF idents = {} THEN Len(words) ELSE Min(idents) - 1

Other ==
  /\ Unscanned
  /\ ~IsIdent(Head(buf.words))
  /\ Returns(Stretch(buf.words) - 1)
  /\ UNCHANGED <<source, lf, pp, bstack, phase>>

Revert ==
  /\ buf.words = <<>>
  /\ bstack # <<>>
  /\ buf' = Last(bstack).buf
  /\ bstack' = Front(bstack)
  /\ UNCHANGED <<source, lf, pp, loc, out, phase>>

NothingInMemory == phase = "open" /\ buf.words = <<>> /\ bstack = <<>>

Line ==
  /\ NothingInMemory
  /\ ~AtEof(pp)
  /\ LET p == ReadLine(pp)
         d == LinesOf(pp)[curfile(p).at]
         res == IF d.dir = "text" THEN Does(p, Buffer(0, Append(d.arg, Newline))) ELSE ppdir(p, d)
     IN pp' = res.p /\ buf' = res.buf
  /\ UNCHANGED <<source, lf, bstack, loc, out, phase>>

Eof ==
  /\ NothingInMemory
  /\ AtEof(pp)
  /\ LET f == curfile(pp)
         p == IF f.ifdepth = pp.ifdepth THEN pp
              ELSE [pfatal(pp, "unterminated $if") EXCEPT !.ifdepth = f.ifdepth]
         q == [p EXCEPT !.files = Front(@)]
     IN /\ pp' = q
        /\ IF q.files = <<>> THEN phase' = "eof" /\ UNCHANGED buf
           ELSE buf' = pushline(curfile(q)) /\ UNCHANGED phase
  /\ UNCHANGED <<source, lf, bstack, loc, out>>

\* trans1: the next file of the command line.
NextFile ==
  /\ phase = "eof"
  /\ lf < Len(source.args)
  /\ lf' = lf + 1
  /\ pp' = ppinit(pp, source.args[lf'])
  /\ buf' = pushline(curfile(pp'))
  /\ phase' = "open"
  /\ UNCHANGED <<source, bstack, loc, out>>

Next == NextFile \/ Ready \/ PushDef \/ Identifier \/ Other \/ Revert \/ Line \/ Eof

Spec == Init /\ [][Next]_vars

-----------------------------------------------------------------------------
(***************************************************************************)
(* What the preprocessor should deliver, defined on the structure of the   *)
(* files instead of line by line: a conditional is the lines from $if to   *)
(* the $endif that matches it, an include a file in place of a line, and   *)
(* the expansion of a text a recursive function of it.  The place of a     *)
(* line is its number in the file, shifted by the last $line before it.    *)
(***************************************************************************)

Conditional(d) == d.dir \in {"ifdef", "ifndef"}

\* How many conditionals that begin in lines[i..k] are still open after k.
Depth(lines, i, k) ==
  Cardinality({j \in i..k : Conditional(lines[j])}) - Cardinality({j \in i..k : lines[j].dir = "endif"})
Least(S, otherwise) == IF S = {} THEN otherwise ELSE Min(S)
Close(lines, i) == Least({k \in i + 1..Len(lines) : Depth(lines, i, k) = 0}, Len(lines) + 1)
Elses(lines, i) ==
  {k \in i + 1..Close(lines, i) - 1 : lines[k].dir = "else" /\ Depth(lines, i, k) = 1}
Unterminated(lines) == \E i \in DOMAIN lines : Conditional(lines[i]) /\ Close(lines, i) > Len(lines)

-----------------------------------------------------------------------------
\* A literal is the words from a quote to the next one; it may begin in an
\* earlier line.
EndOfLiteral(words, i) == Least({k \in i..Len(words) : words[k] = Quote}, Len(words))

RECURSIVE Expansion(_, _, _)
Expansion(defs, words, hidden) ==
  IF words = <<>> THEN <<>>
  ELSE LET w == Head(words)
           rest == Expansion(defs, Tail(words), hidden)
           e == EndOfLiteral(words, 2)
       IN CASE w = Quote -> SubSeq(words, 1, e) \o Expansion(defs, SubSeq(words, e + 1, Len(words)), hidden)
            [] w \in DOMAIN defs /\ w \notin hidden -> Expansion(defs, defs[w], hidden \cup {w}) \o rest
            [] OTHER -> <<w>> \o rest

Quotes(words) == Cardinality({i \in DOMAIN words : words[i] = Quote})

-----------------------------------------------------------------------------
\* e: the definitions, the text so far and whether it ends in a literal, the
\* messages, the files that are being read, and the name of this one and the
\* shift of its lines.
NoText == [defs |-> <<>>, text |-> <<>>, inside |-> FALSE, fatals |-> <<>>, chain |-> <<>>,
           fname |-> "", shift |-> 0]

Fatal(e, i, msg) ==
  [e EXCEPT !.fatals = Append(@, [msg |-> msg, fname |-> e.fname, lno |-> i + e.shift])]

Placed(e, i, d) ==
  LET n == IF e.inside THEN EndOfLiteral(d.arg, 1) ELSE 0
      words == SubSeq(d.arg, 1, n) \o Expansion(e.defs, SubSeq(d.arg, n + 1, Len(d.arg)), {})
  IN [e EXCEPT !.text = @ \o [k \in DOMAIN words |-> [word |-> words[k], fname |-> e.fname,
                                                       lno |-> i + e.shift]],
               !.inside = (Quotes(d.arg) % 2 = 1) # @]

Renumbered(e, i, d) == [e EXCEPT !.shift = d.n - i, !.fname = IF d.name = "" THEN @ ELSE d.name]

\* Of lines[i..j], only $line is heeded.
Skipped(lines, i, j, e) ==
  FoldLeft(LAMBDA f, k : IF lines[k].dir = "line" THEN Renumbered(f, k, lines[k]) ELSE f,
           e, [k \in 1..j - i + 1 |-> i + k - 1])

Differs(e, d) == d.name \in DOMAIN e.defs /\ e.defs[d.name] # d.arg

RECURSIVE Section(_, _, _, _)

\* File f in place of line i.
Included(e, i, f) ==
  CASE f \notin File \/ Len(e.chain) = MaxOpen -> Fatal(e, i, "cannot open")
    [] f \in ToSet(e.chain) /\ Len(e.chain) < MaxOpen -> Fatal(e, i, "circular include")
    [] OTHER ->
         LET lines == source.lines[f]
             read == Section(lines, 1, Len(lines),
                             [e EXCEPT !.chain = Append(@, f), !.fname = f, !.shift = 0])
             end == IF Unterminated(lines) THEN Fatal(read, Len(lines), "unterminated $if") ELSE read
         IN [end EXCEPT !.chain = e.chain, !.fname = e.fname, !.shift = e.shift]

\* The conditional that begins in line i, up to the line before its end.
Chosen(lines, i, e) ==
  LET d == lines[i]
      close == Close(lines, i)
      elses == Elses(lines, i)
      first == Least(elses, close)
      second == Least(elses \ {first}, close)
      holds == d.name = "" \/ (d.name \in DOMAIN e.defs <=> d.dir = "ifdef")
      begun == IF d.name = "" THEN Fatal(e, i, "missing name") ELSE e
  IN IF holds THEN Skipped(lines, first, close - 1, Section(lines, i + 1, first - 1, begun))
     ELSE Skipped(lines, second, close - 1,
                  Section(lines, first + 1, second - 1, Skipped(lines, i + 1, first - 1, begun)))

\* lines[i..j] of a file.
Section(lines, i, j, e) ==
  IF i > j THEN e
  ELSE LET d == lines[i]
           Then(f) == Section(lines, i + 1, j, f)
       IN CASE d.dir = "text" -> Then(Placed(e, i, d))
            [] d.dir = "line" -> Then(Renumbered(e, i, d))
            [] d.dir = "include" -> Then(Included(e, i, d.name))
            [] d.dir = "define" ->
                 Then(IF Differs(e, d) THEN Fatal(e, i, "value redefined")
                      ELSE [e EXCEPT !.defs = [w \in DOMAIN @ \cup {d.name} |->
                                                 IF w = d.name THEN d.arg ELSE @[w]]])
            [] d.dir = "undef" ->
                 Then([e EXCEPT !.defs = [w \in DOMAIN @ \ {d.name} |-> @[w]]])
            [] d.dir = "else" -> Then(Fatal(e, i, "unexpected $else"))
            [] d.dir = "endif" -> Then(Fatal(e, i, "unexpected $endif"))
            [] Conditional(d) -> Section(lines, Close(lines, i) + 1, j, Chosen(lines, i, e))
            [] d.dir = "error" -> Then(Fatal(e, i, "explicit $error"))
            [] OTHER -> Then(Fatal(e, i, "invalid preprocessing directive"))

\* The files of the command line do not know of each other.
Meaning == FoldLeft(LAMBDA e, f : Included([e EXCEPT !.defs = <<>>], 0, f), NoText, source.args)

-----------------------------------------------------------------------------
\* Properties.

Finished == phase = "eof" /\ lf = Len(source.args)
AsMeant == out = Meaning.text /\ pp.fatals = Meaning.fatals

AllLines == UNION {ToSet(source.lines[f]) : f \in File}
NoContinued == \A d \in AllLines : d.dir = "text" => Quotes(d.arg) % 2 = 0
\* No $line takes the name of a file, and none hides the name of a file that is
\* included.
Renamed == {f \in File : \E d \in ToSet(source.lines[f]) : d.dir = "line" /\ d.name # ""}
NoAlias ==
  \A d \in AllLines :
    /\ d.dir = "line" => d.name \notin File
    /\ d.dir = "include" => d.name \notin Renamed

(* The lexical analyzer gets the words of the lines that count, with every *)
(* definition expanded as long as it is not being expanded, each at the    *)
(* place it has in the source; and the messages are the right ones: also   *)
(* with conditionals that are skipped, left open or closed in another      *)
(* file, files that include each other, and $line in skipped code.  What   *)
(* was open when a file began is open when it ends (ppch, ppdir).          *)
Preprocessed ==
  Finished =>
    /\ NoContinued /\ NoAlias => AsMeant
    /\ pp.ifdepth = 0 /\ bstack = <<>>

(* ppch says "This is where we skip over string and cset literals to avoid *)
(* processing them."                                                       *)
LiteralsKept == Finished /\ NoAlias => AsMeant

(* A "circular include" is a file that includes itself.                    *)
CircularOnly == Finished /\ NoContinued => AsMeant
=============================================================================
