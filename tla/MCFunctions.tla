---------------------------- MODULE MCFunctions ----------------------------
(***************************************************************************)
(* MapCache, Scanning, Ordering and Files, for TLC.  A behaviour is one of *)
(* part, and the variables of the other modules rest.                      *)
(*                                                                         *)
(* What is compared has every type, with lists whose blocks are partly     *)
(* used and wrap around; what is sorted has up to three elements.  The     *)
(* texts of files have every end of a line, and are longer than the pieces *)
(* in which they are read.                                                 *)
(***************************************************************************)
EXTENDS MapCache, Functions, TLC

CONSTANTS
  Null, Bad, Subject, Pattern, Cset, Place, Ranges, lparcs, rparcs,
  MaxCalls, MaxAnalyses, MaxSteps,   \* of Scanning
  IntBits,   \* of Ordering
  File, FILE, Name, Directory, Command, Start, Absent, Spec2, Argument,
  MaxReadStr, MaxCvtLen, MaxIn, Size, Amount, Offset, MaxOps   \* of Files

VARIABLES part, subject, pos, suspended, last, steps, analyses, x, y, result, disk, stream, file, bang, did, exited, ops

scanningVars == <<subject, pos, suspended, last, steps, analyses>>
orderingVars == <<x, y, result>>
filesVars == <<disk, stream, file, bang, did, exited, ops>>

-----------------------------------------------------------------------------
\* What is compared and sorted.
N == [type |-> "null"]
I(n) == [type |-> "integer", n |-> n]
S(s) == [type |-> "string", s |-> s]
Word == SUBSET (0..2)
Cs(words) == [type |-> "cset", bits |-> words]
Block(lslots, first, nused) == [lslots |-> lslots, first |-> first, nused |-> nused]
L(id, blocks) == [type |-> "list", id |-> id, blocks |-> blocks]
R(name, id, fields) == [type |-> "record", name |-> name, id |-> id, fields |-> fields]
Objects(type) == {[type |-> type, id |-> k, members |-> <<>>, elems |-> <<>>] : k \in {1, 2}}

Full == L(1, <<Block(<<I(2), S(<<1>>)>>, 0, 2)>>)
Wrapped == L(2, <<Block(<<I(1), N, I(3)>>, 2, 2), Block(<<I(2), I(2)>>, 1, 1)>>)
Short == L(3, <<Block(<<I(9), S(<<>>)>>, 1, 1)>>)
Rec1 == R(<<1>>, 1, <<I(2), S(<<2>>)>>)
Rec2 == R(<<1>>, 2, <<S(<<1>>)>>)
Rec3 == R(<<0>>, 1, <<I(1), N>>)

Compareds ==
  {N, Full, Wrapped, Short, Rec1, Rec2, Rec3}
  \cup {I(n) : n \in -2..2} \cup {[type |-> "real", n |-> n] : n \in -1..1}
  \cup {S(s) : s \in UNION {[1..k -> 0..2] : k \in 0..2}}
  \cup {Cs(words) : words \in [1..2 -> Word]}
  \cup {[type |-> t, name |-> name] : t \in {"file", "proc"}, name \in {<<>>, <<1>>, <<1, 0>>}}
  \cup UNION {Objects(t) : t \in {"coexpr", "set", "table"}}

\* The elements of what is sorted.
Pool == {N, I(1), I(2), S(<<1>>), Cs(<<{0}, {1}>>), Cs(<<{0}, {}>>), Full, Wrapped, Short, Rec1, Rec2}
Contents == {<<>>} \cup UNION {[1..k -> Pool] : k \in 1..3}
Ones == UNION {[1..k -> {I(1), I(2), S(<<1>>)}] : k \in 0..3}
Structures ==
  {L(9, <<Block(c \o <<N>>, 0, Len(c))>>) : c \in Contents}
  \cup {L(9, <<Block(<<c[1], N>>, 0, 1), Block(<<c[3], N, c[2]>>, 2, 2)>>) : c \in [1..3 -> {I(1), Full, N}]}
  \cup {R(<<2>>, 9, c) : c \in Ones}
  \cup {[type |-> "set", id |-> 9, members |-> c] : c \in {s \in Contents : IsInjective(s)}}
  \cup {[type |-> "table", id |-> 9, elems |-> c] :
          c \in {s \in UNION {[1..k -> [tref : {I(1), I(2), S(<<1>>)}, tval : {N, I(1), Full}]] : k \in 0..3} :
                   \A j, k \in DOMAIN s : j # k => s[j].tref # s[k].tref}}

Sc == INSTANCE Scanning
O == INSTANCE Ordering WITH Compared <- Compareds, Structure <- Structures
F == INSTANCE Files WITH last <- did

ASSUME Assumptions == MapAssumption /\ Sc!ScanningAssumption /\ O!OrderingAssumption /\ F!FilesAssumption

-----------------------------------------------------------------------------
\* What is scanned: the parentheses of the last subject do not balance.
Subjects == {<<"a">>, <<"(", "b", ")", "a">>, <<")", "a", "(">>}
Within(s, i, j) == [s |-> s, i |-> i, j |-> j]
RangesOfCalls ==
  {Within(Null, i, j) : i \in {Null, 2}, j \in {Null, -1}}
  \cup {Within(Null, 0, 4), Within(Null, Bad, 2), Within(Null, 9, 2), Within(Null, 2, Bad), Within(Null, 1, 9), Within(Bad, 1, 1)}
  \cup {Within(<<"a", "(", "a", ")", "a">>, i, j) : i \in {Null, -2}, j \in {Null, 5}}
Csets == {{"a"}, {"a", "(", "b", ")"}, Bad}
Places == {0, 2, -1, Bad}
Patterns == {<<>>, <<"a">>, <<"(", "a">>, Bad}

\* What is in files, and what is done with them.
Texts == {<<"a", "\r", "\n", "a", "a", "a">>, <<"a", "a", "\n", "\r", "a">>}
Starts ==
  {"x" :> t @@ "y" :> Absent @@ "d" :> <<<<"a">>, <<"a", "a">>>> @@ "cmd" :> <<"a", "\n">>
     @@ [n \in {"&input", "&output", "&errout"} |-> <<>>] : t \in Texts}
Specs == {<<"r">>, <<"u">>, <<"b">>, <<"a">>, <<"c", "r">>, <<"p">>, <<"w", "p">>, <<"a", "p">>, <<"q">>}
ToFile(f) == [type |-> "file", f |-> f]
Arguments ==
  {<<>>, <<S(<<"b">>)>>, <<ToFile("f"), S(<<"b", "c">>)>>,
   <<ToFile("f"), S(<<"b">>), ToFile("g"), S(<<"c">>)>>,
   <<S(<<"b">>), ToFile("f"), S(<<"c">>), [type |-> "list"]>>}
Offsets == {2, 0, -1, 9, -9}

-----------------------------------------------------------------------------
OneInit ==
  /\ part \in {"map", "scanning", "ordering", "files"}
  /\ MapInit
  /\ Sc!Init
  /\ part # "scanning" => subject = <<"a">> /\ pos = 1
  /\ IF part = "ordering" THEN O!Init ELSE x = N /\ y = N /\ result = O!None
  /\ F!Init
  /\ part # "files" => disk["x"] = <<"a", "\r", "\n", "a", "a", "a">>

OneNext ==
  /\ UNCHANGED part
  /\ \/ part = "map" /\ MapNext /\ UNCHANGED <<scanningVars, orderingVars, filesVars>>
     \/ part = "scanning" /\ Sc!Next /\ UNCHANGED <<mapVars, orderingVars, filesVars>>
     \/ part = "ordering" /\ O!Next /\ UNCHANGED <<mapVars, scanningVars, filesVars>>
     \/ part = "files" /\ F!Next /\ UNCHANGED <<mapVars, scanningVars, orderingVars>>

\* The C library's FILEs, and variables, are interchangeable.
Interchangeable == Permutations(FILE) \cup Permutations(Var)

OneSpec == OneInit /\ [][OneNext]_<<part, mapVars, scanningVars, orderingVars, filesVars>>

\* Scanning!Scanned: what the analysis functions and tab, move and pos give.
Scanned == Sc!Scanned

\* Ordering!Collated: comparisons are those of one order, which sort follows.
Collated == O!Collated

\* Files!Transfers: what is read is what follows, what is written is added.
Transfers == F!Transfers

\* What comments say of files and what the code does not do.
FromOwnFile == F!FromOwnFile
ErrorsReported == F!ErrorsReported
WritingMarked == F!WritingMarked
=============================================================================
