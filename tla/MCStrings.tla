----------------------------- MODULE MCStrings -----------------------------
(***************************************************************************)
(* StringSpace and StringFunctions, for TLC.  The first has the characters *)
(* of the strings and where they lie, the second only characters.  A       *)
(* behaviour is one of part, and the variables of the other module rest.   *)
(***************************************************************************)
EXTENDS StringSpace, TLC

CONSTANTS
  TabInterval, MaxLong, MaxRepl   \* of StringFunctions

VARIABLES part, call, result

-----------------------------------------------------------------------------
\* The calls of functions that make strings.
Tab == "\t"
Newline == "\n"
UpTo(n, chars) == UNION {[1..k -> chars] : k \in 0..n}
TabStops == {<<>>, <<2>>, <<3>>, <<2, 3>>, <<3, 5>>, <<2, 5>>, <<2, 4, 5>>, <<3, 3>>, <<1, 4>>}
Calls ==
  [fn : {"left", "right", "center"}, s : {SubSeq(<<"a", "b", "c", "d">>, 1, k) : k \in 0..4},
   n : -1..7, pad : {<<>>, <<"x">>, <<"x", "y">>, <<"x", "y", "z">>}]
  \cup [fn : {"detab", "entab"}, stops : TabStops,
        s : [1..5 -> {"a", " ", Tab, Newline, "back"}] \cup [1..7 -> {" ", Tab, "a"}]
            \cup UpTo(3, {"a", "bell", Tab, " "})]
  \cup [fn : {"repl"}, s : UpTo(2, {"a", "b"}), n : {-3} \cup 0..31]
  \cup [fn : {"reverse"}, s : UpTo(5, {"a", "b"})]
  \cup [fn : {"trim"}, s : UpTo(5, {"a", " ", "b"}), c : SUBSET {" ", "a"}]

Fn == INSTANCE StringFunctions WITH Call <- Calls

ASSUME FunctionsAssumption == Fn!StringFunctionsAssumption

-----------------------------------------------------------------------------

callVars == <<call, result>>
NoCall == [fn |-> "none"]

OneInit ==
  /\ part \in {"space", "functions"}
  /\ Init
  /\ part # "space" => \E c \in Char : qual = [v \in Var |-> Outside(<<c>>)]
  /\ IF part = "functions" THEN Fn!Init ELSE call = NoCall /\ result = Fn!None

OneNext ==
  /\ UNCHANGED part
  /\ \/ part = "space" /\ Next /\ UNCHANGED callVars
     \/ part = "functions" /\ Fn!Next /\ UNCHANGED vars
     \/ part = "functions" /\ result # Fn!None /\ UNCHANGED <<vars, callVars>>

OneSpec == OneInit /\ [][OneNext]_<<part, vars, callVars>>

\* StringFunctions!Made: what each function gives; and the strings of the other
\* part have values of their types.  NotTooLong: a comment in repl.
Made == TypeOK /\ Fn!Made
NotTooLong == Fn!NotTooLong

\* The strings that a program may begin with.
Letters == {<<c>> : c \in Char}

\* Variables, and characters, are interchangeable.
Symmetry == Permutations(Var) \cup Permutations(Char)
=============================================================================
