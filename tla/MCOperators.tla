---------------------------- MODULE MCOperators ----------------------------
(***************************************************************************)
(* Transmission (the operator @), Arithmetic, TrappedVars and Conversions, *)
(* for TLC.  A behaviour is one of part, and the variables of the other    *)
(* modules rest.                                                           *)
(*                                                                         *)
(* Arithmetic has digits of two bits and words of four: one digit more     *)
(* than a word has is already a large integer.  The operands are every     *)
(* word and the large integers about the boundaries of words and digits.   *)
(* TrappedVars has strings of two characters to begin with, so that parts  *)
(* of one variable may have each other's or different lengths, lie apart,  *)
(* or overlap.                                                             *)
(* Conversions has words of eleven bits, ints of six, and mantissas that   *)
(* are big from three digits on: numerals have up to four digits, a        *)
(* fraction and an exponent, on both sides of each of these bounds.        *)
(***************************************************************************)
EXTENDS Transmission

CONSTANTS
  NB, Ten, Operand, BigMantissa, MaxValue, PowerBits,   \* of Arithmetic
  Name, Scene, Start, Literal, Block, MaxLen, MaxDepth, MaxOps,   \* of TrappedVars
  BigLong, MaxInt, BigReal, LogHuge, Huge, Precision   \* of Conversions

VARIABLES part, x, y, arg, op, z, limit, count,
  places, w, held, suspended, did, ops, from, to, result

arithmeticVars == <<x, y, arg, op, z, limit, count>>
assignVars == <<places, w, held, suspended, did, ops>>
convVars == <<from, to, result>>

A == INSTANCE Arithmetic
T == INSTANCE TrappedVars

-----------------------------------------------------------------------------
\* The values that are converted.
String(s) == [type |-> "string", s |-> s]
Real(m, s) == [type |-> "real", m |-> m, s |-> s]
Strings(texts) == {String(s) : s \in texts}
UpTo(n, chars) == UNION {[1..k -> chars] : k \in 0..n}

Wholes == UpTo(2, {"0", "9"}) \cup
  {<<"1", "0", "2", "4">>, <<"1", "0", "2", "5">>, <<"9", "9", "9">>, <<"0", "0", "0", "1", "5">>,
   <<"1", "0", "1", "8", "9">>, <<"1", "8", "0", "0">>}
Fractions == {<<>>, <<".">>, <<".", "5">>, <<".", "0", "0", "9", "5">>}
Exponents == {<<>>, <<"e">>} \cup
  {<<"e">> \o sign \o ds : sign \in {<<>>, <<"-">>, <<"+">>},
     ds \in {<<"1">>, <<"0", "2">>, <<"5">>, <<"8">>, <<"9">>, <<"4", "0">>, <<"8", "0">>}}
Radixes == {<<"1">>, <<"2">>, <<"1", "5">>, <<"1", "0">>, <<"-", "2", "8">>, <<"2", "9", "8">>}

ConvertedValues ==
  Strings(UpTo(4, {" ", "-", "0", "1", ".", "e", "r"}))
  \cup Strings({a \o b \o c : a \in Wholes, b \in Fractions, c \in Exponents})
  \cup Strings({a \o <<"r">> \o b : a \in Radixes, b \in UpTo(3, {"9", "e", "z", " "})})
  \cup {[type |-> "cset", chars |-> c] : c \in SUBSET {" ", "-", ".", "1", "9", "e", "r"}}
  \cup {[type |-> "integer", n |-> n] : n \in {-1024, -1023, -10, 0, 1, 9, 1000, 1023}}
  \cup {[type |-> "lrgint", n |-> n] : n \in {-1025, 1024, 1025, 9999}}
  \cup {Real(m, s) : m \in {-15, 0, 10, 25}, s \in -5..1}
  \cup {Real(m, 0) : m \in {1023, 1024, 1025, 1700, -1024, -1025}}
  \cup {Real(m, -1) : m \in {10230, 10240, 10250, -10240}}
  \cup {[type |-> "null"], [type |-> "list"]}

C == INSTANCE Conversions WITH Convertible <- ConvertedValues, MaxLong <- BigLong,
                          BigMantissa <- BigReal

ASSUME Assumptions == Assumption /\ A!ArithmeticAssumption /\ C!ConversionsAssumption

-----------------------------------------------------------------------------
\* The operands and variables of the other modules.
OperandsOf(bounds) == -(2 ^ (2 * NB - 1))..(2 ^ (2 * NB - 1) - 1) \cup UNION {{n, -n} : n \in bounds}
Operands == OperandsOf({8, 15, 16, 17, 33, 47, 63})

Scenes == {{"subject", "pos"}, {"u", "elem"}}
Starts == {<<1, 2>>}
Numeral(s) == [type |-> "string", s |-> s]
Literals == {Numeral(<<4, 5>>), [type |-> "integer", n |-> 4]}

OneInit ==
  /\ part \in {"transmission", "arithmetic", "assignment", "conversion"}
  /\ Init
  /\ part # "transmission" => tvalloc[Main] = NULL
  /\ A!Init
  /\ part # "arithmetic" => A!IsZero(x)
  /\ T!Init
  /\ part # "assignment" => places = {"u", "elem"}
  /\ C!Init
  /\ part # "conversion" => from = String(<<>>) /\ to = "string"

TransmissionStep == part = "transmission" /\ Next /\ UNCHANGED <<part, arithmeticVars, assignVars, convVars>>
ArithmeticStep == part = "arithmetic" /\ A!Next /\ UNCHANGED <<part, vars, assignVars, convVars>>
AssignmentStep == part = "assignment" /\ T!Next /\ UNCHANGED <<part, vars, arithmeticVars, convVars>>
ConversionStep == part = "conversion" /\ C!Next /\ UNCHANGED <<part, vars, arithmeticVars, assignVars>>

OneNext == TransmissionStep \/ ArithmeticStep \/ AssignmentStep \/ ConversionStep

OneSpec == OneInit /\ [][OneNext]_<<part, vars, arithmeticVars, assignVars, convVars>>

\* Co-expressions other than &main, and values, are interchangeable.
Interchangeable == Permutations(Coexpr \ {Main}) \cup Permutations(Value)

\* Arithmetic!Exact: words and large integers are computed with as integers.
Exact == A!Exact

\* TrappedVars!AssignsRightly: an exchange is two assignments at once, and
\* what is resumed is undone.
AssignsRightly == T!AssignsRightly

\* Conversions!Converted: what strings and numbers are converted to.
Converted == C!Converted

\* What comments say of conversions, and the code does not do.
ExponentsFit == C!ExponentsFit
IntegersFit == C!IntegersFit
=============================================================================
