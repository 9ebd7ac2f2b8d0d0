---------------------------- MODULE Conversions ----------------------------
(***************************************************************************)
(* The conversions of runtime/cnv.r and def.r among strings, csets,        *)
(* integers and reals, with bigradix of rlrgint.r, which reads the digits  *)
(* of a large integer or one with a radix.  Each behaviour is one          *)
(* conversion.  (Large integers themselves are in LargeInt.)               *)
(*                                                                         *)
(* A string is a sequence of characters, a cset a set of them.  The real   *)
(* number m * 10^s is [type |-> "real", m |-> m, s |-> s].                 *)
(***************************************************************************)
EXTENDS Integers, FiniteSets, SequencesExt

CONSTANTS
  Convertible, \* the values that are converted
  MaxLong,     \* the largest word
  MaxInt,      \* the largest int
  BigMantissa,         \* from here on no more digits are kept (2^53)
  LogHuge,     \* digits of the largest real
  Huge,        \* the largest real
  Precision    \* digits of a real that is written

ConversionsAssumption ==
  /\ Precision \in Nat \ {0} /\ LogHuge \in Nat \ {0} /\ MaxInt > LogHuge
  /\ BigMantissa \in Nat \ {0} /\ 10 * BigMantissa <= MaxLong + 1
  /\ 10 ^ Precision <= 10 * BigMantissa
  /\ Huge >= 10 ^ (LogHuge - 1) /\ Huge < 10 ^ LogHuge

VARIABLES from, to, result

vars == <<from, to, result>>

MinLong == -MaxLong - 1
Words == MinLong..MaxLong

\* The characters in collating order; letters stand for their digits.
Numerals == <<"0", "1", "2", "3", "4", "5", "6", "7", "8", "9">>
Collating == <<" ", "+", "-", ".">> \o Numerals \o <<"a", "e", "r", "z">>
Digit == [c \in ToSet(Numerals) |-> (CHOOSE k \in 1..10 : Numerals[k] = c) - 1]
Digits == DOMAIN Digit
Letter == [c \in {"a", "e", "r", "z"} |->
             CASE c = "a" -> 10 [] c = "e" -> 14 [] c = "r" -> 27 [] c = "z" -> 35]
tonum(c) == IF c \in Digits THEN Digit[c] ELSE Letter[c]

CvtFail == [type |-> "fail"]
None == [type |-> "none"]
Integer(n) == IF n \in Words THEN [type |-> "integer", n |-> n] ELSE [type |-> "lrgint", n |-> n]
Real(m, s) == [type |-> "real", m |-> m, s |-> s]
String(s) == [type |-> "string", s |-> s]
Cset(c) == [type |-> "cset", chars |-> c]

-----------------------------------------------------------------------------
\* From strings.

\* The first place in s from i on where there is none of C; past the end there
\* is a blank.
After(s, i, C) == Min({k \in i..Len(s) : s[k] \notin C} \cup {Len(s) + 1})
At(s, i) == IF i <= Len(s) THEN s[i] ELSE " "
Blanks(s, i) == After(s, i, {" "}) > Len(s)

Signed(sign, n) == IF sign = "-" THEN -n ELSE n

bigradix(sign, r, s, i) ==
  LET end == After(s, i, Digits \cup DOMAIN Letter)
      value == FoldLeft(LAMBDA n, c : n * r + tonum(c), 0, SubSeq(s, i, end - 1))
  IN IF r \notin 2..36 \/ (\E k \in i..end - 1 : tonum(s[k]) >= r) \/ ~Blanks(s, end)
     THEN CvtFail ELSE Integer(Signed(sign, value))

WrappedInt(n) == ((n + MaxInt + 1) % (2 * MaxInt + 2)) - MaxInt - 1

\* Slip: leading zeros are counted as significant digits.
Mantissa_Zeros(t, s, fraction) ==
  LET Add(u, c) ==
        IF u.mantissa >= BigMantissa THEN [u EXCEPT !.scale = @ + 1 - fraction]
        ELSE [mantissa |-> u.mantissa * 10 + Digit[c], scale |-> u.scale - fraction,
              sdigits |-> u.sdigits + 1]
  IN FoldLeft(Add, t, s)

\* Digits are added to the mantissa until it is big.
Mantissa(t, s, fraction) ==
  LET Add(u, c) ==
        IF u.mantissa >= BigMantissa THEN [u EXCEPT !.scale = @ + 1 - fraction]
        ELSE [mantissa |-> u.mantissa * 10 + Digit[c], scale |-> u.scale - fraction,
              sdigits |-> u.sdigits + IF u.mantissa * 10 + Digit[c] > 0 THEN 1 ELSE 0]
  IN FoldLeft(Add, t, s)

\* 5^scale and ldexp.
Scaled(sign, t, scale) ==
  CASE t.sdigits + scale > LogHuge -> CvtFail
    [] t.sdigits + scale < -LogHuge -> Real(0, 0)
    [] OTHER ->
         IF scale > 0 /\ t.mantissa * 10 ^ scale > Huge THEN CvtFail
         ELSE Real(Signed(sign, t.mantissa), scale)

\* What the digits of an exponent make of an int.
Exponent(s) == FoldLeft(LAMBDA n, c : WrappedInt(n * 10 + Digit[c]), 0, s)

\* The number is complete, and s goes on at end: only blanks may follow.
Complete(s, end, number) == IF Blanks(s, end) THEN number ELSE CvtFail

\* The exponent, whose digits go from x to end.
WithExponent(s, sign, t, negative, x, end) ==
  IF end = x THEN CvtFail
  ELSE LET n == Exponent(SubSeq(s, x, end - 1))
       IN Complete(s, end, Scaled(sign, t, WrappedInt(t.scale + IF negative THEN -n ELSE n)))

\* From e on, where a real has its exponent, if any.
FromExponent(s, sign, t, e) ==
  IF At(s, e) # "e" THEN Complete(s, e, Scaled(sign, t, t.scale))
  ELSE LET x == IF At(s, e + 1) \in {"+", "-"} THEN e + 2 ELSE e + 1
       IN WithExponent(s, sign, t, At(s, e + 1) = "-", x, After(s, x, Digits))

\* From point on, what is behind the first digits, which go from i on.
FromPoint(s, sign, i, point, whole) ==
  CASE At(s, point) = "r" -> bigradix(sign, whole.mantissa, s, point + 1)
    [] At(s, point) = "." ->
         LET e == After(s, point + 1, Digits)
         IN IF e - 1 = i THEN CvtFail
            ELSE FromExponent(s, sign, Mantissa(whole, SubSeq(s, point + 1, e - 1), 1), e)
    [] At(s, point) = "e" /\ point > i -> FromExponent(s, sign, whole, point)
    [] OTHER -> IF point = i THEN CvtFail
                ELSE Complete(s, point,
                              IF whole.scale = 0 /\ whole.mantissa <= MaxLong
                              THEN Integer(Signed(sign, whole.mantissa))
                              ELSE bigradix(sign, 10, s, i))

\* From i on, behind the sign.
FromDigits(s, sign, i) ==
  LET point == After(s, i, Digits)
  IN FromPoint(s, sign, i, point,
               Mantissa([mantissa |-> 0, scale |-> 0, sdigits |-> 0], SubSeq(s, i, point - 1), 0))

FromSign(s, start) ==
  CASE start > Len(s) -> CvtFail
    [] s[start] \in {"+", "-"} -> FromDigits(s, s[start], start + 1)
    [] OTHER -> FromDigits(s, "+", start)

ston(s) == FromSign(s, After(s, 1, {" "}))

-----------------------------------------------------------------------------
\* To strings.

Numeral(n) ==
  LET ds[k \in 0..n] == (IF k < 10 THEN <<>> ELSE ds[k \div 10])
                         \o <<CHOOSE c \in Digits : Digit[c] = k % 10>>
  IN ds[n]

Abs(n) == IF n < 0 THEN -n ELSE n
itos(n) == (IF n < 0 THEN <<"-">> ELSE <<>>) \o Numeral(Abs(n))

\* sprintf with %.*g: the digits, rounded, without zeros at the end, with a
\* decimal point or an exponent.
Excess(m) == Max({0, Len(Numeral(m)) - Precision})
Rounded(m) ==
  IF Excess(m) = 0 THEN m ELSE (m + 5 * 10 ^ (Excess(m) - 1)) \div 10 ^ Excess(m)
Trimmed(ds) ==
  SubSeq(ds, 1, Max({k \in DOMAIN ds : ds[k] # "0"} \cup {0}))
Zeros(n) == [k \in 1..n |-> "0"]
Point(ds) == IF ds = <<>> THEN <<>> ELSE <<".">> \o ds

Formatted(m, s) ==
  LET ds == Trimmed(Numeral(m))
      x == Len(Numeral(m)) - 1 + s
      exp == IF Abs(x) < 10 THEN <<"0">> \o Numeral(Abs(x)) ELSE Numeral(Abs(x))
  IN CASE m = 0 -> <<"0">>
       [] m > 0 /\ (x < -4 \/ x >= Precision) ->
            <<ds[1]>> \o Point(Tail(ds)) \o <<"e", IF x < 0 THEN "-" ELSE "+">> \o exp
       [] m > 0 /\ x \in 0..Precision - 1 ->
            IF Len(ds) <= x + 1 THEN ds \o Zeros(x + 1 - Len(ds))
            ELSE SubSeq(ds, 1, x + 1) \o Point(SubSeq(ds, x + 2, Len(ds)))
       [] OTHER -> <<"0", ".">> \o Zeros(-x - 1) \o ds

rtos(r) ==
  LET s == Formatted(Rounded(Abs(r.m)), r.s + Excess(Abs(r.m)))
      t == IF ToSet(s) \cap {".", "e"} = {} THEN s \o <<".", "0">> ELSE s
  IN (IF r.m < 0 THEN <<"-">> ELSE <<>>) \o t

cstos(c) == SelectSeq(Collating, LAMBDA ch : ch \in c)

\* The conversions themselves.

tmp_str(v) ==
  CASE v.type = "string" -> v
    [] v.type \in {"integer", "lrgint"} -> String(itos(v.n))
    [] v.type = "real" -> String(rtos(v))
    [] v.type = "cset" -> String(cstos(v.chars))
    [] OTHER -> CvtFail

cnv_cset(v) ==
  IF v.type = "cset" \/ tmp_str(v) = CvtFail THEN IF v.type = "cset" THEN v ELSE CvtFail
  ELSE Cset(ToSet(tmp_str(v).s))

Numeric(v) == IF v.type \in {"string", "cset"} THEN ston(tmp_str(v).s) ELSE v

\* What dbl is above: (double)MaxLong is MaxLong + 1.
Above(r, k) ==
  IF r.s >= 0 THEN r.m * 10 ^ r.s > k
  ELSE r.m > 0 /\ (r.m \div 10 ^ (-r.s) > k
                   \/ (r.m \div 10 ^ (-r.s) = k /\ r.m % 10 ^ (-r.s) # 0))
Truncated(r) ==
  LET n == IF r.s >= 0 THEN Abs(r.m) * 10 ^ r.s ELSE Abs(r.m) \div 10 ^ (-r.s)
  IN IF r.m < 0 THEN -n ELSE n
OutOfRange(r) == Above(r, MaxLong + 1) \/ Above(Real(-r.m, r.s), -MinLong)

\* The results that (word)dbl may have.
ToWord(r) ==
  IF Truncated(r) \in Words THEN {Integer(Truncated(r))}
  ELSE {Integer(MinLong), Integer(MaxLong)}

cnv_int(v) ==
  LET n == Numeric(v)
  IN CASE n.type \in {"integer", "lrgint"} -> {n}
       [] n.type = "real" -> IF OutOfRange(n) THEN {Integer(Truncated(n))} ELSE ToWord(n)
       [] OTHER -> {CvtFail}

cnv_c_int(v) ==
  LET n == Numeric(v)
  IN CASE n.type = "integer" -> {n}
       [] n.type = "real" -> IF OutOfRange(n) THEN {CvtFail} ELSE ToWord(n)
       [] OTHER -> {CvtFail}

cnv_eint(v) == IF v.type # "real" /\ Numeric(v).type \in {"integer", "lrgint"} THEN Numeric(v) ELSE CvtFail
cnv_ec_int(v) == IF v.type # "real" /\ Numeric(v).type = "integer" THEN Numeric(v) ELSE CvtFail

cnv_c_dbl(v) ==
  LET n == Numeric(v)
  IN CASE n.type = "real" -> n
       [] n.type = "integer" -> Real(n.n, 0)
       [] n.type = "lrgint" -> IF Abs(n.n) > Huge THEN CvtFail ELSE Real(n.n, 0)
       [] OTHER -> CvtFail

-----------------------------------------------------------------------------
Init ==
  /\ from \in Convertible
  /\ to \in {"string", "cset", "integer", "C_integer", "(exact)integer", "(exact)C_integer", "real"}
  /\ result = None

Convert(type, results) ==
  /\ to = type /\ result = None
  /\ result' \in results
  /\ UNCHANGED <<from, to>>

CnvString == Convert("string", {tmp_str(from)})
CnvCset == Convert("cset", {cnv_cset(from)})
CnvInteger == Convert("integer", cnv_int(from))
CnvCInteger == Convert("C_integer", cnv_c_int(from))
CnvExact == Convert("(exact)integer", {cnv_eint(from)})
CnvExactC == Convert("(exact)C_integer", {cnv_ec_int(from)})
CnvReal == Convert("real", {cnv_c_dbl(from)})

(* An argument that is left out has a default value, here 1. *)
DefConvert ==
  /\ from.type = "null"
  /\ Convert(to, {Integer(1)})

Next ==
  \/ from.type # "null" /\ (CnvString \/ CnvCset \/ CnvInteger \/ CnvCInteger
                              \/ CnvExact \/ CnvExactC \/ CnvReal)
  \/ DefConvert

Spec == Init /\ [][Next]_vars

-----------------------------------------------------------------------------
\* Properties.

\* What a string says, from the grammar of numerals.
AllDigits(t) == t # <<>> /\ ToSet(t) \subseteq Digits
Number(t, r) == FoldLeft(LAMBDA n, c : n * r + tonum(c), 0, t)
Rest(t, k) == SubSeq(t, k + 1, Len(t))
Body(s) ==
  LET ends == {k \in DOMAIN s : s[k] # " "}
  IN IF ends = {} THEN <<>> ELSE SubSeq(s, Min(ends), Max(ends))
Sign(t) == IF t # <<>> /\ t[1] = "-" THEN -1 ELSE 1
Unsigned(t) == IF t # <<>> /\ t[1] \in {"+", "-"} THEN Tail(t) ELSE t

\* Mantissas with a decimal point, and exponents, each with their values.
Fractions(t) ==
  {[m |-> Number(SubSeq(t, 1, k - 1) \o Rest(t, k), 10), e |-> k - Len(t)] :
     k \in {j \in DOMAIN t : t[j] = "." /\ AllDigits(SubSeq(t, 1, j - 1) \o Rest(t, j))}}
  \cup IF AllDigits(t) THEN {[m |-> Number(t, 10), e |-> 0]} ELSE {}
Exponents(t) ==
  IF AllDigits(Unsigned(t)) THEN {Sign(t) * Number(Unsigned(t), 10)} ELSE {}

Nothing == [kind |-> "none"]

\* The digits before and after the r, if the radix and they are right.
Radix(t, k) == Number(SubSeq(t, 1, k - 1), 10)
Based(t, k) ==
  /\ t[k] = "r" /\ AllDigits(SubSeq(t, 1, k - 1)) /\ Radix(t, k) \in 2..36
  /\ \A j \in k + 1..Len(t) : t[j] \in Digits \cup DOMAIN Letter /\ tonum(t[j]) < Radix(t, k)

ReadReal(sign, t) ==
  {[kind |-> "real", m |-> sign * f.m, e |-> f.e, x |-> 0] :
     f \in IF "." \in ToSet(t) THEN Fractions(t) ELSE {}}
  \cup UNION {{[kind |-> "real", m |-> sign * f.m, e |-> f.e + x, x |-> x] :
                 f \in Fractions(SubSeq(t, 1, k - 1)), x \in Exponents(Rest(t, k))} :
               k \in {j \in DOMAIN t : t[j] = "e"}}

\* At most one reading.
ReadNumber(sign, t) ==
  {[kind |-> "integer", n |-> sign * n] : n \in IF AllDigits(t) THEN {Number(t, 10)} ELSE {}}
  \cup {[kind |-> "integer", n |-> sign * Number(Rest(t, k), Radix(t, k))] :
           k \in {j \in DOMAIN t : Based(t, j)}}
  \cup ReadReal(sign, t)

TheOne(readings) == IF readings = {} THEN Nothing ELSE CHOOSE d \in readings : TRUE
ReadBody(t) == TheOne(ReadNumber(Sign(t), Unsigned(t)))
Reading(s) == ReadBody(Body(s))

Length(m) == IF m = 0 THEN 0 ELSE Len(Numeral(Abs(m)))

\* The real r is what d says, but for digits after the first ones.
Approximates(r, d) ==
  LET size == Length(d.m) + d.e
      dropped == r.s - d.e
  IN IF r = CvtFail
     THEN size > LogHuge \/ (size = LogHuge /\ Above(Real(Abs(d.m), d.e), Huge))
            \/ (d.m = 0 /\ d.e > LogHuge)
     ELSE IF r.m = 0 THEN d.m = 0 \/ size < -LogHuge
     ELSE /\ dropped \in 0..Length(d.m)
          /\ Abs(r.m) = Abs(d.m) \div 10 ^ dropped /\ (r.m < 0) = (d.m < 0)
          /\ dropped > 0 => Abs(r.m) >= BigMantissa
          /\ size <= LogHuge

\* n is r without its fraction.
IsWhole(n, r) ==
  IF r.s >= 0 THEN n = r.m * 10 ^ r.s
  ELSE /\ Abs(n) = Abs(r.m) \div 10 ^ (-r.s)
       /\ n # 0 => (n < 0) = (r.m < 0)

\* Exponents are ints, and (double)MaxLong is no word.
Fits(d) == Abs(d.x) <= MaxInt /\ Abs(d.e) <= MaxInt - Length(d.m)
Special(r) == IsWhole(MaxLong + 1, r)

RightReal(r) ==
  CASE to = "real" -> result = r
    [] to \in {"(exact)integer", "(exact)C_integer"} -> result = CvtFail
    [] to \in {"integer", "C_integer"} ->
         IF r = CvtFail THEN result = CvtFail
         ELSE IF result = CvtFail THEN to = "C_integer" /\ ~\E n \in Words : IsWhole(n, r)
         ELSE Special(r) \/ IsWhole(result.n, r)

RightInteger(n) ==
  CASE to = "real" -> result = IF n \in Words \/ Abs(n) <= Huge THEN Real(n, 0) ELSE CvtFail
    [] to \in {"C_integer", "(exact)C_integer"} -> result = IF n \in Words THEN Integer(n) ELSE CvtFail
    [] OTHER -> result = Integer(n)

ToNumber == to \notin {"string", "cset"} /\ result # None

\* What is read as d has become the result, which is r if it is to be a real.
Becomes(d, r) ==
  CASE d.kind = "none" -> result = CvtFail
    [] d.kind = "integer" -> RightInteger(d.n)
    [] d.kind = "real" -> Fits(d) => Approximates(r, d) /\ RightReal(r)

\* r is what is read of the result, as far as its digits go.
Near(r, m, s) ==
  LET low == IF r.s < s THEN r.s ELSE s
      off == Abs(r.m * 10 ^ (r.s - low) - m * 10 ^ (s - low))
  IN r # CvtFail
       /\ 2 * off <= IF Excess(Abs(m)) = 0 THEN 0 ELSE 10 ^ (Excess(Abs(m)) + s - low)

(* A string or cset is converted to the number that it says, by the        *)
(* grammar of numerals, or to none; every number is written so that        *)
(* reading gives back that number, up to the digits that are written, and  *)
(* its type; a cset is written in order; and a real becomes an integer     *)
(* without its fraction.                                                   *)
Converted ==
  /\ ToNumber /\ from.type \in {"string", "cset"} =>
       Becomes(Reading(tmp_str(from).s), cnv_c_dbl(from))
  /\ ToNumber /\ from.type = "real" => RightReal(from)
  /\ ToNumber /\ from.type \in {"integer", "lrgint"} => RightInteger(from.n)
  /\ result.type = "string" /\ from.type \in {"integer", "lrgint"} =>
       Reading(result.s) = [kind |-> "integer", n |-> from.n]
  /\ result.type = "string" /\ from.type = "real" =>
       Reading(result.s).kind = "real" /\ Near(cnv_c_dbl(result), from.m, from.s)
  /\ result.type = "string" /\ from.type = "cset" =>
       ToSet(result.s) = from.chars /\ Len(result.s) = Cardinality(from.chars)
  /\ result.type = "cset" => result.chars = ToSet(tmp_str(from).s)

(* "Rough tests for overflow and underflow" (ston): no exponent of any     *)
(* length makes another number.                                            *)
ExponentsFit ==
  ToNumber /\ from.type = "string" =>
    LET d == Reading(from.s)
    IN d.kind = "real" => Approximates(cnv_c_dbl(from), d)

(* "convert to integer" (cnv_int): a real that is too large for a word is  *)
(* not a word.                                                             *)
IntegersFit ==
  to = "integer" /\ from.type = "real" /\ result # None => IsWhole(result.n, from)
=============================================================================
