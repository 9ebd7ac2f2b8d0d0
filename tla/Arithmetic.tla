----------------------------- MODULE Arithmetic -----------------------------
(***************************************************************************)
(* Icon's operations on integers: the operators of runtime/oarith.r and    *)
(* ocomp.r, the bitwise functions and seq of fmisc.r, i to j by k of       *)
(* omisc.r, ?i of oref.r and the conversions of cnv.r, over the large      *)
(* integers of LargeInt.                                                   *)
(*                                                                         *)
(* The state is that of a calculation: x is a value computed so far, which *)
(* starts as a word, y an operand read from a numeral, op the operation    *)
(* last performed and z its result, which becomes the next x.  limit and   *)
(* count belong to the two generators: limit is the bound of x to limit    *)
(* by y, and count how often the generator was resumed.                    *)
(***************************************************************************)
EXTENDS LargeInt

CONSTANTS
    Operand,        \* the integers that are read from numerals
    BigMantissa,    \* where ston stops accumulating a word (Big)
    MaxValue,       \* bound: the values a calculation goes on with
    PowerBits       \* bound: bits of the powers that are computed

ArithmeticAssumption ==
    /\ LargeIntAssumption
    /\ BigMantissa \in Nat \ {0} /\ BigMantissa * Ten <= MaxLong + 1

VARIABLES x, y, arg, op, z, limit, count
vars == <<x, y, arg, op, z, limit, count>>

None == [type |-> "none"]
IsWord(d) == d.type = "integer"
IsInteger(d) == IsWord(d) \/ IsLarge(d)
-----------------------------------------------------------------------------
(* Conversions between numerals and integers.                              *)

(* The digits of a natural number to a base, none for 0.                   *)
DigitsOf(n, base) ==
    LET ds[k \in 0 .. n] == IF k = 0 THEN <<>> ELSE Append(ds[k \div base], k % base)
    IN  ds[n]

(* The length that bigradix estimates from logarithms is enough, and may   *)
(* be one or two digits too high.                                          *)
Lengths(r, s) ==
    LET need == Min({n \in 1 .. Len(s) : B ^ n >= r ^ Len(s)})
    IN  need .. need + 1

ston(sign, s, len) ==
    LET Next1(t, c) == IF t.mantissa < BigMantissa
                       THEN [t EXCEPT !.mantissa = @ * Ten + c]
                       ELSE [t EXCEPT !.scale = @ + 1]
        read == FoldLeft(Next1, [mantissa |-> 0, scale |-> 0], s)
    IN  IF read.scale = 0 /\ read.mantissa <= MaxLong
        THEN Integer(IF sign = 1 THEN -read.mantissa ELSE read.mantissa)
        ELSE bigradix(sign, Ten, s, len)

itos(i) == IF i = 0 THEN <<0>> ELSE DigitsOf(Abs(i), Ten)
-----------------------------------------------------------------------------
(* The operators.                                                          *)

(* Words are tried first; what overflows is done again on large integers.  *)
ArithOp(a, b, small, big) ==
    IF IsWord(a) /\ IsWord(b) /\ ~small.over_flow THEN Integer(small.val) ELSE big

IsZero(d) == d = Integer(0)
plus(a, b) == ArithOp(a, b, add(a.val, b.val), bigadd(a, b))
minus(a, b) == ArithOp(a, b, sub(a.val, b.val), bigsub(a, b))
mult(a, b) == ArithOp(a, b, mul(a.val, b.val), bigmul(a, b))
divide(a, b) ==
    IF IsZero(b) THEN Error(201) ELSE ArithOp(a, b, div3(a.val, b.val), bigdiv(a, b))
mod(a, b) ==
    IF IsZero(b) THEN Error(202) ELSE ArithOp(a, b, mod3(a.val, b.val), bigmod(a, b))
negate(a) == IF IsWord(a) /\ a.val # MinLong THEN Integer(neg(a.val).val) ELSE bigneg(a)
powr(a, b) ==
    CASE IsLarge(b) -> bigpow(a, b)
      [] IsWord(b) /\ IsLarge(a) -> bigpowi(a, b.val)
      [] OTHER -> bigpowii(a.val, b.val)
compare(a, b) ==
    Integer(IF IsWord(a) /\ IsWord(b)
            THEN CASE a.val < b.val -> -1 [] a.val = b.val -> 0 [] OTHER -> 1
            ELSE LET c == bigcmp(a, b)
                 IN  CASE c < 0 -> -1 [] c = 0 -> 0 [] OTHER -> 1)

bitop(a, b, small, big) == IF IsWord(a) /\ IsWord(b) THEN Integer(word(small)) ELSE big
iand(a, b) == bitop(a, b, uword(a.val) & uword(b.val), bigand(Big(a), Big(b)))
ior(a, b) == bitop(a, b, uword(a.val) | uword(b.val), bigor(Big(a), Big(b)))
ixor(a, b) == bitop(a, b, uword(a.val) ^^ uword(b.val), bigxor(Big(a), Big(b)))
icom(a) == IF IsLarge(a) THEN bigsub(Integer(-1), a) ELSE Integer(-1 - a.val)

(* Left if j is positive.                                                  *)
ishift(a, b) ==
    LET j == b.val
        ci == uword(a.val)
        NotInWord == \/ IsLarge(a)
                     \/ j >= WordBits
                     \/ ci # 0 /\ j > 0 /\ ci >= 2 ^ (WordBits - j - 1)
    IN  CASE IsLarge(b) -> Error(101)
          [] IsWord(b) /\ NotInWord -> bigshift(Big(a), j)
          [] OTHER ->
                 Integer(CASE j <= -WordBits -> IF a.val >= 0 THEN 0 ELSE -1
                           [] j >= 0 -> word(ci * 2 ^ j)
                           [] a.val >= 0 /\ j < 0 /\ j > -WordBits -> ci \div 2 ^ (-j)
                           [] OTHER -> -1 - ((-1 - a.val) \div 2 ^ (-j)))
-----------------------------------------------------------------------------
(* The calculation.                                                        *)

Init == /\ \E i \in Words : x = Integer(i)
        /\ y = None /\ z = None
        /\ arg = 0 /\ limit = 0 /\ count = 0
        /\ op = "start"

(* The operand is written in the program, or read.                         *)
ReadOperand ==
    /\ op = "start"
    /\ \E i \in Operand : LET s == itos(i) IN
           \E len \in Lengths(Ten, s) :
               /\ y' = ston(SignOf(i), s, len)
               /\ arg' = i
    /\ op' = "ready"
    /\ UNCHANGED <<x, z, limit, count>>

Result(f, d) ==
    /\ op = "ready"
    /\ op' = f
    /\ z' = d
    /\ UNCHANGED <<x, y, arg, limit, count>>

ValueOf(d) ==
    IF IsWord(d) THEN d.val
    ELSE (IF d.sign = 1 THEN -1 ELSE 1) * FoldLeft(LAMBDA n, e : n * B + e, 0, d.digits)

(* TLC's numbers are small: only powers of few bits are computed.          *)
PowerFits ==
    \/ ValueOf(y) <= 0
    \/ Len(DigitsOf(Abs(ValueOf(x)), 2)) * ValueOf(y) <= PowerBits

Plus == Result("+", plus(x, y))
Minus == Result("-", minus(x, y))
Mult == Result("*", mult(x, y))
Divide == Result("/", divide(x, y))
Mod == Result("%", mod(x, y))
Powr == op = "ready" /\ PowerFits /\ Result("^", powr(x, y))
Compare == Result("compare", compare(x, y))
Iand == Result("iand", iand(x, y))
Ior == Result("ior", ior(x, y))
Ixor == Result("ixor", ixor(x, y))
Ishift == Result("ishift", ishift(x, y))

(* Operations on one value, which need not be repeated for every operand.  *)
Unary == arg = 0
Neg == Unary /\ Result("neg", negate(x))
Icom == Unary /\ Result("icom", icom(x))
Convert == Unary /\ Result("string", [type |-> "numeral",
                                     digits |-> IF IsWord(x) THEN itos(x.val) ELSE bigtos(x)])
Random ==
    /\ Unary
    /\ IF IsLarge(x)
       THEN \E d \in [1 .. LEN(x) + 1 -> 0 .. B - 1] : Result("?", bigrand(x, d))
       ELSE \/ x.val > 0 /\ \E i \in 1 .. x.val : Result("?", Integer(i))
            \/ x.val < 0 /\ Result("?", Error(205))

(* The result is the next operand.                                         *)
Continue ==
    /\ IsInteger(z) /\ op \notin {"start", "ready"}
    /\ Abs(ValueOf(z)) <= MaxValue
    /\ x' = z
    /\ y' = None /\ z' = None
    /\ arg' = 0 /\ limit' = 0 /\ count' = 0
    /\ op' = "start"
-----------------------------------------------------------------------------
(* Generators.  The counter is a word, and wraps.                          *)

InToBy(i, to) == IF y.val > 0 THEN i <= to ELSE i >= to

StartToby ==
    /\ op = "ready" /\ IsWord(x) /\ IsWord(y)
    /\ \E to \in Words :
          /\ limit' = to
          /\ IF IsZero(y) THEN op' = "toby ends" /\ z' = Error(211)
             ELSE IF InToBy(x.val, to) THEN op' = "toby" /\ z' = x
             ELSE op' = "toby ends" /\ z' = None
    /\ UNCHANGED <<x, y, arg, count>>

ResumeToby ==
    /\ op = "toby"
    /\ count < 2 ^ WordBits
    /\ LET from == word(z.val + y.val)
       IN  IF InToBy(from, limit)
           THEN op' = "toby" /\ z' = Integer(from)
           ELSE op' = "toby ends" /\ z' = None
    /\ count' = count + 1
    /\ UNCHANGED <<x, y, arg, limit>>

StartSeq ==
    /\ op = "ready" /\ IsWord(x) /\ IsWord(y)
    /\ IF IsZero(y) THEN op' = "seq ends" /\ z' = Error(211)
       ELSE op' = "seq" /\ z' = x
    /\ UNCHANGED <<x, y, arg, limit, count>>

ResumeSeq ==
    /\ op = "seq"
    /\ LET seq_lb == IF y.val > 0 THEN MinLong + y.val ELSE MinLong
           seq_ub == IF y.val > 0 THEN MaxLong ELSE MaxLong + y.val
           from == word(z.val + y.val)
       IN  IF from >= seq_lb /\ from <= seq_ub
           THEN op' = "seq" /\ z' = Integer(from)
           ELSE op' = "seq ends" /\ z' = Error(203)
    /\ count' = count + 1
    /\ UNCHANGED <<x, y, arg, limit>>

Next ==
    \/ ReadOperand \/ Continue
    \/ Plus \/ Minus \/ Mult \/ Divide \/ Mod \/ Powr \/ Neg \/ Compare
    \/ Iand \/ Ior \/ Ixor \/ Icom \/ Ishift \/ Random \/ Convert
    \/ StartToby \/ ResumeToby \/ StartSeq \/ ResumeSeq

Spec == Init /\ [][Next]_vars
-----------------------------------------------------------------------------
(* Properties.                                                             *)

(* The one descriptor that stands for an integer: a word if it fits in     *)
(* one, else a large integer without leading zeros.                        *)
Descriptor(i) ==
    IF i \in Words THEN Integer(i)
    ELSE Lrgint(Bignum(SignOf(i), DigitsOf(Abs(i), B)))

(* The integer whose two's complement has the bits Op(i, j) gives those of *)
(* i and j.                                                                *)
Bitwise2(Op(_, _), i, j) ==
    LET n == 2 * Max({Abs(i), Abs(j), 1})
        width == 2 ^ Len(DigitsOf(n, 2))
        bits == Op(i % width, j % width)
    IN  IF bits >= width \div 2 THEN bits - width ELSE bits

Power(i, j) ==
    CASE i = 0 /\ j <= 0 -> Error(204)
      [] i # 0 /\ j < 0 -> Descriptor(IF Abs(i) > 1 THEN 0 ELSE IF j % 2 = 0 THEN 1 ELSE i)
      [] OTHER -> Descriptor(i ^ j)

(* What the operation is in the integers.                                  *)
Meant(f, i, j) ==
    CASE f = "+" -> Descriptor(i + j)
      [] f = "-" -> Descriptor(i - j)
      [] f = "*" -> Descriptor(i * j)
      [] f = "/" -> IF j = 0 THEN Error(201) ELSE Descriptor(div(i, j))
      [] f = "%" -> IF j = 0 THEN Error(202) ELSE Descriptor(i - j * div(i, j))
      [] f = "^" -> Power(i, j)
      [] f = "neg" -> Descriptor(-i)
      [] f = "icom" -> Descriptor(-1 - i)
      [] f = "compare" -> Integer(IF i < j THEN -1 ELSE IF i = j THEN 0 ELSE 1)
      [] f = "iand" -> Descriptor(Bitwise2(LAMBDA d, e : d & e, i, j))
      [] f = "ior" -> Descriptor(Bitwise2(LAMBDA d, e : d | e, i, j))
      [] f = "ixor" -> Descriptor(Bitwise2(LAMBDA d, e : d ^^ e, i, j))
      [] f = "ishift" -> IF j \notin Words THEN Error(101)
                         ELSE Descriptor(IF j >= 0 THEN i * 2 ^ j ELSE i \div 2 ^ (-j))

Exactly(ops) == op \in ops => z = Meant(op, ValueOf(x), arg)

(* iand and ixor lose the sign of a result whose digits, as many as the    *)
(* longer operand has, are all zero; see BitsExact.                        *)
DigitsVanish ==
    /\ op \in {"iand", "ixor"}
    /\ IsLarge(x) \/ IsLarge(y)
    /\ ValueOf(Meant(op, ValueOf(x), arg)) = -(B ^ Max({LEN(Big(x)), LEN(Big(y))}))

(* Every value, of a numeral or of an operation on computed values, is the *)
(* one descriptor of the right integer: operations overflow into large     *)
(* integers exactly when they have to, large integers become words again   *)
(* when they fit, and the digits in between are right.                     *)
Calculates ==
    /\ op # "start" => y = Descriptor(arg)
    /\ Exactly({"+", "-", "*", "/", "%", "^", "neg", "icom", "compare", "ior", "ishift"})
    /\ ~DigitsVanish => Exactly({"iand", "ixor"})
    /\ op = "?" /\ ValueOf(x) > 0 /\ IsInteger(z) => ValueOf(z) \in 1 .. ValueOf(x)
    /\ op = "string" =>
           FoldLeft(LAMBDA n, d : n * Ten + d, 0, z.digits) = Abs(ValueOf(x))

(* fmisc.r says of the bitwise functions that they "produce bitwise" and   *)
(* and exclusive or.                                                       *)
BitsExact == Exactly({"iand", "ixor"})

(* A generator produces the numbers of its progression in order, and ends  *)
(* where the next one is past the limit or is no word.  Of i to j by k     *)
(* this holds as long as the number past the limit is a word.              *)
CounterFits == limit + y.val \in Words
Progresses ==
    /\ op \in {"toby", "seq"} => z.val = x.val + count * y.val
    /\ op = "toby" => InToBy(x.val + count * y.val, limit)
    /\ op = "toby ends" /\ ~IsZero(y) => ~InToBy(x.val + count * y.val, limit)
    /\ op = "seq ends" /\ ~IsZero(y) => x.val + count * y.val \notin Words
Counts == op \in {"seq", "seq ends"} \/ (op \in {"toby", "toby ends"} /\ CounterFits) => Progresses

(* Both: what an operation or a generator produces is what it means.       *)
Exact == Calculates /\ Counts

(* omisc.r says of toby that it suspends "each value in sequence, failing  *)
(* when the limit has been exceeded".                                      *)
TobyStops == op = "toby" => Progresses

(* fmisc.r describes ishift(i, j) as shifting to the left if j < 0.        *)
ShiftsAsSaid ==
    op = "ishift" /\ IsWord(x) /\ arg \in Words => z = Meant("ishift", ValueOf(x), -arg)
=============================================================================
