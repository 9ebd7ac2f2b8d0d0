------------------------------ MODULE LargeInt ------------------------------
(***************************************************************************)
(* Arithmetic on integers that do not fit in a word (runtime/rlrgint.r).   *)
(*                                                                         *)
(* A large integer is a sign and a string of digits to the base B = 2^NB,  *)
(* the most significant digit first.  The routines whose names end in 1    *)
(* work on digit strings with the arithmetic of a word of WordBits bits,   *)
(* which is modular; those named big... see to signs, lengths and operands *)
(* that are words.  A descriptor holds an integer or a large integer, and  *)
(* never a large integer that would fit in a word.                         *)
(*                                                                         *)
(* The number of bits is a parameter.  In the builds NB is half of         *)
(* WordBits (h/cpuconf.h), as it is here; the base of numerals, Ten, has   *)
(* only to be smaller than B.  Blocks are values: no two of them share     *)
(* digits, and the collections that an allocation may cause move tended    *)
(* blocks only.                                                            *)
(***************************************************************************)
EXTENDS Integers, SequencesExt, Bitwise

CONSTANTS NB, Ten

LargeIntAssumption ==
    /\ NB \in Nat /\ NB >= 2
    /\ Ten \in 2 .. 2 ^ NB - 1

B == 2 ^ NB
WordBits == 2 * NB
WORDLEN == 2
MinLong == -(2 ^ (WordBits - 1))
MaxLong == 2 ^ (WordBits - 1) - 1
Words == MinLong .. MaxLong

(* What the types word and uword make of an integer.                       *)
uword(i) == i % (2 ^ WordBits)
word(i) == ((i - MinLong) % (2 ^ WordBits)) + MinLong

lo(d) == d % B
hi(d) == uword(d) \div B
signed_hi(d) == word(d) \div B
dbl(a, b) == a * B + b

(* Operations on words that say whether they overflow (runtime/rmisc.r).   *)
(* div and rem are those of C, which truncate.                             *)
Abs(i) == IF i < 0 THEN -i ELSE i
div(a, b) == IF (a < 0) = (b < 0) THEN Abs(a) \div Abs(b) ELSE -(Abs(a) \div Abs(b))
rem(a, b) == a - b * div(a, b)
Unless(over, i) == [over_flow |-> over, val |-> IF over THEN 0 ELSE i]
SameSign(a, b) == (a < 0) = (b < 0)

add(a, b) ==
    Unless(SameSign(a, b) /\ (IF a >= 0 THEN b > MaxLong - a ELSE b < MinLong - a), a + b)
sub(a, b) ==
    Unless(~SameSign(a, b) /\ (IF a >= 0 THEN b < a - MaxLong ELSE b > a - MinLong), a - b)
mul(a, b) ==
    LET over == CASE b = 0 -> FALSE
                  [] b # 0 /\ SameSign(a, b) ->
                         IF a >= 0 THEN a > div(MaxLong, b) ELSE a < div(MaxLong, b)
                  [] OTHER ->
                         b # -1 /\ (IF a >= 0 THEN a > div(MinLong, b) ELSE a < div(MinLong, b))
    IN  Unless(over, a * b)
mod3(a, b) ==
    CASE b = 0 -> Unless(TRUE, 0)
      [] b = MinLong -> Unless(FALSE, IF a > MinLong THEN a ELSE 0)
      [] OTHER -> LET r == rem(a, Abs(b))
                  IN  Unless(FALSE, IF a < 0 /\ r > 0 THEN r - Abs(b) ELSE r)
div3(a, b) ==
    IF b = 0 \/ (b = -1 /\ a = MinLong) THEN Unless(TRUE, 0)
    ELSE Unless(FALSE, div(a - mod3(a, b).val, b))
neg(a) == Unless(a = MinLong, -a)

Integer(i) == [type |-> "integer", val |-> i]
Lrgint(x) == [type |-> "lrgint", sign |-> x.sign, digits |-> x.digits]
Error(n) == [type |-> "error", number |-> n]
IsLarge(d) == d.type = "lrgint"

Bignum(sign, digits) == [sign |-> sign, digits |-> digits]
LEN(x) == Len(x.digits)
Zeros(n) == [i \in 1 .. n |-> 0]
High(n, s) == SubSeq(s, 1, n)
Low(n, s) == SubSeq(s, Len(s) - n + 1, Len(s))
-----------------------------------------------------------------------------
(* Digit strings.                                                          *)

(* One pass over n digits from the least significant one: Dig is what is   *)
(* computed for a digit and the carry that comes into it, of which lo is   *)
(* the digit of the result and Carry goes on to the next.                  *)
Pass(n, Dig(_, _), Carry(_), in) ==
    LET c[i \in 1 .. n + 1] == IF i > n THEN in ELSE Carry(uword(Dig(i, c[i + 1])))
    IN  [carry |-> c[1],
         digits |-> [i \in 1 .. n |-> lo(uword(Dig(i, c[i + 1])))]]

add1(u, v) == Pass(Len(u), LAMBDA i, c : u[i] + v[i] + c, hi, 0)
sub1(u, v) == Pass(Len(u), LAMBDA i, c : u[i] - v[i] + c, signed_hi, 0)
compl1(u) == Pass(Len(u), LAMBDA i, c : c - u[i], signed_hi, 0).digits
addi1(u, k) == Pass(Len(u), LAMBDA i, c : u[i] + c, hi, k)
subi1(u, k) == Pass(Len(u), LAMBDA i, c : u[i] + c, signed_hi, -k).digits
muli1(u, k, c0) == Pass(Len(u), LAMBDA i, c : k * u[i] + c, hi, c0)
shifti1(u, k, c0) ==
    IF k = 0 THEN [carry |-> 0, digits |-> u]
    ELSE Pass(Len(u), LAMBDA i, c : u[i] * 2 ^ k + c, hi, c0)

(* The remainder goes from the most significant digit downwards.           *)
divi1(u, k) ==
    LET left[i \in 0 .. Len(u)] == IF i = 0 THEN 0 ELSE dbl(left[i - 1], u[i]) % k
    IN  [remain |-> left[Len(u)],
         digits |-> [i \in 1 .. Len(u) |-> lo(dbl(left[i - 1], u[i]) \div k)]]

cmp1(u, v) ==
    LET differ == {i \in 1 .. Len(u) : u[i] # v[i]}
    IN  IF differ = {} THEN 0
        ELSE IF u[Min(differ)] > v[Min(differ)] THEN 1 ELSE -1

cmpi1(u, k) ==
    LET n == Len(u)
    IN  CASE \E i \in 1 .. n - 1 : u[i] # 0 -> 1
          [] u[n] = k -> 0
          [] OTHER -> IF u[n] > k THEN 1 ELSE -1

(* One row of the product for each digit of v, added into the rows below.  *)
mul1(u, v) ==
    LET n == Len(u)
        m == Len(v)
        rows[j \in 1 .. m + 1] ==
            IF j > m THEN Zeros(n + m)
            ELSE LET w == rows[j + 1]
                     row == Pass(n, LAMBDA i, c : u[i] * v[j] + w[i + j] + c, hi, 0)
                 IN  High(j - 1, w) \o <<row.carry>> \o row.digits
                         \o Low(m - j, w)
    IN  rows[1]

(* Steps D3 to D6 of Knuth's division, for one digit of the quotient.  w   *)
(* is the n + 1 digits of the dividend that the step is about, of which    *)
(* the leading one is not read again, and v the divisor.                   *)
Qhat(w, v) ==
    LET same == w[1] = v[1]
        numerator == dbl(w[1], w[2])
        qhat == IF same THEN B - 1 ELSE numerator \div v[1]
        rhat == IF same THEN v[1] + w[2] ELSE numerator % v[1]
        TooLarge(k) == /\ rhat + k * v[1] < B
                       /\ uword((qhat - k) * v[2]) > dbl(rhat + k * v[1], w[3])
    IN  qhat - Min({k \in 0 .. B : ~TooLarge(k)})

MultiplyAndSubtract(w, v, qhat) ==
    Pass(Len(v), LAMBDA i, c : w[i + 1] - v[i] * qhat + c,
         LAMBDA dig : IF dig < B THEN hi(dig) ELSE hi(dig) - B, 0)

Divided(w, v) ==
    LET qhat == Qhat(w, v)
        d4 == MultiplyAndSubtract(w, v, qhat)
        d6 == add1(d4.digits, v)
    IN  IF word(d4.carry + w[1]) < 0
        THEN [q |-> lo(qhat - 1), w |-> d6.digits]
        ELSE [q |-> lo(qhat), w |-> d4.digits]

(* The quotient and the remainder of a by b, which has n > 1 digits.       *)
div1(a, b) ==
    LET n == Len(b)
        m == Len(a) - n
        d == Min({k \in 0 .. NB : k = NB \/ b[1] >= 2 ^ (NB - 1 - k)})
        shifted == shifti1(a, d, 0)
        u == <<shifted.carry>> \o shifted.digits
        v == shifti1(b, d, 0).digits
        step[j \in 0 .. m] ==
            LET w == IF j = 0 THEN High(n + 1, u)
                     ELSE Append(step[j - 1].w, u[j + n + 1])
            IN  Divided(w, v)
        left == step[m].w
        back == shifti1(High(n - 1, left), NB - d, left[n] \div 2 ^ d)
    IN  [q |-> [j \in 1 .. m + 1 |-> step[j - 1].q],
         r |-> IF d = 0 THEN left
               ELSE <<back.carry>> \o back.digits]
-----------------------------------------------------------------------------
(* Blocks and descriptors.                                                 *)

Significant(ds) == Low(Len(ds) - Min({i \in DOMAIN ds : i = Len(ds) \/ ds[i] # 0}) + 1, ds)
MaxWord == <<2 ^ ((WordBits - 1) % NB)>> \o Zeros(WORDLEN - 1)

(* Slip: the word that only a negative integer may have is forgotten.      *)
FitsWord_AnySign(sign, ds) ==
    Len(ds) < WORDLEN \/ (Len(ds) = WORDLEN /\ cmp1(ds, MaxWord) < 0)

FitsWord(sign, ds) ==
    \/ Len(ds) < WORDLEN
    \/ Len(ds) = WORDLEN /\ cmp1(ds, MaxWord) < (IF sign = 1 THEN 1 ELSE 0)

ToWord(sign, ds) ==
    LET val[i \in 1 .. Len(ds)] ==
            word(IF i = 1 THEN -ds[1] ELSE uword(val[i - 1]) * B - ds[i])
    IN  IF sign = 1 THEN val[Len(ds)] ELSE word(-val[Len(ds)])

Described(sign, ds) ==
    IF FitsWord(sign, ds) THEN Integer(ToWord(sign, ds)) ELSE Lrgint(Bignum(sign, ds))

(* Leading zeros go, and what fits in a word becomes an integer.           *)
mkdesc(x) == Described(x.sign, Significant(x.digits))

itobig(i) ==
    LET rest[k \in 0 .. MaxLong + 1] ==
            IF k = 0 THEN <<>> ELSE Append(rest[hi(k)], lo(k))
        d == lo(i)
    IN  CASE i = 0 -> Bignum(0, <<0>>)
          [] i > 0 -> Bignum(0, rest[i])
          [] OTHER -> IF d = 0 THEN Bignum(1, Append(rest[-signed_hi(i)], 0))
                      ELSE Bignum(1, Append(rest[-signed_hi(i + B)], B - d))

Big(d) == IF IsLarge(d) THEN Bignum(d.sign, d.digits) ELSE itobig(d.val)
Flipped(x) == [x EXCEPT !.sign = 1 - @]
cpbignum(x) == mkdesc(x)
-----------------------------------------------------------------------------
(* Sums and differences.  DigitDifference takes the smaller string from *)
(* the larger.                                                             *)
DigitSum(u, v) ==
    LET a == IF Len(u) >= Len(v) THEN u ELSE v
        b == IF Len(u) >= Len(v) THEN v ELSE u
        low == add1(Low(Len(b), a), b)
        high == addi1(High(Len(a) - Len(b), a), low.carry)
    IN  <<high.carry>> \o high.digits \o low.digits

DigitDifference(u, v) ==
    LET low == sub1(Low(Len(v), u), v)
    IN  subi1(High(Len(u) - Len(v), u), -low.carry) \o low.digits

SignedSum(a, b) ==
    IF a.sign = b.sign THEN Bignum(a.sign, DigitSum(a.digits, b.digits))
    ELSE IF \/ LEN(a) > LEN(b)
            \/ LEN(a) = LEN(b) /\ cmp1(a.digits, b.digits) > 0
    THEN Bignum(a.sign, DigitDifference(a.digits, b.digits))
    ELSE Bignum(b.sign, DigitDifference(b.digits, a.digits))

SignedDifference(a, b) == SignedSum(a, Flipped(b))

(* a + k and a - k for 0 <= k < B, where a is not smaller than k.          *)
PlusDigit(a, k) ==
    IF a.sign = 1 THEN Bignum(1, subi1(a.digits, k))
    ELSE LET s == addi1(a.digits, k) IN Bignum(0, <<s.carry>> \o s.digits)
MinusDigit(a, k) ==
    IF a.sign = 0 THEN Bignum(0, subi1(a.digits, k))
    ELSE LET s == addi1(a.digits, k) IN Bignum(1, <<s.carry>> \o s.digits)

(* A negative i other than MinLong is negated and handed to the other one. *)
PlusWord(a, i) == IF i \in 0 .. B - 1 THEN PlusDigit(a, i) ELSE SignedSum(a, itobig(i))
MinusWord(a, i) ==
    IF i \in 0 .. B - 1 THEN MinusDigit(a, i) ELSE SignedDifference(a, itobig(i))
bigaddi(a, i) == mkdesc(IF i < 0 /\ i > MinLong THEN MinusWord(a, -i) ELSE PlusWord(a, i))
bigsubi(a, i) == mkdesc(IF i < 0 /\ i > MinLong THEN PlusWord(a, -i) ELSE MinusWord(a, i))

bigadd(da, db) ==
    CASE IsLarge(da) /\ IsLarge(db) -> mkdesc(SignedSum(Big(da), Big(db)))
      [] IsLarge(da) /\ ~IsLarge(db) -> bigaddi(Big(da), db.val)
      [] ~IsLarge(da) /\ IsLarge(db) -> bigaddi(Big(db), da.val)
      [] OTHER -> bigaddi(Big(da), db.val)

bigsub(da, db) ==
    IF IsLarge(db) THEN mkdesc(SignedDifference(Big(da), Big(db)))
    ELSE bigsubi(Big(da), db.val)

bigneg(da) == cpbignum(Flipped(Big(da)))
-----------------------------------------------------------------------------
(* Products, quotients, remainders and powers.                             *)

IsDigit(i) == i > -B /\ i < B
SignOf(i) == IF i < 0 THEN 1 ELSE 0
Xor01(s, t) == IF s = t THEN 0 ELSE 1

Product(a, b) == mkdesc(Bignum(Xor01(a.sign, b.sign), mul1(a.digits, b.digits)))

bigmuli(a, i) ==
    IF ~IsDigit(i) THEN Product(a, itobig(i))
    ELSE LET p == muli1(a.digits, Abs(i), 0)
         IN  mkdesc(Bignum(Xor01(a.sign, SignOf(i)), <<p.carry>> \o p.digits))

bigmul(da, db) ==
    CASE IsLarge(da) /\ IsLarge(db) -> Product(Big(da), Big(db))
      [] ~IsLarge(da) /\ IsLarge(db) -> bigmuli(Big(db), da.val)
      [] OTHER -> bigmuli(Big(da), db.val)

Quotient(a, b) ==
    IF LEN(a) < LEN(b) THEN Integer(0)
    ELSE mkdesc(Bignum(Xor01(a.sign, b.sign),
                       IF LEN(b) = 1 THEN divi1(a.digits, b.digits[1]).digits
                       ELSE div1(a.digits, b.digits).q))

Remainder(a, b) ==
    IF LEN(a) < LEN(b) THEN cpbignum(a)
    ELSE mkdesc(Bignum(a.sign,
                       IF LEN(b) = 1 THEN <<divi1(a.digits, b.digits[1]).remain>>
                       ELSE div1(a.digits, b.digits).r))

bigdivi(a, i) ==
    IF ~IsDigit(i) THEN Quotient(a, itobig(i))
    ELSE mkdesc(Bignum(Xor01(a.sign, SignOf(i)), divi1(a.digits, Abs(i)).digits))

bigmodi(a, i) ==
    IF ~IsDigit(i) THEN Remainder(a, itobig(i))
    ELSE LET r == divi1(a.digits, Abs(i)).remain
         IN  Integer(IF a.sign = 1 THEN -r ELSE r)

bigdiv(da, db) == IF IsLarge(db) THEN Quotient(Big(da), Big(db)) ELSE bigdivi(Big(da), db.val)
bigmod(da, db) == IF IsLarge(db) THEN Remainder(Big(da), Big(db)) ELSE bigmodi(Big(da), db.val)

SeqBits(ds) ==
    FlattenSeq([i \in DOMAIN ds |-> [k \in 1 .. NB |-> (ds[i] \div 2 ^ (NB - k)) % 2]])

(* A step of a power: squared, and multiplied if the bit is 1.             *)
Multiplied(sq, da, bit) == IF bit = 1 THEN bigmul(sq, da) ELSE sq
PowerBit(dx, da, bit) == Multiplied(bigmul(dx, dx), da, bit)

(* integer ^ large: the bits of the exponent from the most significant.    *)
bigpow(da, b) ==
    CASE IsLarge(da) -> IF b.sign = 1 THEN Integer(0) ELSE Error(307)
      [] ~IsLarge(da) /\ b.sign = 1 ->
             CASE da.val = 1 -> Integer(1)
               [] da.val = -1 -> Integer(IF b.digits[LEN(b)] % 2 = 1 THEN -1 ELSE 1)
               [] da.val = 0 -> Error(204)
               [] OTHER -> Integer(0)
      [] OTHER -> FoldLeft(LAMBDA dx, bit : PowerBit(dx, da, bit), Integer(1), SeqBits(b.digits))

(* The bits of a word below its leading 1.                                 *)
BitsBelow(i) == LET bits == SeqBits(itobig(i).digits)
                    lead == Min({k \in DOMAIN bits : bits[k] = 1})
                IN  SubSeq(bits, lead + 1, Len(bits))

bigpowi(da, i) ==
    CASE i > 0 -> FoldLeft(LAMBDA dx, bit : PowerBit(dx, da, bit), da, BitsBelow(i))
      [] i = 0 -> Integer(1)
      [] OTHER -> Integer(0)

(* The partial result is a word x until a product y overflows, whose large *)
(* form does not fit in a word either; from then on it is dx.              *)
WordProduct(s, y, dx) ==
    IF ~y.over_flow THEN [s EXCEPT !.x = y.val] ELSE [s EXCEPT !.dx = dx, !.isbig = IsLarge(dx)]
TimesWord(s, f) == WordProduct(s, mul(s.x, f), bigmuli(itobig(s.x), f))
SquaredWord(s) == IF s.isbig THEN [s EXCEPT !.dx = bigmul(@, @)] ELSE TimesWord(s, s.x)
TimesBase(s, a) == IF s.isbig THEN [s EXCEPT !.dx = bigmul(@, Integer(a))] ELSE TimesWord(s, a)
MultipliedWord(sq, a, bit) == IF bit = 1 THEN TimesBase(sq, a) ELSE sq
PowerOf(end) == IF end.isbig THEN end.dx ELSE Integer(end.x)

bigpowii(a, i) ==
    CASE a = 0 /\ i <= 0 -> Error(204)
      [] a # 0 /\ i = 0 -> Integer(1)
      [] a # 0 /\ i < 0 -> Integer(CASE a = 1 \/ (a = -1 /\ i % 2 = 0) -> 1
                                    [] a = -1 /\ i % 2 # 0 -> -1
                                    [] OTHER -> 0)
      [] OTHER ->
             PowerOf(FoldLeft(LAMBDA s, bit : MultipliedWord(SquaredWord(s), a, bit),
                              [isbig |-> FALSE, x |-> a, dx |-> Integer(0)], BitsBelow(i)))
-----------------------------------------------------------------------------
(* Bits, shifts, comparisons, random numbers and numerals.                 *)

(* The two's complement of x in n digits, without the sign.                *)
Complemented(x, n) ==
    LET ds == Zeros(n - LEN(x)) \o x.digits
    IN  IF x.sign = 1 THEN compl1(ds) ELSE ds

BitOp(sign, ds) == mkdesc(Bignum(sign, IF sign = 1 THEN compl1(ds) ELSE ds))
Width(a, b) == Max({LEN(a), LEN(b)})

bigand(a, b) ==
    LET n == Width(a, b) IN
    BitOp(IF a.sign = 1 /\ b.sign = 1 THEN 1 ELSE 0,
          [i \in 1 .. n |-> Complemented(a, n)[i] & Complemented(b, n)[i]])
bigor(a, b) ==
    LET n == Width(a, b) IN
    BitOp(IF a.sign = 1 \/ b.sign = 1 THEN 1 ELSE 0,
          [i \in 1 .. n |-> Complemented(a, n)[i] | Complemented(b, n)[i]])
bigxor(a, b) ==
    LET n == Width(a, b) IN
    BitOp(Xor01(a.sign, b.sign),
          [i \in 1 .. n |-> Complemented(a, n)[i] ^^ Complemented(b, n)[i]])

(* By q digits and r bits, to the left if q is not negative.               *)
bigshift(a, i) ==
    LET r == i % NB
        q == (i - r) \div NB
        ad == Complemented(a, LEN(a))
        n == LEN(a) + q + 1
        part == IF q >= 0 THEN shifti1(ad, r, 0)
                ELSE shifti1(High(n - 1, ad), r, IF r = 0 THEN 0 ELSE ad[n] \div 2 ^ (NB - r))
        top == IF a.sign = 1 THEN part.carry | (B - 2 ^ r) ELSE part.carry
        ds == <<top>> \o part.digits \o Zeros(IF q >= 0 THEN q ELSE 0)
    IN  IF n <= 0 THEN Integer(-a.sign)
        ELSE mkdesc(Bignum(a.sign, IF a.sign = 1 THEN compl1(ds) ELSE ds))

(* Negative, zero or positive.                                             *)
CompareBig(a, b) ==
    CASE a.sign # b.sign -> b.sign - a.sign
      [] a.sign = b.sign /\ LEN(a) # LEN(b) ->
             IF a.sign = 1 THEN LEN(b) - LEN(a) ELSE LEN(a) - LEN(b)
      [] OTHER -> IF a.sign = 1 THEN cmp1(b.digits, a.digits) ELSE cmp1(a.digits, b.digits)

bigcmpi(a, i) ==
    IF ~IsDigit(i) THEN CompareBig(a, itobig(i))
    ELSE IF i >= 0 THEN IF a.sign = 1 THEN -1 ELSE cmpi1(a.digits, i)
    ELSE IF a.sign = 1 THEN -cmpi1(a.digits, -i) ELSE 1

bigcmp(da, db) ==
    CASE IsLarge(da) /\ IsLarge(db) -> CompareBig(Big(da), Big(db))
      [] IsLarge(da) /\ ~IsLarge(db) -> bigcmpi(Big(da), db.val)
      [] OTHER -> -bigcmpi(Big(db), da.val)

(* One digit more than a has, drawn at random.                             *)
bigrand(a, d) == mkdesc(Bignum(0, addi1(div1(d, a.digits).r, 1).digits))

(* A numeral: its digits to the base r, read into a block of len digits.   *)
bigradix(sign, r, s, len) ==
    mkdesc(Bignum(sign, FoldLeft(LAMBDA bd, c : muli1(bd, r, c).digits, Zeros(len), s)))

(* The decimal digits of a large integer.                                  *)
bigtos(a) ==
    LET strip[k \in 0 .. NB * LEN(a)] ==
            IF k = 0 THEN [n |-> a.digits, s |-> <<>>]
            ELSE LET t == strip[k - 1]
                     d == divi1(t.n, Ten)
                 IN  IF cmpi1(t.n, 0) = 0 THEN t
                     ELSE [n |-> d.digits, s |-> <<d.remain>> \o t.s]
    IN  strip[NB * LEN(a)].s
=============================================================================
