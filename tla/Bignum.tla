------------------------------- MODULE Bignum -------------------------------
(***************************************************************************)
(* bignum.c: integers of any size as a sign and limbs, low limb first, with *)
(* a carry or a borrow that runs through them.  The width of a limb, 32     *)
(* bits in the code, is a constant, so that TLC can compare every operation *)
(* with the integers.                                                       *)
(***************************************************************************)
EXTENDS Integers, Sequences, FiniteSets, FiniteSetsExt, SequencesExt, Bitwise

CONSTANTS
    LimbBits,
    Radix,          \* of the text: ten
    ChunkDigits     \* digits that one limb holds in to_decimal_string: nine

Base == 2 ^ LimbBits

-----------------------------------------------------------------------------
(* Limbs *)

Limb(limbs, i) == IF i \in DOMAIN limbs THEN limbs[i] ELSE 0

Zeros(n) == [i \in 1 .. n |-> 0]

Trim(limbs) == SubSeq(limbs, 1, Max({0} \cup {i \in DOMAIN limbs : limbs[i] # 0}))

\* What a column passes on to the next.  A sum is a uint64_t, a difference an int64_t.
Carry(sum) == IF sum < 0 THEN sum \div Base ELSE (sum % (Base * Base)) \div Base

\* The loop of every limb by limb operation: columns are summed from the low end, with a carry
\* that may be negative.
Ripple(columns, carry) ==
    LET into[i \in 1 .. Len(columns) + 1] ==
          IF i = 1 THEN carry ELSE Carry(columns[i - 1] + into[i - 1])
    IN [limbs |-> [i \in DOMAIN columns |-> (columns[i] + into[i]) % Base],
        carry |-> into[Len(columns) + 1]]

Magnitude(n) == IF n < 0 THEN - n ELSE n

Order(x, y) == IF x < y THEN -1 ELSE IF x > y THEN 1 ELSE 0

MagCompare(a, b) ==
    LET differing == {i \in DOMAIN a : a[i] # b[i]}
    IN CASE Len(a) # Len(b)  -> Order(Len(a), Len(b))
         [] a = b            -> 0
         [] OTHER            -> Order(a[Max(differing)], b[Max(differing)])

MagAdd(a, b) ==
    LET sum == Ripple([i \in 1 .. Max({Len(a), Len(b)}) |-> Limb(a, i) + Limb(b, i)], 0)
    IN Append(sum.limbs, sum.carry)

\* a is at least b.
MagSub(a, b) == Ripple([i \in DOMAIN a |-> a[i] - Limb(b, i)], 0).limbs

MagMul(a, b) ==
    LET Row(r, i) ==
          LET high == SubSeq(r, i, Len(r))
          IN SubSeq(r, 1, i - 1) \o Ripple([j \in DOMAIN high |-> high[j] + a[i] * Limb(b, j)], 0).limbs
    IN FoldLeftDomain(Row, Zeros(Len(a) + Len(b)), a)

ShlBits(a, s) ==
    [i \in 1 .. Len(a) + 1 |-> ((Limb(a, i) * 2 ^ s) % Base) + Limb(a, i - 1) \div 2 ^ (LimbBits - s)]

ShrBits(a, s) ==
    [i \in DOMAIN a |-> a[i] \div 2 ^ s + ((Limb(a, i + 1) * 2 ^ (LimbBits - s)) % Base)]

-----------------------------------------------------------------------------
(* Division of magnitudes *)

DivModSmall(a, d) ==
    LET rem[i \in 1 .. Len(a) + 1] == IF i > Len(a) THEN 0 ELSE (rem[i + 1] * Base + a[i]) % d
    IN [q |-> [i \in DOMAIN a |-> (rem[i + 1] * Base + a[i]) \div d], r |-> <<rem[1]>>]

LeadingZeros(limb) == Min({s \in 0 .. LimbBits : limb * 2 ^ s >= Base \div 2})

\* The guess at a quotient limb: from the top limbs, then taken back while the next limb shows
\* it too big.
QHat(top, next, third, vTop, vSecond) ==
    LET numerator == top * Base + next
        first == Min({numerator \div vTop, Base - 1})
        Rest(back) == numerator - (first - back) * vTop
        TooBig(back) ==
            Rest(back) < Base /\ (first - back) * vSecond > Rest(back) * Base + third
    IN first - Min({back \in 0 .. first : ~ TooBig(back)})

\* What is left when the guess was still one too big: the divisor goes back on.
AddBack(left, v) ==
    IF left.carry >= 0 THEN left.limbs
    ELSE Ripple([i \in DOMAIN left.limbs |-> left.limbs[i] + Limb(v, i)], 0).limbs

\* mag_divmod_knuth: Algorithm D, for a divisor of at least two limbs.
DivModKnuth(a, b) ==
    LET n == Len(b)
        m == Len(a) - n
        s == LeadingZeros(b[n])
        v == SubSeq(ShlBits(b, s), 1, n)
        Step(work, j) ==
          LET u == work.u
              qhat == QHat(u[j + n + 1], u[j + n], u[j + n - 1], v[n], v[n - 1])
              left == Ripple([i \in 1 .. n + 1 |-> u[j + i] - qhat * Limb(v, i)], 0)
          IN [u |-> [i \in DOMAIN u |-> IF i - j \in 1 .. n + 1 THEN AddBack(left, v)[i - j] ELSE u[i]],
              q |-> <<IF left.carry < 0 THEN qhat - 1 ELSE qhat>> \o work.q]
        done == FoldLeft(Step, [u |-> ShlBits(a, s), q |-> <<>>], [k \in 1 .. m + 1 |-> m + 1 - k])
    IN IF m < 0 THEN [q |-> <<>>, r |-> a]
       ELSE [q |-> done.q, r |-> ShrBits(SubSeq(done.u, 1, n), s)]

MagDivMod(a, b) == IF Len(b) = 1 THEN DivModSmall(a, b[1]) ELSE DivModKnuth(a, b)

-----------------------------------------------------------------------------
(* Signed numbers *)

Signed(sign, limbs) == [sign |-> IF Trim(limbs) = <<>> THEN 0 ELSE sign, limbs |-> Trim(limbs)]

FromInt64(v) ==
    Signed(Order(v, 0), <<Magnitude(v) % Base, Magnitude(v) \div Base>>)

One == FromInt64(1)

Compare(a, b) ==
    CASE a.sign # b.sign -> Order(a.sign, b.sign)
      [] OTHER           -> a.sign * MagCompare(a.limbs, b.limbs)

Negate(a) == [a EXCEPT !.sign = - @]

Add(a, b) ==
    CASE a.sign = 0      -> b
      [] b.sign = 0      -> a
      [] a.sign = b.sign -> Signed(a.sign, MagAdd(a.limbs, b.limbs))
      [] OTHER           -> IF MagCompare(a.limbs, b.limbs) >= 0
                            THEN Signed(a.sign, MagSub(a.limbs, b.limbs))
                            ELSE Signed(b.sign, MagSub(b.limbs, a.limbs))

Sub(a, b) == Add(a, Negate(b))

Mul(a, b) == Signed(IF a.sign = b.sign THEN 1 ELSE -1, MagMul(a.limbs, b.limbs))

\* b is not zero.
DivModTrunc(a, b) ==
    LET d == MagDivMod(a.limbs, b.limbs)
    IN [q |-> Signed(IF a.sign = b.sign THEN 1 ELSE -1, d.q), r |-> Signed(a.sign, d.r)]

DivModFloor(a, b) ==
    LET d == DivModTrunc(a, b)
    IN IF d.r.sign # 0 /\ a.sign # b.sign
       THEN [q |-> Sub(d.q, One), r |-> Add(d.r, b)]
       ELSE d

\* Squares of the base, multiplied in for each bit of the exponent.
Pow(base, exp) ==
    LET square[k \in Nat] == IF k = 0 THEN base ELSE Mul(square[k - 1], square[k - 1])
        Step(result, k) == IF (exp \div 2 ^ k) % 2 = 1 THEN Mul(result, square[k]) ELSE result
        bits == Min({k \in 0 .. exp : 2 ^ k > exp})
    IN FoldLeft(Step, One, [k \in 1 .. bits |-> k - 1])

-----------------------------------------------------------------------------
(* Bits: two's complement in meaning *)

Inverted(limbs) == [i \in DOMAIN limbs |-> Base - 1 - limbs[i]]

ToTwosComplement(n, len) ==
    LET padded == [i \in 1 .. len |-> Limb(n.limbs, i)]
    IN IF n.sign >= 0 THEN padded ELSE Inverted(Ripple(padded, -1).limbs)

FromTwosComplement(bits) ==
    IF Last(bits) < Base \div 2 THEN Signed(1, bits) ELSE Signed(-1, Ripple(Inverted(bits), 1).limbs)

\* bitwise_op: one limb more than the longer, so that the top one shows the sign.
LimbsForLongest(a, b) == Max({Len(a.limbs), Len(b.limbs)})
LimbsFor(a, b) == Max({Len(a.limbs), Len(b.limbs)}) + 1

LimbOp(op, x, y) == CASE op = "and" -> x & y [] op = "or" -> x | y [] op = "xor" -> x ^^ y

BitwiseOp(op, a, b) ==
    LET ta == ToTwosComplement(a, LimbsFor(a, b))
        tb == ToTwosComplement(b, LimbsFor(a, b))
    IN FromTwosComplement([i \in DOMAIN ta |-> LimbOp(op, ta[i], tb[i])])

Bnot(a) == Sub(Negate(a), One)

Shl(a, shift) ==
    Signed(a.sign, Zeros(shift \div LimbBits) \o ShlBits(a.limbs, shift % LimbBits))

ShrPositive(a, shift) ==
    LET kept == SubSeq(a.limbs, shift \div LimbBits + 1, Len(a.limbs))
    IN Signed(1, ShrBits(kept, shift % LimbBits))

Shr(a, shift) ==
    CASE shift = 0 \/ a.sign = 0 -> a
      [] a.sign > 0              -> ShrPositive(a, shift)
      [] OTHER -> LET shifted == Sub(Negate(a), One)
                  IN Sub(Negate(IF shifted.sign = 0 THEN shifted ELSE ShrPositive(shifted, shift)), One)

-----------------------------------------------------------------------------
(* Text *)

FromDigits(digits, base, negative) ==
    LET Step(r, digit) ==
          LET more == Ripple([j \in DOMAIN r |-> r[j] * base], digit)
          IN IF more.carry = 0 THEN more.limbs ELSE Append(more.limbs, more.carry)
    IN Signed(IF negative THEN -1 ELSE 1, FoldLeft(Step, <<>>, digits))

RECURSIVE Chunks(_)
Chunks(limbs) ==
    IF limbs = <<>> THEN <<>>
    ELSE LET d == DivModSmall(limbs, Radix ^ ChunkDigits) IN d.r \o Chunks(Trim(d.q))

\* The array of chunks that to_decimal_string allocates.
ChunkCapacity(n) == Len(n.limbs) + 2

Digits(chunk) == [i \in 1 .. ChunkDigits |-> (chunk \div Radix ^ (ChunkDigits - i)) % Radix]

\* The digits of a number that is not zero: the head chunk without leading zeros, the others with.
ToDecimal(n) ==
    LET all == FlattenSeq([i \in DOMAIN Chunks(n.limbs) |-> Digits(Reverse(Chunks(n.limbs))[i])])
    IN SubSeq(all, Min({j \in DOMAIN all : all[j] # 0}), Len(all))
=============================================================================
