------------------------------- MODULE Numbas -------------------------------
(***************************************************************************)
(* Whole numbas as the VM computes with them (vm.c vm_add to vm_shift): in  *)
(* an int64 while the result fits, as a bignum otherwise, and back to an    *)
(* int64 as soon as it fits again.  An int64 has the width of two limbs.    *)
(***************************************************************************)
EXTENDS Bignum

CONSTANTS Lefts, Rights, Shifts, Exponents      \* the integers that are computed with

VARIABLES given, got

IntMax == (Base * Base) \div 2 - 1
IntMin == - IntMax - 1

Int64(v) == [rep |-> "int", n |-> v]
Big(b) == [rep |-> "bignum", n |-> b]

-----------------------------------------------------------------------------
(* Promotion and demotion *)

ToBignum(v) == IF v.rep = "int" THEN FromInt64(v.n) ELSE v.n

\* bignum_to_int64 and bignum_result
ToInt64(b) == b.sign * ((Limb(b.limbs, 2) * Base) + Limb(b.limbs, 1))
FitsInt64(b) ==
    /\ Len(b.limbs) <= 2
    /\ (Limb(b.limbs, 2) * Base) + Limb(b.limbs, 1) <= (IF b.sign > 0 THEN IntMax ELSE IntMax + 1)
BignumResult(b) == IF FitsInt64(b) THEN Int64(ToInt64(b)) ELSE Big(b)

Ints(a, b) == a.rep = "int" /\ b.rep = "int"

AddOverflows(a, b) == (b > 0 /\ a > IntMax - b) \/ (b < 0 /\ a < IntMin - b)
SubOverflows(a, b) == (b < 0 /\ a > IntMax + b) \/ (b > 0 /\ a < IntMin + b)

MulOverflows(a, b) ==
    /\ a # 0 /\ b # 0
    /\ \/ a = IntMin \/ b = IntMin
       \/ Magnitude(a) > IntMax \div Magnitude(b)

VmAdd(a, b) ==
    IF Ints(a, b) /\ ~ AddOverflows(a.n, b.n) THEN Int64(a.n + b.n)
    ELSE BignumResult(Add(ToBignum(a), ToBignum(b)))

VmSub(a, b) ==
    IF Ints(a, b) /\ ~ SubOverflows(a.n, b.n) THEN Int64(a.n - b.n)
    ELSE BignumResult(Sub(ToBignum(a), ToBignum(b)))

VmMul(a, b) ==
    IF Ints(a, b) /\ ~ MulOverflows(a.n, b.n) THEN Int64(a.n * b.n)
    ELSE BignumResult(Mul(ToBignum(a), ToBignum(b)))

\* The divisor is not zero: that is MathAintMathin.
VmIdiv(a, b) == BignumResult(DivModFloor(ToBignum(a), ToBignum(b)).q)
VmMod(a, b) == BignumResult(DivModFloor(ToBignum(a), ToBignum(b)).r)

VmPow(a, exp) == BignumResult(Pow(ToBignum(a), exp))

VmNeg(a) == IF a.rep = "int" /\ a.n # IntMin THEN Int64(- a.n) ELSE BignumResult(Negate(ToBignum(a)))

VmBnot(a) == IF a.rep = "int" THEN Int64(- a.n - 1) ELSE BignumResult(Bnot(a.n))

\* An int64's bits are its two limbs.
VmBitwise(op, a, b) ==
    IF Ints(a, b)
    THEN Int64(ToInt64(FromTwosComplement(
            [i \in 1 .. 2 |-> LimbOp(op, ToTwosComplement(FromInt64(a.n), 2)[i], ToTwosComplement(FromInt64(b.n), 2)[i])])))
    ELSE BignumResult(BitwiseOp(op, ToBignum(a), ToBignum(b)))

VmShl(a, shift) == BignumResult(Shl(ToBignum(a), shift))
VmShr(a, shift) == BignumResult(Shr(ToBignum(a), shift))

CompareNumeric(a, b) ==
    IF Ints(a, b) THEN Order(a.n, b.n) ELSE Compare(ToBignum(a), ToBignum(b))

-----------------------------------------------------------------------------
(* A numba of the program, from its digits: a bignum only if it has to be *)

\* The digits of n's magnitude in a base, the first not zero.
RECURSIVE DigitsOf(_, _)
DigitsOf(n, base) ==
    IF n = 0 THEN <<>> ELSE Append(DigitsOf(Magnitude(n) \div base, base), Magnitude(n) % base)

Numba(n) ==
    IF n \in IntMin .. IntMax THEN Int64(n)
    ELSE Big([sign |-> Order(n, 0), limbs |-> Reverse(DigitsOf(n, Base))])

Init == given = <<>> /\ got = <<>>

Compute ==
    \E x \in Lefts, y \in Rights :
      LET a == Numba(x)
          b == Numba(y)
      IN /\ given' = <<x, y>>
         /\ got' = [sum |-> VmAdd(a, b), difference |-> VmSub(a, b), product |-> VmMul(a, b),
                    quotient |-> IF y = 0 THEN a ELSE VmIdiv(a, b),
                    rest |-> IF y = 0 THEN b ELSE VmMod(a, b),
                    and |-> VmBitwise("and", a, b), or |-> VmBitwise("or", a, b), xor |-> VmBitwise("xor", a, b),
                    order |-> CompareNumeric(a, b)]

\* Everything that takes one numba and a small count.
ComputeUnary ==
    \E x \in Rights :
      LET a == Numba(x)
      IN /\ given' = <<x>>
         /\ got' = [negated |-> VmNeg(a), inverted |-> VmBnot(a),
                    left |-> [s \in Shifts |-> VmShl(a, s)], right |-> [s \in Shifts |-> VmShr(a, s)],
                    power |-> [e \in Exponents |-> VmPow(a, e)],
                    text |-> IF x = 0 THEN <<0>> ELSE ToDecimal(ToBignum(a)),
                    parsed |-> BignumResult(FromDigits(DigitsOf(x, Radix), Radix, x < 0))]

Next == given = <<>> /\ (Compute \/ ComputeUnary)

Spec == Init /\ [][Next]_<<given, got>>

-----------------------------------------------------------------------------
(* Properties *)

Bit(n, i) == (n \div 2 ^ i) % 2

ToInteger(v) ==
    IF v.rep = "int" THEN v.n
    ELSE v.n.sign * FoldRight(LAMBDA limb, n : n * Base + limb, v.n.limbs, 0)

\* The bits of v are a function of a's and b's, in two's complement, as far as any of them differ.
BitsAre(v, op, a, b) ==
    /\ v = Numba(ToInteger(v))
    /\ \A i \in 0 .. 4 * LimbBits + 2 : Bit(ToInteger(v), i) = LimbOp(op, Bit(a, i), Bit(b, i))

ExactBinary(x, y) ==
    /\ got.sum = Numba(x + y) /\ got.difference = Numba(x - y) /\ got.product = Numba(x * y)
    /\ y > 0 => got.quotient = Numba(x \div y) /\ got.rest = Numba(x % y)
    /\ y < 0 => got.quotient = Numba((-x) \div (-y)) /\ got.rest = Numba(-((-x) % (-y)))
    /\ BitsAre(got.and, "and", x, y) /\ BitsAre(got.or, "or", x, y) /\ BitsAre(got.xor, "xor", x, y)
    /\ got.order = Order(x, y)

ExactUnary(x) ==
    /\ got.negated = Numba(- x) /\ got.inverted = Numba(- x - 1)
    /\ \A s \in Shifts : got.left[s] = Numba(x * 2 ^ s) /\ got.right[s] = Numba(x \div 2 ^ s)
    /\ \A e \in Exponents :
         x # 0 /\ e * Len(DigitsOf(x, 2)) <= 30 => got.power[e] = Numba(x ^ e)
    /\ x # 0 => got.text = DigitsOf(x, Radix)
    /\ got.parsed = Numba(x)

\* Every operator computes what it does on the integers, however the operands and the result are
\* represented, and a result has exactly one representation, so that equal numbas are one key
\* (vm.c vm_add to vm_shift, bignum.c).
Exact ==
    CASE Len(given) = 2 -> ExactBinary(given[1], given[2])
      [] Len(given) = 1 -> ExactUnary(given[1])
      [] OTHER -> TRUE
=============================================================================
