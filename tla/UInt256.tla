------------------------------ MODULE UInt256 -------------------------------
(* base_uint of uint256.h: a number in limbs, the lowest first.  A behaviour *)
(* applies one operator after another to a number x; n is what plain         *)
(* arithmetic says of it.                                                    *)
EXTENDS Integers, FiniteSetsExt, Bitwise, SequencesExt

CONSTANTS
    WIDTH,          \* limbs: 8, or 5 of uint160
    LimbBytes,      \* bytes of a limb: 4
    HexBits,        \* bits of a hexadecimal digit: 4
    Texts           \* sequences of digits, of " " and of "x" that SetHex is given

VARIABLES x, n

vars == <<x, n>>

LimbBits == 2 * HexBits * LimbBytes
Base == 2 ^ LimbBits
Modulus == Base ^ WIDTH
Places == 0..(WIDTH - 1)
Limb == 0..(Base - 1)
Byte == 2 ^ (2 * HexBits)
Zero == [i \in Places |-> 0]

\* What the limbs stand for
Value(a) == FoldLeft(LAMBDA v, i : v * Base + a[WIDTH - i], 0, [i \in 1..WIDTH |-> i])

-----------------------------------------------------------------------------
(* The operators *)

\* operator=(uint64): a number of two limbs; the others are zero.
Assigned(b) ==
    [i \in Places |-> IF i = 0 THEN b % Base ELSE IF i = 1 THEN b \div Base ELSE 0]
Get64(a, k) == a[2 * k] + a[2 * k + 1] * Base

Complement(a) == [i \in Places |-> Base - 1 - a[i]]
ExclusiveOr(a, b) == [i \in Places |-> a[i] ^^ b[i]]
Conjunction(a, b) == [i \in Places |-> a[i] & b[i]]
Disjunction(a, b) == [i \in Places |-> a[i] | b[i]]

\* operator^= and operator|= of a uint64 change the first two limbs.
XorLow(a, b) == [i \in Places |-> IF i < 2 THEN a[i] ^^ Assigned(b)[i] ELSE a[i]]
OrLow(a, b) == [i \in Places |-> IF i < 2 THEN a[i] | Assigned(b)[i] ELSE a[i]]

At(a, i) == IF i \in Places THEN a[i] ELSE 0

\* Mutant of ShiftLeft: a shift by whole limbs takes bits from the limb below as well.
ShiftLeftWhole(a, shift) ==
    LET k == shift \div LimbBits
        s == shift % LimbBits
    IN  [i \in Places |-> (At(a, i - k - 1) \div 2 ^ ((LimbBits - s) % LimbBits))
                          | ((At(a, i - k) * 2 ^ s) % Base)]
ShiftLeft(a, shift) ==
    LET k == shift \div LimbBits
        s == shift % LimbBits
    IN  [i \in Places |->
            (IF s # 0 THEN At(a, i - k - 1) \div 2 ^ (LimbBits - s) ELSE 0)
            | ((At(a, i - k) * 2 ^ s) % Base)]
ShiftRight(a, shift) ==
    LET k == shift \div LimbBits
        s == shift % LimbBits
    IN  [i \in Places |->
            (IF s # 0 THEN (At(a, i + k + 1) * 2 ^ (LimbBits - s)) % Base ELSE 0)
            | (At(a, i + k) \div 2 ^ s)]

\* Mutant of Sum: the carry of a full limb with a carry is lost.
SumLosing(a, b) ==
    LET carry[i \in 0..WIDTH] ==
            IF i = 0 THEN 0 ELSE IF a[i - 1] + b[i - 1] >= Base THEN 1 ELSE 0
    IN  [i \in Places |-> (carry[i] + a[i] + b[i]) % Base]
Sum(a, b) ==
    LET carry[i \in 0..WIDTH] ==
            IF i = 0 THEN 0 ELSE (carry[i - 1] + a[i - 1] + b[i - 1]) \div Base
    IN  [i \in Places |-> (carry[i] + a[i] + b[i]) % Base]

\* operator++ and operator--: limbs are stepped as long as they wrap around.
Increment(a) ==
    [i \in Places |-> IF \A j \in 0..(i - 1) : a[j] = Base - 1 THEN (a[i] + 1) % Base ELSE a[i]]
Decrement(a) ==
    [i \in Places |-> IF \A j \in 0..(i - 1) : a[j] = 0 THEN (a[i] - 1) % Base ELSE a[i]]

Negated(a) == Increment(Complement(a))
Difference(a, b) == Sum(a, Negated(b))

\* The comparisons: the highest limb that differs decides.
Deciding(a, b) ==
    {i \in Places : a[i] # b[i] /\ \A j \in (i + 1)..(WIDTH - 1) : a[j] = b[j]}
Less(a, b) == \E i \in Deciding(a, b) : a[i] < b[i]
LessOrEqual(a, b) == \A i \in Deciding(a, b) : a[i] < b[i]
Greater(a, b) == \E i \in Deciding(a, b) : a[i] > b[i]
GreaterOrEqual(a, b) == \A i \in Deciding(a, b) : a[i] > b[i]
Equal(a, b) == \A i \in Places : a[i] = b[i]
EqualLow(a, b) ==
    a[0] = b % Base /\ a[1] = b \div Base /\ \A i \in Places : i > 1 => a[i] = 0
IsZero(a) == \A i \in Places : a[i] = 0

-----------------------------------------------------------------------------
(* Hexadecimal text *)

\* Byte p of the memory of the limbs, and the limbs of some bytes
ByteOf(a, p) == (a[p \div LimbBytes] \div Byte ^ (p % LimbBytes)) % Byte
FromBytes(bytes) ==
    [i \in Places |-> FoldLeft(LAMBDA v, k : v * Byte + bytes[(i + 1) * LimbBytes - k], 0,
                               [k \in 1..LimbBytes |-> k])]

Digit == 0..(2 ^ HexBits - 1)
GetHex(a) ==
    LET size == WIDTH * LimbBytes
        b(k) == ByteOf(a, size - 1 - ((k - 1) \div 2))
    IN  [k \in 1..(2 * size) |-> IF k % 2 = 1 THEN b(k) \div 2 ^ HexBits
                                              ELSE b(k) % 2 ^ HexBits]

\* SetHex: spaces, 0x, and then the digits up to what is none, from the last one.
DigitsOf(psz) ==
    LET spaces == Max({k \in 0..Len(psz) : \A i \in 1..k : psz[i] = " "})
        text == SubSeq(psz, spaces + 1, Len(psz))
        body == IF Len(text) > 1 /\ text[1] = "0" /\ text[2] = "x" THEN SubSeq(text, 3, Len(text))
                ELSE text
        digits == Max({k \in 0..Len(body) : \A i \in 1..k : body[i] \notin {" ", "x"}})
    IN  [i \in 1..digits |-> IF body[i] = "0" THEN 0 ELSE 1]

\* Mutant of SetHex: an odd number of digits is read from the first.
SetHexOdd(psz) ==
    LET d == DigitsOf(psz) \o (IF Len(DigitsOf(psz)) % 2 = 1 THEN <<0>> ELSE << >>)
        from(k) == IF k < Len(d) THEN d[Len(d) - k] ELSE 0
    IN  FromBytes([p \in 0..(WIDTH * LimbBytes - 1) |->
                      from(2 * p) + from(2 * p + 1) * 2 ^ HexBits])
SetHex(psz) ==
    LET d == DigitsOf(psz)
        from(k) == IF k < Len(d) THEN d[Len(d) - k] ELSE 0      \* the k-th from the last
    IN  FromBytes([p \in 0..(WIDTH * LimbBytes - 1) |->
                      from(2 * p) + from(2 * p + 1) * 2 ^ HexBits])

-----------------------------------------------------------------------------

Numbers == [Places -> Limb]

Init == x = Zero /\ n = 0

Arithmetic(b) ==
    \/ x' = Sum(x, b) /\ n' = (n + Value(b)) % Modulus
    \/ x' = Difference(x, b) /\ n' = (n - Value(b)) % Modulus
    \/ x' = Increment(x) /\ n' = (n + 1) % Modulus
    \/ x' = Decrement(x) /\ n' = (n - 1) % Modulus
    \/ x' = Negated(x) /\ n' = (-n) % Modulus
    \/ x' = Complement(x) /\ n' = Modulus - 1 - n
Bits(b) ==
    \/ x' = ExclusiveOr(x, b) /\ n' = n ^^ Value(b)
    \/ x' = Conjunction(x, b) /\ n' = n & Value(b)
    \/ x' = Disjunction(x, b) /\ n' = n | Value(b)
Small(b) ==
    \/ x' = Assigned(b) /\ n' = b
    \/ x' = XorLow(x, b) /\ n' = n ^^ b
    \/ x' = OrLow(x, b) /\ n' = n | b
Shift(s) ==
    \/ x' = ShiftLeft(x, s) /\ n' = (n * 2 ^ s) % Modulus
    \/ x' = ShiftRight(x, s) /\ n' = n \div 2 ^ s
Read(psz) ==
    /\ x' = SetHex(psz)
    /\ n' = FoldLeft(LAMBDA v, d : (v * 2 ^ HexBits + d) % Modulus, 0, DigitsOf(psz))

Next ==
    \/ \E b \in Numbers : Arithmetic(b) \/ Bits(b)
    \/ \E b \in 0..(Base ^ 2 - 1) : Small(b)
    \/ \E s \in 0..(LimbBits * WIDTH + 1) : Shift(s)
    \/ \E psz \in Texts : Read(psz)

Spec == Init /\ [][Next]_vars

-----------------------------------------------------------------------------
(* Properties *)

\* uint256.h: whatever operators a number has been through, its limbs stand for the number
\* of plain arithmetic modulo 2 ** BITS; it compares as that number does, and its
\* text is read back as itself.
ArithmeticRight ==
    /\ x \in Numbers /\ Value(x) = n
    /\ \A b \in Numbers :
          /\ Less(x, b) <=> n < Value(b)
          /\ LessOrEqual(x, b) <=> n <= Value(b)
          /\ Greater(x, b) <=> n > Value(b)
          /\ GreaterOrEqual(x, b) <=> n >= Value(b)
          /\ Equal(x, b) <=> n = Value(b)
    /\ \A b \in 0..(Base ^ 2 - 1) : EqualLow(x, b) <=> n = b
    /\ IsZero(x) <=> n = 0
    /\ n % Base ^ 2 = Get64(x, 0)
    /\ SetHex([k \in DOMAIN GetHex(x) |-> IF GetHex(x)[k] = 0 THEN "0" ELSE "1"]) = x
=============================================================================
