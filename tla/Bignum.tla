-------------------------------- MODULE Bignum --------------------------------
(***************************************************************************)
(* double-conversion/bignum.h and .cc: numbers of many bits.  The number   *)
(* is bigits of kBigitSize bits in chunks of kChunkSize bits, the lowest   *)
(* first, above exponent bigits that are 0 and not kept.  An array keeps   *)
(* its length: what stands above the used bigits stays there, and the      *)
(* next operation may read it.                                             *)
(*                                                                         *)
(* The sizes are 28, 32 and 128 in the code, where an operation that needs *)
(* more bigits ends the program.                                           *)
(***************************************************************************)
EXTENDS Integers, Sequences, SequencesExt

CONSTANTS kBigitSize, kChunkSize, kBigitCapacity

VARIABLES number, value      \* the bignum, and the number it should be
bignumVars == <<number, value>>

Bigit == 2^kBigitSize
Chunk == 2^kChunkSize
DoubleChunk == Chunk * Chunk
Positions(first, last) == [i \in 1..(last - first + 1) |-> first + i - 1]

Zero == [bigits |-> [i \in 0..(kBigitCapacity - 1) |-> 0], used |-> 0, exponent |-> 0]
BigitLength(a) == a.used + a.exponent
BigitAt(a, i) == IF i >= BigitLength(a) \/ i < a.exponent THEN 0 ELSE a.bigits[i - a.exponent]

RECURSIVE Clamp(_)
Clamp(a) ==
  IF a.used = 0 THEN [a EXCEPT !.exponent = 0]
  ELSE IF a.bigits[a.used - 1] = 0 THEN Clamp([a EXCEPT !.used = @ - 1]) ELSE a

Align(a, other) ==
  IF a.exponent <= other.exponent THEN a
  ELSE LET zero_digits == a.exponent - other.exponent
       IN [bigits |-> [i \in DOMAIN a.bigits |->
                         IF i < zero_digits THEN 0
                         ELSE IF i < zero_digits + a.used THEN a.bigits[i - zero_digits] ELSE a.bigits[i]],
           used |-> a.used + zero_digits, exponent |-> other.exponent]

-----------------------------------------------------------------------------
(* Assignments. *)

AssignUInt64(v) ==
  LET needed == (2 * kChunkSize) \div kBigitSize + 1
  IN Clamp([bigits |-> [i \in DOMAIN Zero.bigits |->
                          IF i < needed THEN (v \div 2^(kBigitSize * i)) % Bigit ELSE 0],
            used |-> needed, exponent |-> 0])

-----------------------------------------------------------------------------
(* Addition and subtraction: bigit by bigit, with a carry or borrow, and   *)
(* on for as long as there is one.                                         *)

AddBignum(n, other) ==
  LET a == Align(n, other)
      offset == other.exponent - a.exponent
      Step(acc, i) ==
        LET sum == acc.b[i] + (IF i < offset + other.used THEN other.bigits[i - offset] ELSE 0) + acc.carry
        IN IF i >= offset + other.used /\ acc.carry = 0 THEN acc
           ELSE [b |-> [acc.b EXCEPT ![i] = sum % Bigit], carry |-> sum \div Bigit, pos |-> i + 1]
      r == FoldLeft(Step, [b |-> a.bigits, carry |-> 0, pos |-> offset], Positions(offset, kBigitCapacity - 1))
  IN [a EXCEPT !.bigits = r.b, !.used = IF r.pos > @ THEN r.pos ELSE @]

AddUInt64(n, operand) == IF operand = 0 THEN n ELSE AddBignum(n, AssignUInt64(operand))

SubtractBignum(n, other) ==
  LET a == Align(n, other)
      offset == other.exponent - a.exponent
      Step(acc, i) ==
        LET difference == (acc.b[i] - (IF i < offset + other.used THEN other.bigits[i - offset] ELSE 0)
                             - acc.borrow) % Chunk
        IN IF i >= offset + other.used /\ acc.borrow = 0 THEN acc
           ELSE [b |-> [acc.b EXCEPT ![i] = difference % Bigit],
                 borrow |-> difference \div (Chunk \div 2)]
      r == FoldLeft(Step, [b |-> a.bigits, borrow |-> 0], Positions(offset, kBigitCapacity - 1))
  IN Clamp([a EXCEPT !.bigits = r.b])

(* The carry of the last bigits is written behind them, in as many bigits *)
(* as it takes.                                                            *)
RECURSIVE WithCarry(_, _)
WithCarry(a, carry) ==
  IF carry = 0 THEN a
  ELSE WithCarry([a EXCEPT !.bigits[a.used] = carry % Bigit, !.used = @ + 1], carry \div Bigit)

BigitsShiftLeft(a, shift_amount) ==
  LET Step(acc, i) == [b |-> [acc.b EXCEPT ![i] = (((@ * 2^shift_amount) + acc.carry) % Chunk) % Bigit],
                       carry |-> acc.b[i] \div 2^(kBigitSize - shift_amount)]
      r == FoldLeft(Step, [b |-> a.bigits, carry |-> 0], Positions(0, a.used - 1))
  IN IF r.carry = 0 THEN [a EXCEPT !.bigits = r.b]
     ELSE [a EXCEPT !.bigits = [r.b EXCEPT ![a.used] = r.carry], !.used = @ + 1]

ShiftLeft(a, shift_amount) ==
  IF a.used = 0 THEN a
  ELSE BigitsShiftLeft([a EXCEPT !.exponent = @ + shift_amount \div kBigitSize], shift_amount % kBigitSize)

-----------------------------------------------------------------------------
(* Multiplication. *)

MultiplyByUInt32(a, factor) ==
  LET Step(acc, i) ==
        LET product == (factor * acc.b[i] + acc.carry) % DoubleChunk
        IN [b |-> [acc.b EXCEPT ![i] = product % Bigit], carry |-> product \div Bigit]
      r == FoldLeft(Step, [b |-> a.bigits, carry |-> 0], Positions(0, a.used - 1))
  IN IF factor = 0 THEN Zero ELSE WithCarry([a EXCEPT !.bigits = r.b], r.carry)

MultiplyByUInt64(a, factor) ==
  LET low == factor % Chunk
      high == factor \div Chunk
      Step(acc, i) ==
        LET tmp == (acc.carry % Bigit) + low * acc.b[i]
        IN [b |-> [acc.b EXCEPT ![i] = tmp % Bigit],
            carry |-> (acc.carry \div Bigit + tmp \div Bigit
                         + high * acc.b[i] * 2^(kChunkSize - kBigitSize)) % DoubleChunk]
      r == FoldLeft(Step, [b |-> a.bigits, carry |-> 0], Positions(0, a.used - 1))
  IN IF factor = 0 THEN Zero ELSE WithCarry([a EXCEPT !.bigits = r.b], r.carry)

(* By the largest powers of five that fit into 64 and 32 bits, 27 and 13,  *)
(* and then a shift.                                                       *)
MaxFive(size) == CHOOSE k \in 1..size : 5^k < size /\ 5^(k + 1) >= size
RECURSIVE TimesFives(_, _)
TimesFives(a, exponent) ==
  IF exponent = 0 THEN a
  ELSE IF exponent >= MaxFive(DoubleChunk)
  THEN TimesFives(MultiplyByUInt64(a, 5^MaxFive(DoubleChunk)), exponent - MaxFive(DoubleChunk))
  ELSE IF exponent >= MaxFive(Chunk)
  THEN TimesFives(MultiplyByUInt32(a, 5^MaxFive(Chunk)), exponent - MaxFive(Chunk))
  ELSE MultiplyByUInt32(a, 5^exponent)
MultiplyByPowerOfTen(a, exponent) == ShiftLeft(TimesFives(a, exponent), exponent)

(* Comba multiplication: a column of the product is the sum of the products*)
(* whose indices add up to it.                                             *)
CanSquare(a) == a.used < 2^(2 * (kChunkSize - kBigitSize)) /\ 2 * a.used <= kBigitCapacity
Square(a) ==
  LET Column(i) == FoldLeft(LAMBDA sum, j : sum + a.bigits[j] * a.bigits[i - j], 0,
                            SelectSeq(Positions(0, a.used - 1), LAMBDA j : i - j \in 0..(a.used - 1)))
      Step(acc, i) ==
        LET accumulator == (acc.rest + Column(i)) % DoubleChunk
        IN [b |-> [acc.b EXCEPT ![i] = accumulator % Bigit], rest |-> accumulator \div Bigit]
      r == FoldLeft(Step, [b |-> a.bigits, rest |-> 0], Positions(0, 2 * a.used - 1))
  IN Clamp([bigits |-> r.b, used |-> 2 * a.used, exponent |-> 2 * a.exponent])

(* Exponentiation from the left bit to the right, in 64 bits for as long   *)
(* as the square fits.  When it fits and its product with base may not,    *)
(* this multiplication is left for the bignum.                             *)
BitsOf(n) == CHOOSE k \in 0..30 : n < 2^k /\ (k = 0 \/ n >= 2^(k - 1))
TwosIn(n) == CHOOSE k \in 0..30 : n % 2^k = 0 /\ n % 2^(k + 1) # 0
RECURSIVE PowerUInt64(_, _, _, _), PowerBignum(_, _, _, _)
PowerBignum(a, base, power, bit) ==
  IF bit = 0 THEN a
  ELSE LET square == Square(a)
       IN PowerBignum(IF (power \div 2^(bit - 1)) % 2 = 1 THEN MultiplyByUInt32(square, base) ELSE square,
                      base, power, bit - 1)
PowerUInt64(this, base, power, bit) ==
  IF bit = 0 \/ this >= Chunk THEN PowerBignum(AssignUInt64(this), base, power, bit)
  ELSE LET square == this * this
           odd == (power \div 2^(bit - 1)) % 2 = 1
       IN IF ~odd THEN PowerUInt64(square, base, power, bit - 1)
          ELSE IF square < DoubleChunk \div 2^BitsOf(base)
          THEN PowerUInt64(square * base, base, power, bit - 1)
          ELSE PowerBignum(MultiplyByUInt32(AssignUInt64(square), base), base, power, bit - 1)
AssignPowerUInt16(base, power) ==
  IF power = 0 THEN AssignUInt64(1)
  ELSE LET shifts == TwosIn(base)
           odd == base \div 2^shifts
       IN ShiftLeft(PowerUInt64(odd, odd, power, BitsOf(power) - 1), shifts * power)

(* As many digits at a time as fit into 64 bits, 19 there. *)
RECURSIVE WithDigits(_, _)
WithDigits(a, digits) ==
  LET most == CHOOSE k \in 1..30 : 10^k < DoubleChunk /\ 10^(k + 1) >= DoubleChunk
      k == IF Len(digits) < most THEN Len(digits) ELSE most
      n == FoldLeft(LAMBDA m, d : 10 * m + d, 0, SubSeq(digits, 1, k))
      b == AddUInt64(MultiplyByPowerOfTen(a, k), n)
  IN IF k < most THEN Clamp(b) ELSE WithDigits(b, SubSeq(digits, k + 1, Len(digits)))
AssignDecimalString(digits) == WithDigits(Zero, digits)

-----------------------------------------------------------------------------
(* Comparison, from the highest bigit down. *)

Compare(a, b) ==
  LET low == IF a.exponent < b.exponent THEN a.exponent ELSE b.exponent
      Differ == {i \in low..(BigitLength(a) - 1) : BigitAt(a, i) # BigitAt(b, i)}
      i == CHOOSE k \in Differ : \A j \in Differ : j <= k
  IN IF BigitLength(a) # BigitLength(b) THEN IF BigitLength(a) < BigitLength(b) THEN -1 ELSE 1
     ELSE IF Differ = {} THEN 0 ELSE IF BigitAt(a, i) < BigitAt(b, i) THEN -1 ELSE 1

(* Of a + b with c: what c has more is handed down as a borrow.  More than *)
(* one cannot be made up for by what is below.                             *)
PlusCompare(x, y, c) ==
  LET swap == BigitLength(x) < BigitLength(y)
      a == IF swap THEN y ELSE x
      b == IF swap THEN x ELSE y
      low == CHOOSE m \in {a.exponent, b.exponent, c.exponent} :
               m <= a.exponent /\ m <= b.exponent /\ m <= c.exponent
      Step(i, acc) ==
        LET sum == BigitAt(a, i) + BigitAt(b, i)
            have == BigitAt(c, i) + acc.borrow
        IN IF acc.known THEN acc
           ELSE IF sum > have THEN [known |-> TRUE, borrow |-> -1]
           ELSE IF have - sum > 1 THEN [known |-> TRUE, borrow |-> 1]
           ELSE [known |-> FALSE, borrow |-> ((have - sum) * Bigit) % Chunk]
      r == FoldRight(Step, Positions(low, BigitLength(c) - 1), [known |-> FALSE, borrow |-> 0])
  IN IF BigitLength(a) + 1 < BigitLength(c) THEN -1
     ELSE IF BigitLength(a) > BigitLength(c) THEN 1
     ELSE IF a.exponent >= BigitLength(b) /\ BigitLength(a) < BigitLength(c) THEN -1
     ELSE IF r.known THEN -r.borrow ELSE IF r.borrow = 0 THEN 0 ELSE -1

-----------------------------------------------------------------------------
(* Division, of a number that is less than ten times the other. *)

RECURSIVE SubtractTwice(_, _, _)
SubtractTwice(a, other, times) == IF times = 0 THEN a ELSE SubtractTwice(SubtractBignum(a, other), other, times - 1)

DropsBorrow(difference, remove) == difference \div (Chunk \div 2)     \* mutant
Borrowed(difference, remove) == difference \div (Chunk \div 2) + remove \div Bigit

SubtractTimes(a, other, factor) ==
  LET diff == other.exponent - a.exponent
      Step(acc, i) ==
        LET remove == acc.borrow + factor * other.bigits[i]
            difference == (acc.b[i + diff] - (remove % Bigit)) % Chunk
        IN [b |-> [acc.b EXCEPT ![i + diff] = difference % Bigit], borrow |-> Borrowed(difference, remove)]
      Above(acc, i) ==
        LET difference == (acc.b[i] - acc.borrow) % Chunk
        IN IF acc.borrow = 0 THEN acc
           ELSE [b |-> [acc.b EXCEPT ![i] = difference % Bigit], borrow |-> difference \div (Chunk \div 2)]
      r == FoldLeft(Above, FoldLeft(Step, [b |-> a.bigits, borrow |-> 0], Positions(0, other.used - 1)),
                    Positions(other.used + diff, a.used - 1))
  IN IF factor < 3 THEN SubtractTwice(a, other, factor) ELSE Clamp([a EXCEPT !.bigits = r.b])

(* First the multiples the highest bigit stands for, while the number is   *)
(* longer than the other, then those that the quotient of the highest      *)
(* bigits is sure of, then one by one.                                     *)
RECURSIVE Shortened(_, _), OneByOne(_, _)
Shortened(r, other) ==
  IF BigitLength(r.rest) <= BigitLength(other) THEN r
  ELSE LET top == r.rest.bigits[r.rest.used - 1]
       IN Shortened([result |-> r.result + top, rest |-> SubtractTimes(r.rest, other, top)], other)
OneByOne(r, other) ==
  IF Compare(other, r.rest) > 0 THEN r
  ELSE OneByOne([result |-> r.result + 1, rest |-> SubtractBignum(r.rest, other)], other)

DivideModuloIntBignum(a, other) ==
  LET s == Shortened([result |-> 0, rest |-> Align(a, other)], other)
      this_bigit == s.rest.bigits[s.rest.used - 1]
      other_bigit == other.bigits[other.used - 1]
      quotient == this_bigit \div other_bigit
      estimate == this_bigit \div (other_bigit + 1)
      t == [result |-> s.result + estimate, rest |-> SubtractTimes(s.rest, other, estimate)]
  IN IF BigitLength(a) < BigitLength(other) THEN [result |-> 0, rest |-> a]
     ELSE IF other.used = 1
     THEN [result |-> s.result + quotient,
           rest |-> Clamp([s.rest EXCEPT !.bigits[s.rest.used - 1] = this_bigit - other_bigit * quotient])]
     ELSE IF other_bigit * (estimate + 1) > this_bigit THEN t ELSE OneByOne(t, other)

-----------------------------------------------------------------------------
(***************************************************************************)
(* Calls of these operations, one after the other, on one number.  Other   *)
(* numbers take part as they come from two assignments and a shift.        *)
(***************************************************************************)
CONSTANTS Values, Shifts, MaxValue    \* operands, and a bound on the number

Others == {ShiftLeft(AssignUInt64(v), s) : v \in Values \ {0}, s \in Shifts}
ValueOf(a) == FoldRight(LAMBDA i, sum : sum * Bigit + BigitAt(a, i), Positions(0, BigitLength(a) - 1), 0)

Becomes(n, v) == v <= MaxValue /\ number' = n /\ value' = v

BignumInit == number = Zero /\ value = 0

Assign == \E v \in Values : Becomes(AssignUInt64(v), v)
AssignPower == \E base \in {10, 12}, power \in 0..4 : Becomes(AssignPowerUInt16(base, power), base^power)
AssignDecimals == \E digits \in {<<>>, <<4, 0, 9, 5>>} :
                    Becomes(AssignDecimalString(digits), FoldLeft(LAMBDA m, d : 10 * m + d, 0, digits))
Add == \E o \in Others : value + ValueOf(o) <= MaxValue /\ Becomes(AddBignum(number, o), value + ValueOf(o))
Subtract == \E o \in Others : ValueOf(o) <= value /\ Becomes(SubtractBignum(number, o), value - ValueOf(o))
Shift == \E s \in Shifts : value * 2^s <= MaxValue /\ Becomes(ShiftLeft(number, s), value * 2^s)
Multiply ==
  \/ \E v \in Values : value * v <= MaxValue /\ v < Chunk /\ Becomes(MultiplyByUInt32(number, v), value * v)
  \/ \E v \in Values : value * v <= MaxValue /\ Becomes(MultiplyByUInt64(number, v), value * v)
  \/ \E k \in 1..3 : value * 10^k <= MaxValue /\ Becomes(MultiplyByPowerOfTen(number, k), value * 10^k)
Squared == CanSquare(number) /\ value * value <= MaxValue /\ Becomes(Square(number), value * value)
Divide == \E o \in Others : value < 10 * ValueOf(o) /\
            Becomes(DivideModuloIntBignum(number, o).rest, value % ValueOf(o))

BignumNext ==
  \/ Assign \/ AssignPower \/ AssignDecimals
  \/ Add \/ Subtract \/ Shift \/ Multiply \/ Squared \/ Divide

BignumSpec == BignumInit /\ [][BignumNext]_bignumVars

-----------------------------------------------------------------------------
Sign(n) == IF n < 0 THEN -1 ELSE IF n > 0 THEN 1 ELSE 0

(* Whatever operations a number has been through, it is the number it      *)
(* should be, nothing is left above its highest bigit, and comparisons and *)
(* quotients are those of the numbers.                                     *)
BignumsAreNumbers ==
  /\ ValueOf(number) = value
  /\ number.used = 0 \/ number.bigits[number.used - 1] # 0
  /\ \A i \in DOMAIN number.bigits : i >= number.used => number.bigits[i] = 0
  /\ \A o \in Others :
       /\ Compare(number, o) = Sign(value - ValueOf(o))
       /\ value < 10 * ValueOf(o) => DivideModuloIntBignum(number, o).result = value \div ValueOf(o)
       /\ \A c \in Others :
            /\ PlusCompare(number, o, c) = Sign(value + ValueOf(o) - ValueOf(c))
            /\ PlusCompare(o, c, number) = Sign(ValueOf(o) + ValueOf(c) - value)
===============================================================================
