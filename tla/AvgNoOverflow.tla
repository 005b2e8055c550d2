---------------------------- MODULE AvgNoOverflow ----------------------------
(***************************************************************************)
(* avg_no_overflow of src/library/lib/benchmark_helpers.cpp, which         *)
(* averages unsigned numbers in a signed accumulator of the same width.    *)
(* In front of an addition that would overflow, it moves the accumulator's *)
(* share of the average to res and goes on with the remainder.             *)
(*                                                                         *)
(* res is a long double: it is an integer until the last line, and is kept *)
(* here without rounding.                                                  *)
(***************************************************************************)
EXTENDS Integers, Sequences

CONSTANTS
  Half,      \* 2^63, the number of values of uint64_t that intmax_t has, too
  Inputs     \* the vectors to be averaged

MaxSigned == Half - 1
MinSigned == - Half

ASSUME AverageAssumption ==
  /\ Half \in Nat \ {0}
  /\ Inputs \subseteq Seq(0 .. 2 * Half - 1)

VARIABLES
  nums,          \* the argument
  first,         \* index of the next number
  accumulator, res,
  sum,           \* history: the sum of the numbers before first
  average,       \* history: what was returned
  returned       \* control state

vars == <<nums, first, accumulator, res, sum, average, returned>>

\* Comparison with an unsigned number converts a signed one.
AsUnsigned(n) == n % (2 * Half)

\* Assignment to the accumulator converts an unsigned number.
AsSigned(n) == ((n - MinSigned) % (2 * Half)) + MinSigned

\* Division of C, which rounds towards zero.
Quot(a, b) == IF a >= 0 THEN a \div b ELSE - ((- a) \div b)

\* Mistake: the remainder is taken to be that of a division that rounds down.
RemDown(a, b) == a % b

\* The remainder of C, which has the sign of a.
Rem(a, b) == a - b * Quot(a, b)

size == Len(nums)

Init ==
  /\ nums \in Inputs
  /\ first = 1
  /\ accumulator = 0 /\ res = 0
  /\ sum = 0
  /\ average = 0 /\ returned = FALSE

Empty ==
  /\ ~ returned /\ size = 0
  /\ average' = 0 /\ returned' = TRUE
  /\ UNCHANGED <<nums, first, accumulator, res, sum>>

Looping == ~ returned /\ first <= size

\* The accumulator takes n after acc has been left in it, r in res.
Accumulate(acc, r) ==
  /\ res' = r
  /\ accumulator' = AsSigned(AsUnsigned(acc) + nums[first])
  /\ sum' = sum + nums[first]
  /\ first' = first + 1
  /\ UNCHANGED <<nums, average, returned>>

\* Meant as: the next number would take the accumulator below MinSigned.
TooLow == accumulator < 0 /\ AsUnsigned(MinSigned - accumulator) > nums[first]

\* Mistake: off by one.
TooHighLate == accumulator > 0 /\ AsUnsigned(MaxSigned - accumulator) + 1 < nums[first]

\* The next number would take the accumulator above MaxSigned.
TooHigh == accumulator > 0 /\ AsUnsigned(MaxSigned - accumulator) < nums[first]

\* Line 25: the accumulator is negative.
CarryLow ==
  /\ Looping /\ TooLow
  /\ Accumulate(Rem(accumulator, size) + size, res + Quot(accumulator, size) - 1)

\* Line 30: the number does not fit.
CarryHigh ==
  /\ Looping /\ TooHigh
  /\ Accumulate(Rem(accumulator, size) - size, res + Quot(accumulator, size) + 1)

\* Neither.
Add ==
  /\ Looping /\ ~ TooLow /\ ~ TooHigh
  /\ Accumulate(accumulator, res)

\* Mistake: the rest in the accumulator is dropped.
ReturnRes ==
  /\ ~ returned /\ size > 0 /\ first > size
  /\ average' = res /\ returned' = TRUE
  /\ UNCHANGED <<nums, first, accumulator, res, sum>>

\* The last lines add the accumulator's share with its fraction, and the result
\* is truncated.
Return ==
  /\ ~ returned /\ size > 0 /\ first > size
  /\ average' = Quot(res * size + accumulator, size) /\ returned' = TRUE
  /\ UNCHANGED <<nums, first, accumulator, res, sum>>

Returned == returned /\ UNCHANGED vars

Next == Empty \/ CarryLow \/ CarryHigh \/ Add \/ Return \/ Returned

Spec == Init /\ [][Next]_vars

-----------------------------------------------------------------------------

\* Whatever is carried to and fro, res and the accumulator together always
\* stand for the sum of the numbers so far: no addition has wrapped.
NothingWrapped == res * size + accumulator = sum

\* The function returns the average, rounded down.
ExactAverage ==
  returned => average = IF size = 0 THEN 0 ELSE sum \div size

TypeOK ==
  /\ nums \in Inputs
  /\ first \in 1 .. size + 1
  /\ res \in Int
  /\ sum \in Nat
  /\ average \in Int
  /\ returned \in BOOLEAN

\* The accumulator is never far below zero, so that a remainder lifts it above.
AccumulatorInv == accumulator \in - size .. MaxSigned

\* The inductive invariant.
IInv == TypeOK /\ AccumulatorInv /\ NothingWrapped /\ ExactAverage

=============================================================================
