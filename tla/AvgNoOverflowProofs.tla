------------------------- MODULE AvgNoOverflowProofs -------------------------
(***************************************************************************)
(* Proofs about AvgNoOverflow and FlushSweep: for integers of every width  *)
(* and vectors of every length, no addition wraps and the average is exact,*)
(* as long as each number leaves room for the length of the vector below   *)
(* MaxSigned; and the averages flush.cpp prints are those of its own tests.*)
(***************************************************************************)
EXTENDS FlushSweep, SequenceTheorems, FiniteSetTheorems, TLAPS

\* The numbers a vector may hold.
Roomy ==
  \A v \in Inputs : \A n \in DOMAIN v : v[n] + Len(v) <= MaxSigned

-----------------------------------------------------------------------------

(***************************************************************************)
(* Arithmetic.                                                             *)
(***************************************************************************)

\* Quot and Rem are a division with remainder, and the remainder has the sign of
\* the dividend: what the code relies on when it adds or subtracts size.
LEMMA Division ==
  ASSUME NEW a \in Int, NEW b \in Nat \ {0}
  PROVE  /\ Quot(a, b) \in Int
         /\ Rem(a, b) \in Int
         /\ a = b * Quot(a, b) + Rem(a, b)
         /\ a >= 0 => Rem(a, b) \in 0 .. b - 1
         /\ a <= 0 => Rem(a, b) \in 1 - b .. 0
<1>1. \A x \in Nat : /\ x \div b \in Int
                     /\ x - b * (x \div b) \in 0 .. b - 1
  OBVIOUS
<1>2. CASE a >= 0
  BY <1>1, <1>2 DEF Quot, Rem
<1>3. CASE a < 0
  <2>1. - a \in Nat
    BY <1>3
  <2>2. Quot(a, b) = - ((- a) \div b)
    BY <1>3 DEF Quot
  <2> DEFINE q == (- a) \div b
  <2>3. q \in Int /\ - a - b * q \in 0 .. b - 1
    BY <1>1, <2>1
  <2>4. Rem(a, b) = a + b * q
    BY <2>2, <2>3 DEF Rem
  <2>5. QED
    BY <1>3, <2>2, <2>3, <2>4
<1>4. QED
  BY <1>2, <1>3

\* Conversion to unsigned and back is harmless as long as the sum fits.
LEMMA Conversion ==
  ASSUME NEW a \in Int, NEW n \in Nat, a >= MinSigned, a + n \in MinSigned .. MaxSigned
  PROVE  AsSigned(AsUnsigned(a) + n) = a + n
<1> USE AverageAssumption DEF MinSigned, MaxSigned
<1>1. a < Half
  OBVIOUS
<1>2. CASE a >= 0
  <2>1. AsUnsigned(a) = a
    BY <1>1, <1>2 DEF AsUnsigned
  <2>2. a + n + Half \in 0 .. 2 * Half - 1
    OBVIOUS
  <2>3. (a + n + Half) % (2 * Half) = a + n + Half
    BY <2>2
  <2>4. QED
    BY <2>1, <2>3 DEF AsSigned
<1>3. CASE a < 0
  <2>1. AsUnsigned(a) = a + 2 * Half
    BY <1>3 DEF AsUnsigned
  <2>2. a + n + Half \in 0 .. 2 * Half - 1
    OBVIOUS
  <2>3. (a + n + Half + 2 * Half) % (2 * Half) = a + n + Half
    BY <2>2
  <2>4. QED
    BY <2>1, <2>3 DEF AsSigned
<1>4. QED
  BY <1>2, <1>3

-----------------------------------------------------------------------------

(***************************************************************************)
(* The steps.                                                              *)
(***************************************************************************)

\* What Roomy says of the next number.
LEMMA NextNumber ==
  ASSUME Roomy, IInv, Looping
  PROVE  /\ size \in Nat \ {0}
         /\ nums[first] \in Nat
         /\ nums[first] + size <= MaxSigned
<1>1. nums \in Seq(0 .. 2 * Half - 1)
  BY AverageAssumption DEF IInv, TypeOK
<1>2. first \in 1 .. Len(nums) /\ Len(nums) \in Nat
  BY <1>1 DEF IInv, TypeOK, Looping, size
<1>3. nums[first] \in 0 .. 2 * Half - 1
  BY <1>1, <1>2, ElementOfSeq
<1>4. DOMAIN nums = 1 .. Len(nums)
  BY <1>1
<1>5. QED
  BY <1>2, <1>3, <1>4, AverageAssumption DEF IInv, TypeOK, Roomy, size

\* An addition that does not wrap keeps the invariant if what is left in res and
\* in the accumulator still stands for the sum.
LEMMA Addition ==
  ASSUME Roomy, IInv, Looping,
         NEW acc \in Int, NEW r \in Int,
         Accumulate(acc, r),
         acc >= - size,
         acc + nums[first] <= MaxSigned,
         r * size + acc = sum
  PROVE  IInv'
<1>1. /\ size \in Nat \ {0} /\ nums[first] \in Nat
      /\ nums[first] + size <= MaxSigned
  BY NextNumber
<1>2. nums' = nums /\ size' = size
  BY DEF Accumulate, size
<1>3. accumulator' = acc + nums[first]
  <2>1. acc >= MinSigned
    BY <1>1, AverageAssumption DEF MinSigned, MaxSigned
  <2>2. acc + nums[first] \in MinSigned .. MaxSigned
    BY <1>1, <2>1, AverageAssumption DEF MinSigned, MaxSigned
  <2>3. QED
    BY <1>1, <2>1, <2>2, Conversion DEF Accumulate
<1>4. TypeOK'
  BY <1>1, <1>2 DEF IInv, TypeOK, Looping, Accumulate
<1>5. AccumulatorInv'
  BY <1>1, <1>2, <1>3, AverageAssumption DEF AccumulatorInv, MaxSigned
<1>6. NothingWrapped'
  <2>1. res' = r /\ sum' = sum + nums[first]
    BY DEF Accumulate
  <2>2. r * size \in Int /\ sum \in Int
    BY <1>1 DEF IInv, TypeOK
  <2>3. QED
    BY <1>1, <1>2, <1>3, <2>1, <2>2 DEF NothingWrapped
<1>7. ExactAverage'
  BY DEF ExactAverage, Looping, Accumulate
<1>8. QED
  BY <1>4, <1>5, <1>6, <1>7 DEF IInv

LEMMA Initial == Init => IInv
<1> SUFFICES ASSUME Init PROVE IInv
  OBVIOUS
<1>1. nums \in Inputs /\ nums \in Seq(0 .. 2 * Half - 1)
  BY AverageAssumption DEF Init
<1>2. size \in Nat
  BY <1>1 DEF size
<1>3. TypeOK
  <2>1. returned \in BOOLEAN
    BY DEF Init
  <2>2. first \in 1 .. size + 1 /\ res \in Int /\ sum \in Nat /\ average \in Int
    BY <1>2 DEF Init
  <2>3. QED
    BY <1>1, <2>1, <2>2 DEF TypeOK
<1>4. AccumulatorInv
  BY <1>2, AverageAssumption DEF Init, AccumulatorInv, MaxSigned
<1>5. NothingWrapped
  <2>1. 0 * size + 0 = 0
    BY <1>2
  <2>2. QED
    BY <2>1 DEF Init, NothingWrapped
<1>6. ExactAverage
  BY DEF Init, ExactAverage
<1>7. QED
  BY <1>3, <1>4, <1>5, <1>6 DEF IInv

LEMMA Step == Roomy /\ IInv /\ [Next]_vars => IInv'
<1> SUFFICES ASSUME Roomy, IInv, [Next]_vars PROVE IInv'
  OBVIOUS
<1>0. /\ size \in Nat /\ accumulator \in Int /\ res \in Int /\ sum \in Nat
      /\ res * size + accumulator = sum
  BY AverageAssumption
     DEF IInv, TypeOK, AccumulatorInv, NothingWrapped, size, MaxSigned
<1>1. CASE Empty
  BY <1>0, <1>1
     DEF Empty, IInv, TypeOK, AccumulatorInv, NothingWrapped, ExactAverage, size
<1>2. CASE CarryLow
  <2>1. /\ size \in Nat \ {0} /\ nums[first] \in Nat
        /\ nums[first] + size <= MaxSigned
    BY <1>2, NextNumber DEF CarryLow
  <2> DEFINE q == Quot(accumulator, size)
             m == Rem(accumulator, size)
  <2>2. /\ q \in Int /\ m \in Int /\ accumulator = size * q + m
        /\ m \in 1 - size .. 0
    BY <1>0, <1>2, <2>1, Division DEF CarryLow, TooLow
  <2>3. m + size >= - size /\ m + size + nums[first] <= MaxSigned
    BY <2>1, <2>2, AverageAssumption DEF MaxSigned
  <2>4. (res + q - 1) * size + (m + size) = sum
    BY <1>0, <2>1, <2>2
  <2>5. Accumulate(m + size, res + q - 1)
    BY <1>2 DEF CarryLow
  <2>6. m + size \in Int /\ res + q - 1 \in Int
    BY <1>0, <2>1, <2>2
  <2> HIDE DEF q, m
  <2>7. QED
    BY <1>2, <2>3, <2>4, <2>5, <2>6, Addition DEF CarryLow
<1>3. CASE CarryHigh
  <2>1. /\ size \in Nat \ {0} /\ nums[first] \in Nat
        /\ nums[first] + size <= MaxSigned
    BY <1>3, NextNumber DEF CarryHigh
  <2> DEFINE q == Quot(accumulator, size)
             m == Rem(accumulator, size)
  <2>2. /\ q \in Int /\ m \in Int /\ accumulator = size * q + m
        /\ m \in 0 .. size - 1
    BY <1>0, <1>3, <2>1, Division DEF CarryHigh, TooHigh
  <2>3. m - size >= - size /\ m - size + nums[first] <= MaxSigned
    BY <2>1, <2>2, AverageAssumption DEF MaxSigned
  <2>4. (res + q + 1) * size + (m - size) = sum
    <3> HIDE DEF q, m
    <3>1. (res + q + 1) * size = res * size + size * q + size
      BY <1>0, <2>1, <2>2
    <3>2. res * size \in Int /\ size * q \in Int
      BY <1>0, <2>1, <2>2
    <3>3. QED
      BY <1>0, <2>1, <2>2, <3>1, <3>2
  <2>5. Accumulate(m - size, res + q + 1)
    BY <1>3 DEF CarryHigh
  <2>6. m - size \in Int /\ res + q + 1 \in Int
    BY <1>0, <2>1, <2>2
  <2> HIDE DEF q, m
  <2>7. QED
    BY <1>3, <2>3, <2>4, <2>5, <2>6, Addition DEF CarryHigh
<1>4. CASE Add
  <2>1. /\ size \in Nat \ {0} /\ nums[first] \in Nat
        /\ nums[first] + size <= MaxSigned
    BY <1>4, NextNumber DEF Add
  <2>2. accumulator + nums[first] <= MaxSigned
    <3>1. CASE accumulator <= 0
      BY <1>0, <2>1, <3>1, AverageAssumption DEF MaxSigned
    <3>2. CASE accumulator > 0
      <4>1. MaxSigned - accumulator \in 0 .. Half - 1
        BY <3>2, AverageAssumption DEF IInv, AccumulatorInv, MaxSigned
      <4>2. AsUnsigned(MaxSigned - accumulator) = MaxSigned - accumulator
        BY <4>1, AverageAssumption DEF AsUnsigned
      <4>3. QED
        BY <1>0, <1>4, <2>1, <3>2, <4>1, <4>2, AverageAssumption
           DEF Add, TooHigh, MaxSigned
    <3>3. QED
      BY <1>0, <3>1, <3>2
  <2>3. accumulator >= - size
    BY <1>0, AverageAssumption DEF IInv, AccumulatorInv, MaxSigned
  <2>4. QED
    BY <1>0, <1>4, <2>2, <2>3, Addition DEF Add
<1>5. CASE Return
  <2>1. /\ sum' = sum /\ nums' = nums /\ size' = size /\ returned'
        /\ size \in Nat \ {0}
    BY <1>0, <1>5 DEF Return, size
  <2>2. average' = sum \div size
    BY <1>0, <1>5 DEF Return, Quot
  <2>3. sum \div size \in Int
    BY <1>0, <2>1
  <2>4. ExactAverage'
    BY <2>1, <2>2 DEF ExactAverage
  <2>5. TypeOK' /\ AccumulatorInv' /\ NothingWrapped'
    BY <1>5, <2>1, <2>2, <2>3
       DEF Return, IInv, TypeOK, AccumulatorInv, NothingWrapped
  <2>6. QED
    BY <2>4, <2>5 DEF IInv
<1>6. CASE Returned \/ UNCHANGED vars
  BY <1>6 DEF Returned, vars, IInv, TypeOK, AccumulatorInv, NothingWrapped,
              ExactAverage, size
<1>7. QED
  BY <1>1, <1>2, <1>3, <1>4, <1>5, <1>6 DEF Next

\* The inductive invariant holds, for all widths, numbers and lengths.
THEOREM Invariance == ASSUME Roomy PROVE Spec => []IInv
<1>1. Roomy
  OBVIOUS
<1>2. QED
  BY <1>1, Initial, Step, PTL DEF Spec

\* While the vector is averaged, no addition wraps: res and accumulator always
\* stand for the sum of the numbers so far.
THEOREM NoWrap == ASSUME Roomy PROVE Spec => []NothingWrapped
<1>1. IInv => NothingWrapped
  BY DEF IInv
<1>2. QED
  BY <1>1, Invariance, PTL

\* avg_no_overflow returns the average of its numbers, rounded down.
THEOREM Average == ASSUME Roomy PROVE Spec => []ExactAverage
<1>1. IInv => ExactAverage
  BY DEF IInv
<1>2. QED
  BY <1>1, Invariance, PTL

-----------------------------------------------------------------------------

(***************************************************************************)
(* Folds.  tlapm has no induction over the length of a sequence, but the   *)
(* least number at which a statement fails does as well: it is not the     *)
(* first, and the statement holds of the one before.                       *)
(***************************************************************************)

\* Every set of numbers that is not empty has a least one: what takes the place of
\* induction below.
LEMMA Least ==
  ASSUME NEW T, T \subseteq Nat, T # {}
  PROVE  \E n \in T : \A m \in T : n <= m
  <1> DEFINE R == OpToRel(<, Nat)
  <1>1. IsWellFoundedOn(R, Nat)
    BY NatLessThanWellFounded
  <1>2. PICK n \in T : \A m \in T : ~ (<<m, n>> \in R)
    <2> HIDE DEF R
    <2> QED BY <1>1, WFMin
  <1>3. \A m \in T : n <= m
    <2> TAKE m \in T
    <2>1. m \in Nat /\ n \in Nat /\ ~ m < n
      BY <1>2 DEF OpToRel
    <2> QED BY <2>1
  <1> QED BY <1>3

\* F gives the sum of the numbers with indices in a set, whichever of them is taken
\* out first.
IsSumOf(F, n, v) ==
  /\ n \in Nat /\ v \in [1 .. n -> Int]
  /\ F \in [SUBSET (1 .. n) -> Int]
  /\ F[{}] = 0
  /\ \A T \in SUBSET (1 .. n) : \A x \in T : F[T] = v[x] + F[T \ {x}]

\* There is such a function: one is put together from the numbers in order.
LEMMA SumsExist ==
  ASSUME NEW n \in Nat, NEW v \in [1 .. n -> Int]
  PROVE  \E F : IsSumOf(F, n, v)
  <1> DEFINE S == 1 .. n
             part(x, m) == IF x <= m THEN v[x] ELSE 0
             IsSum(g, m) == /\ g \in [SUBSET S -> Int]
                            /\ g[{}] = 0
                            /\ \A T \in SUBSET S : \A x \in T :
                                 g[T] = part(x, m) + g[T \ {x}]
             Bad == {m \in 0 .. n : ~ \E g : IsSum(g, m)}
  <1>1. Bad = {}
    <2> SUFFICES ASSUME Bad # {} PROVE FALSE
      OBVIOUS
    <2>1. PICK m \in Bad : \A l \in Bad : m <= l
      <3>1. Bad \subseteq Nat
        OBVIOUS
      <3> HIDE DEF Bad
      <3> QED BY <3>1, Least
    <2>2. m \in 0 .. n /\ ~ \E g : IsSum(g, m)
      OBVIOUS
    <2>3. CASE m = 0
      <3> DEFINE z == [T \in SUBSET S |-> 0]
      <3>1. z \in [SUBSET S -> Int] /\ z[{}] = 0
        OBVIOUS
      <3>2. \A T \in SUBSET S : \A x \in T : z[T] = part(x, m) + z[T \ {x}]
        <4> TAKE T \in SUBSET S
        <4> TAKE x \in T
        <4>1. x \in 1 .. n /\ T \ {x} \in SUBSET S
          OBVIOUS
        <4>2. part(x, m) = 0
          BY <2>3, <4>1
        <4> QED BY <4>1, <4>2
      <3> HIDE DEF z
      <3>3. IsSum(z, m)
        BY <3>1, <3>2
      <3> HIDE DEF IsSum
      <3> QED BY <2>2, <3>3
    <2>4. CASE m # 0
      <3>1. m - 1 \in 0 .. n /\ m - 1 \notin Bad
        <4>1. m - 1 \in 0 .. n /\ ~ m <= m - 1
          BY <2>2, <2>4
        <4> HIDE DEF Bad
        <4> QED BY <2>1, <4>1
      <3>2. PICK g : IsSum(g, m - 1)
        BY <3>1
      <3> DEFINE h == [T \in SUBSET S |-> g[T] + IF m \in T THEN v[m] ELSE 0]
      <3>3. m \in S /\ v[m] \in Int
        BY <2>2, <2>4
      <3>4. h \in [SUBSET S -> Int] /\ h[{}] = 0
        <4>1. {} \in SUBSET S /\ \A T \in SUBSET S : g[T] \in Int
          BY <3>2
        <4>2. g[{}] = 0
          BY <3>2
        <4> HIDE DEF IsSum, part
        <4> QED BY <3>3, <4>1, <4>2
      <3>5. \A T \in SUBSET S : \A x \in T : h[T] = part(x, m) + h[T \ {x}]
        <4> TAKE T \in SUBSET S
        <4> TAKE x \in T
        <4>1. x \in S /\ v[x] \in Int /\ T \ {x} \in SUBSET S
          OBVIOUS
        <4>2. g[T] = part(x, m - 1) + g[T \ {x}] /\ g[T \ {x}] \in Int
          BY <3>2, <4>1
        <4>3. CASE x = m
          <5>1. part(x, m - 1) = 0 /\ part(x, m) = v[m]
            BY <2>2, <4>3
          <5>2. h[T] = g[T] + v[m] /\ h[T \ {x}] = g[T \ {x}] + 0
            BY <4>1, <4>3
          <5> HIDE DEF part, h
          <5> QED BY <3>3, <4>2, <5>1, <5>2
        <4>4. CASE x # m
          <5>1. part(x, m - 1) = part(x, m)
            BY <2>2, <4>1, <4>4
          <5>2. part(x, m) \in Int
            BY <4>1
          <5>3. PICK w \in Int : h[T] = g[T] + w /\ h[T \ {x}] = g[T \ {x}] + w
            BY <3>3, <4>1, <4>4
          <5> HIDE DEF part, h
          <5> QED BY <4>2, <5>1, <5>2, <5>3
        <4> QED BY <4>3, <4>4
      <3>6. IsSum(h, m)
        BY <3>4, <3>5
      <3> HIDE DEF IsSum, h
      <3> QED BY <2>2, <3>6
    <2> QED BY <2>3, <2>4
  <1>2. PICK F : IsSum(F, n)
    <2>1. n \in 0 .. n
      OBVIOUS
    <2> HIDE DEF IsSum
    <2> QED BY <1>1, <2>1
  <1>3. \A T \in SUBSET S : \A x \in T : F[T] = v[x] + F[T \ {x}]
    <2> TAKE T \in SUBSET S
    <2> TAKE x \in T
    <2>1. part(x, n) = v[x]
      OBVIOUS
    <2> QED BY <1>2, <2>1
  <1>4. IsSumOf(F, n, v)
    BY <1>2, <1>3 DEF IsSumOf
  <1> QED BY <1>4

\* FoldSeq, which takes the indices in an order of its own, gives this sum.
LEMMA FoldIsSum ==
  ASSUME NEW n, NEW v, NEW F, IsSumOf(F, n, v)
  PROVE  Total(v) = F[1 .. n]
  <1> DEFINE S == 1 .. n
             pick(T) == CHOOSE x \in T : TRUE
             step(f) == [T \in SUBSET S |->
                           IF T = {} THEN 0 ELSE v[pick(T)] + f[T \ {pick(T)}]]
             iter == CHOOSE f : f = step(f)
  <1>0. /\ n \in Nat /\ v \in [1 .. n -> Int]
        /\ F \in [SUBSET (1 .. n) -> Int]
        /\ F[{}] = 0
        /\ \A T \in SUBSET (1 .. n) : \A x \in T : F[T] = v[x] + F[T \ {x}]
    BY DEF IsSumOf
  <1>1. \A T \in SUBSET S : T # {} => pick(T) \in T /\ T \ {pick(T)} \in SUBSET S
    OBVIOUS
  <1>2. F = step(F)
    <2> HIDE DEF pick
    <2>1. \A T \in SUBSET S : F[T] = step(F)[T]
      BY <1>0, <1>1
    <2> QED BY <1>0, <2>1
  <1>3. iter = step(iter)
    <2> HIDE DEF step
    <2> QED BY <1>2
  <1>4. \A T \in SUBSET S : iter[T] = F[T]
    <2> DEFINE Bad == {Cardinality(T) : T \in {U \in SUBSET S : iter[U] # F[U]}}
    <2> SUFFICES ASSUME Bad # {} PROVE FALSE
      <3> HIDE DEF iter
      <3> QED OBVIOUS
    <2>1. \A T \in SUBSET S : IsFiniteSet(T) /\ Cardinality(T) \in Nat
      <3>1. IsFiniteSet(S)
        BY <1>0, FS_Interval
      <3> HIDE DEF S
      <3> QED BY <3>1, FS_Subset, FS_CardinalityType
    <2>2. PICK c \in Bad : \A d \in Bad : c <= d
      <3>1. Bad \subseteq Nat
        <4> HIDE DEF iter
        <4> QED BY <2>1
      <3> HIDE DEF Bad
      <3> QED BY <3>1, Least
    <2>3. PICK T \in SUBSET S : iter[T] # F[T] /\ c = Cardinality(T)
      OBVIOUS
    <2>4. T # {}
      <3> HIDE DEF iter
      <3> QED BY <1>0, <1>3, <2>3
    <2> DEFINE x == pick(T)
               U == T \ {x}
    <2>5. x \in T /\ U \in SUBSET S
      BY <1>1, <2>4
    <2>6. iter[T] = v[x] + iter[U]
      <3> HIDE DEF iter, pick
      <3> QED BY <1>3, <2>4
    <2>7. F[T] = v[x] + F[U]
      BY <1>0, <2>5
    <2>8. iter[U] # F[U]
      <3> HIDE DEF iter, x, U
      <3> QED BY <2>3, <2>6, <2>7
    <2>9. Cardinality(U) = Cardinality(T) - 1
      <3> HIDE DEF x
      <3> QED BY <2>1, <2>5, FS_RemoveElement
    <2>10. Cardinality(U) \in Bad
      <3> HIDE DEF iter, U
      <3> QED BY <2>5, <2>8
    <2> HIDE DEF Bad, U, iter
    <2> QED BY <2>1, <2>2, <2>3, <2>9, <2>10
  <1>5. DOMAIN v = S /\ S \in SUBSET S
    BY <1>0
  <1>6. Total(v) = iter[S]
    BY <1>5 DEF Total, FoldSeq, FoldFunction, FoldFunctionOnSet, MapThenFoldSet
  <1> HIDE DEF iter
  <1> QED BY <1>4, <1>5, <1>6

\* Nothing sums to zero.
LEMMA SumOfNothing == Total(<<>>) = 0
  <1> DEFINE F == [T \in SUBSET (1 .. 0) |-> 0]
  <1>1. 1 .. 0 = {} /\ SUBSET (1 .. 0) = {{}}
    OBVIOUS
  <1>2. <<>> \in [1 .. 0 -> Int]
    OBVIOUS
  <1>3. F \in [SUBSET (1 .. 0) -> Int] /\ F[{}] = 0 /\ F[1 .. 0] = 0
    BY <1>1
  <1>4. \A T \in SUBSET (1 .. 0) : \A x \in T : F[T] = <<>>[x] + F[T \ {x}]
    BY <1>1
  <1>5. IsSumOf(F, 0, <<>>)
    <2> HIDE DEF F
    <2> QED BY <1>2, <1>3, <1>4 DEF IsSumOf
  <1> HIDE DEF F
  <1> QED BY <1>3, <1>5, FoldIsSum

\* One more number adds to the sum.
LEMMA SumAppend ==
  ASSUME NEW s \in Seq(Int), NEW c \in Int
  PROVE  Total(Append(s, c)) = Total(s) + c
  <1> DEFINE n == Len(s)
             v == Append(s, c)
  <1>1. n \in Nat /\ n + 1 \in Nat
    OBVIOUS
  <1>2. s \in [1 .. n -> Int] /\ v \in [1 .. n + 1 -> Int] /\ v[n + 1] = c
        /\ \A j \in 1 .. n : v[j] = s[j]
    <2>1. DOMAIN s = 1 .. n /\ \A j \in 1 .. n : s[j] \in Int
      OBVIOUS
    <2>2. Len(v) = n + 1 /\ v \in Seq(Int)
      OBVIOUS
    <2>3. v[n + 1] = c /\ \A j \in 1 .. n : v[j] = s[j]
      OBVIOUS
    <2>4. v \in [1 .. n + 1 -> Int]
      <3> HIDE DEF v
      <3> QED BY <1>1, <2>2
    <2>5. s \in [1 .. n -> Int]
      OBVIOUS
    <2> QED BY <2>3, <2>4, <2>5
  <1> HIDE DEF n, v
  <1>a. PICK F : IsSumOf(F, n + 1, v)
    BY <1>1, <1>2, SumsExist
  <1>3. /\ F \in [SUBSET (1 .. n + 1) -> Int]
        /\ F[{}] = 0
        /\ \A T \in SUBSET (1 .. n + 1) : \A x \in T : F[T] = v[x] + F[T \ {x}]
    BY <1>a DEF IsSumOf
  <1>4. Total(v) = F[1 .. n + 1]
    BY <1>a, FoldIsSum
  <1> DEFINE G == [T \in SUBSET (1 .. n) |-> F[T]]
  <1>5. \A T \in SUBSET (1 .. n) : T \in SUBSET (1 .. n + 1)
    BY <1>1
  <1>6. IsSumOf(G, n, s)
    <2>1. G \in [SUBSET (1 .. n) -> Int] /\ G[{}] = 0
      BY <1>3, <1>5
    <2>2. ASSUME NEW T \in SUBSET (1 .. n), NEW x \in T PROVE G[T] = s[x] + G[T \ {x}]
      <3>1. T \ {x} \in SUBSET (1 .. n) /\ x \in 1 .. n
        OBVIOUS
      <3>2. F[T] = v[x] + F[T \ {x}]
        BY <1>3, <1>5
      <3> QED BY <1>2, <3>1, <3>2
    <2>3. IsSumOf(G, n, s)
      <3> HIDE DEF G
      <3> QED BY <1>1, <1>2, <2>1, <2>2 DEF IsSumOf
    <2> QED BY <2>3
  <1>7. Total(s) = F[1 .. n]
    <2>1. Total(s) = G[1 .. n]
      <3> HIDE DEF G
      <3> QED BY <1>6, FoldIsSum
    <2> QED BY <2>1
  <1>8. F[1 .. n + 1] = c + F[1 .. n]
    <2>1. (1 .. n + 1) \ {n + 1} = 1 .. n /\ n + 1 \in 1 .. n + 1
      BY <1>1
    <2>2. 1 .. n + 1 \in SUBSET (1 .. n + 1)
      OBVIOUS
    <2>3. F[1 .. n + 1] = v[n + 1] + F[(1 .. n + 1) \ {n + 1}]
      BY <1>3, <2>1, <2>2
    <2> QED BY <1>2, <2>1, <2>3
  <1>9. F[1 .. n] \in Int
    BY <1>3, <1>5
  <1> QED BY <1>4, <1>7, <1>8, <1>9 DEF v

\* The loop over the counters of a test pushes one result if its last counter is the
\* only one that is measured.
LEMMA PushesOne ==
  ASSUME NEW rs, NEW s, NEW n \in Nat \ {0}, DOMAIN s = 1 .. n,
         \A i \in 1 .. n - 1 : ~ IsMeasured(s[i]), IsMeasured(s[n])
  PROVE  FoldLeft(PushMeasured, rs, s) = Append(rs, s[n].cycles[1])
<1> DEFINE S == 1 .. n
           step(f) == [T \in SUBSET S |->
                         IF T = {} THEN rs ELSE PushMeasured(f[T \ {Max(T)}], s[Max(T)])]
           iter == CHOOSE f : f = step(f)
           pushed == Append(rs, s[n].cycles[1])
           F == [T \in SUBSET S |-> IF n \in T THEN pushed ELSE rs]
<1>1. \A T \in SUBSET S : T # {} => Max(T) \in T /\ T \ {Max(T)} \in SUBSET S
  <2> TAKE T \in SUBSET S
  <2> SUFFICES ASSUME T # {} PROVE Max(T) \in T
    OBVIOUS
  <2> DEFINE D == {n - x : x \in T}
  <2>1. PICK d \in D : \A e \in D : d <= e
    <3>1. \A x \in T : n - x \in Nat
      <4>1. \A x \in S : n - x \in Nat
        OBVIOUS
      <4> HIDE DEF S
      <4> QED BY <4>1
    <3>2. D \subseteq Nat /\ D # {}
      BY <3>1
    <3> HIDE DEF D
    <3> QED BY <3>2, Least
  <2>2. PICK x \in T : d = n - x
    OBVIOUS
  <2>3. \A z \in T : x >= z
    <3> TAKE z \in T
    <3>1. n - z \in D
      OBVIOUS
    <3>2. n - x <= n - z /\ x \in Int /\ z \in Int
      <4> HIDE DEF D
      <4>1. x \in S /\ z \in S
        OBVIOUS
      <4> QED BY <2>1, <2>2, <3>1, <4>1
    <3> QED BY <3>2
  <2> HIDE DEF D
  <2> QED BY <2>2, <2>3 DEF Max
<1>2. F = step(F)
  <2>1. ASSUME NEW T \in SUBSET S PROVE F[T] = step(F)[T]
    <3>1. CASE T = {}
      BY <3>1
    <3>2. CASE T # {}
      <4> DEFINE m == Max(T)
      <4>1. m \in T /\ m \in S /\ T \ {m} \in SUBSET S
        BY <1>1, <3>2
      <4>2. step(F)[T] = PushMeasured(F[T \ {m}], s[m])
        BY <3>2
      <4>3. CASE m = n
        <5>1. F[T \ {m}] = rs /\ F[T] = pushed
          <6> HIDE DEF m, pushed
          <6> QED BY <4>1, <4>3
        <5>2. PushMeasured(rs, s[m]) = pushed
          <6> HIDE DEF m
          <6> QED BY <4>3 DEF PushMeasured
        <5> HIDE DEF F, step, m, pushed
        <5> QED BY <4>2, <5>1, <5>2
      <4>4. CASE m # n
        <5>1. F[T \ {m}] = F[T]
          <6> HIDE DEF m, pushed
          <6> QED BY <4>1, <4>4
        <5>2. ~ IsMeasured(s[m])
          <6> HIDE DEF m
          <6>1. m \in 1 .. n - 1
            BY <4>1, <4>4
          <6> QED BY <6>1
        <5> HIDE DEF F, step, m
        <5> QED BY <4>2, <5>1, <5>2 DEF PushMeasured
      <4> QED BY <4>3, <4>4
    <3> QED BY <3>1, <3>2
  <2> HIDE DEF pushed
  <2> QED BY <2>1
<1>3. iter = step(iter)
  <2> HIDE DEF step, F
  <2> QED BY <1>2
<1>4. \A T \in SUBSET S : iter[T] = F[T]
  <2> DEFINE Bad == {Cardinality(T) : T \in {U \in SUBSET S : iter[U] # F[U]}}
  <2> SUFFICES ASSUME Bad # {} PROVE FALSE
    <3> HIDE DEF iter, F
    <3> QED OBVIOUS
  <2>1. \A T \in SUBSET S : IsFiniteSet(T) /\ Cardinality(T) \in Nat
    <3>1. IsFiniteSet(S)
      BY FS_Interval
    <3> HIDE DEF S
    <3> QED BY <3>1, FS_Subset, FS_CardinalityType
  <2>2. PICK c \in Bad : \A d \in Bad : c <= d
    <3>1. Bad \subseteq Nat
      <4> HIDE DEF iter, F
      <4> QED BY <2>1
    <3> HIDE DEF Bad
    <3> QED BY <3>1, Least
  <2>3. PICK T \in SUBSET S : iter[T] # F[T] /\ c = Cardinality(T)
    <3> HIDE DEF iter, F
    <3> QED OBVIOUS
  <2>4. T # {}
    <3>1. iter[{}] = rs /\ F[{}] = rs
      <4>1. {} \in SUBSET S /\ n \notin {}
        OBVIOUS
      <4>2. F[{}] = rs
        <5> HIDE DEF pushed
        <5> QED BY <4>1
      <4>3. step(iter)[{}] = rs
        <5> HIDE DEF iter
        <5> QED BY <4>1
      <4> HIDE DEF iter, F, step
      <4> QED BY <1>3, <4>2, <4>3
    <3> HIDE DEF iter, F
    <3> QED BY <2>3, <3>1
  <2> DEFINE x == Max(T)
             U == T \ {x}
  <2>5. x \in T /\ U \in SUBSET S
    BY <1>1, <2>4
  <2>6. iter[T] = PushMeasured(iter[U], s[x])
    <3>1. step(iter)[T] = PushMeasured(iter[U], s[x])
      <4> HIDE DEF iter
      <4> QED BY <2>4
    <3> HIDE DEF iter, step, x, U
    <3> QED BY <1>3, <3>1
  <2>7. F[T] = PushMeasured(F[U], s[x])
    <3>1. step(F)[T] = PushMeasured(F[U], s[x])
      <4> HIDE DEF F
      <4> QED BY <2>4
    <3> HIDE DEF F, step, x, U
    <3> QED BY <1>2, <3>1
  <2>8. iter[U] # F[U]
    <3> HIDE DEF iter, F, x, U
    <3> QED BY <2>3, <2>6, <2>7
  <2>9. Cardinality(U) = Cardinality(T) - 1
    <3> HIDE DEF x
    <3> QED BY <2>1, <2>5, FS_RemoveElement
  <2>10. Cardinality(U) \in Bad
    <3> HIDE DEF iter, F, U
    <3> QED BY <2>5, <2>8
  <2> HIDE DEF Bad, U, iter, F
  <2> QED BY <2>1, <2>2, <2>3, <2>9, <2>10
<1>5. S \in SUBSET S /\ n \in S
  OBVIOUS
<1>6. FoldLeft(PushMeasured, rs, s) = iter[S]
  BY DEF FoldLeft, MapThenFoldSet
<1>7. F[S] = pushed
  <2> HIDE DEF pushed
  <2> QED BY <1>5
<1> HIDE DEF iter, F
<1> QED BY <1>4, <1>5, <1>6, <1>7

-----------------------------------------------------------------------------

(***************************************************************************)
(* The sweep of flush.cpp.                                                 *)
(***************************************************************************)

\* Whichever test was run, one result is pushed, that of its last counter.
LEMMA TestPushes ==
  ASSUME NEW rs, NEW c, NEW l \in {1, 2}
  PROVE  FoldLeft(PushMeasured, rs, CountersOf(TestOf[l], c)) = Append(rs, c)
<1> DEFINE s == CountersOf(TestOf[l], c)
<1>1. CASE l = 1
  <2>1. s = <<Flusher, Flusher, Reader(c)>>
    BY <1>1 DEF CountersOf, TestOf
  <2>2. DOMAIN s = 1 .. 3 /\ s[3] = Reader(c) /\ \A i \in 1 .. 3 - 1 : s[i] = Flusher
    <3> HIDE DEF s
    <3> QED BY <2>1
  <2>3. IsMeasured(s[3]) /\ (\A i \in 1 .. 3 - 1 : ~ IsMeasured(s[i])) /\ s[3].cycles[1] = c
    <3> HIDE DEF s
    <3> QED BY <2>2 DEF IsMeasured, Reader, Flusher
  <2> HIDE DEF s
  <2>4. 3 \in Nat \ {0} /\ DOMAIN s = 1 .. 3
    BY <2>2
  <2>5. FoldLeft(PushMeasured, rs, s) = Append(rs, s[3].cycles[1])
    BY <2>3, <2>4, PushesOne
  <2>6. QED
    BY <2>3, <2>5 DEF s
<1>2. CASE l = 2
  <2>1. s = <<Flusher, Flusher, Flusher, Recipe, Recipe, Recipe, Flusher, Reader(c)>>
    BY <1>2 DEF CountersOf, TestOf
  <2>2. /\ DOMAIN s = 1 .. 8 /\ s[8] = Reader(c)
        /\ \A i \in 1 .. 8 - 1 : s[i] = Flusher \/ s[i] = Recipe
    <3> HIDE DEF s
    <3> QED BY <2>1
  <2>3. IsMeasured(s[8]) /\ (\A i \in 1 .. 8 - 1 : ~ IsMeasured(s[i])) /\ s[8].cycles[1] = c
    <3> HIDE DEF s
    <3> QED BY <2>2 DEF IsMeasured, Reader, Flusher, Recipe
  <2> HIDE DEF s
  <2>4. 8 \in Nat \ {0} /\ DOMAIN s = 1 .. 8
    BY <2>2
  <2>5. FoldLeft(PushMeasured, rs, s) = Append(rs, s[8].cycles[1])
    BY <2>3, <2>4, PushesOne
  <2>6. QED
    BY <2>3, <2>5 DEF s
<1>3. QED
  BY <1>1, <1>2

\* Nothing has been added when avg_no_overflow is called.
LEMMA InitialSum == Init => SumInv
<1> SUFFICES ASSUME Init PROVE SumInv
  OBVIOUS
<1>1. first = 1 /\ sum = 0 /\ returned = FALSE /\ nums \in Seq(0 .. 2 * Half - 1)
  BY AverageAssumption DEF Init
<1>2. SubSeq(nums, 1, first - 1) = <<>>
  BY <1>1
<1>3. QED
  BY <1>1, <1>2, SumOfNothing DEF SumInv

\* A number is added to the sum when first goes past it.
LEMMA SumStep ==
  ASSUME IInv, SumInv, Empty \/ CarryLow \/ CarryHigh \/ Add \/ Return
  PROVE  SumInv'
<1>1. nums \in Seq(0 .. 2 * Half - 1) /\ first \in 1 .. Len(nums) + 1 /\ Len(nums) \in Nat
  BY AverageAssumption DEF IInv, TypeOK, size
<1>2. CASE Empty \/ Return
  <2>1. first = Len(nums) + 1
    BY <1>1, <1>2 DEF Empty, Return, size
  <2>2. UNCHANGED <<nums, first, sum>>
    BY <1>2 DEF Empty, Return
  <2>3. QED
    BY <2>1, <2>2 DEF SumInv, size
<1>3. CASE CarryLow \/ CarryHigh \/ Add
  <2>1. /\ first <= Len(nums) /\ ~ returned' /\ nums' = nums
        /\ first' = first + 1 /\ sum' = sum + nums[first]
    BY <1>3 DEF CarryLow, CarryHigh, Add, Looping, Accumulate, size
  <2> DEFINE s == SubSeq(nums, 1, first - 1)
  <2>2. s \in Seq(Int) /\ nums[first] \in Int
    <3>1. nums \in Seq(Int) /\ first \in 1 .. Len(nums)
      BY <1>1, <2>1, AverageAssumption
    <3>2. \A i \in 1 .. Len(nums) : nums[i] \in Int
      BY <3>1
    <3>3. QED
      BY <3>1, <3>2
  <2>3. SubSeq(nums, 1, first) = Append(s, nums[first])
    BY <1>1, <2>1
  <2>4. first' - 1 = first
    BY <1>1, <2>1
  <2>5. sum = Total(s)
    BY DEF SumInv
  <2> HIDE DEF s
  <2>6. sum' = Total(SubSeq(nums', 1, first' - 1))
    BY <2>1, <2>2, <2>3, <2>4, <2>5, SumAppend
  <2>7. QED
    BY <2>1, <2>6 DEF SumInv
<1>4. QED
  BY <1>2, <1>3

LEMMA SweepInitial == InitSweep => SweepInv
<1> SUFFICES ASSUME InitSweep PROVE SweepInv
  OBVIOUS
<1> USE DEF InitSweep
<1>1. IInv /\ SumInv
  BY Initial, InitialSum
<1>2. ResultsInv
  <2>1. rounds \in Nat /\ 0 \in 0 .. rounds /\ 1 \in 1 .. SizeCount
    BY SweepAssumption
  <2>2. /\ cycles = <<<<>>, <<>>>> /\ origin = <<<<>>, <<>>>>
        /\ k = 0 /\ loop = 1 /\ sizeNo = 1 /\ rounds \in Rounds
    OBVIOUS
  <2>3. cycles[1] = <<>> /\ cycles[2] = <<>> /\ DOMAIN cycles = {1, 2}
    BY <2>2
  <2>4. origin[1] = <<>> /\ origin[2] = <<>> /\ DOMAIN origin = {1, 2}
    BY <2>2
  <2>5. cycles \in [{1, 2} -> Seq(Cycles)]
    <3>1. cycles = [i \in {1, 2} |-> cycles[i]]
      BY <2>2, <2>3
    <3>2. <<>> \in Seq(Cycles)
      OBVIOUS
    <3> HIDE DEF InitSweep
    <3>3. QED
      BY <2>3, <3>1, <3>2
  <2>6. Len(cycles[1]) = 0 /\ origin[1] = [t \in 1 .. 0 |-> <<1, 1>>]
    <3>1. Len(<<>>) = 0 /\ <<>> = [t \in 1 .. 0 |-> <<1, 1>>]
      OBVIOUS
    <3>2. QED
      BY <2>3, <2>4, <3>1
  <2>7. QED
    BY <2>1, <2>2, <2>3, <2>4, <2>5, <2>6 DEF ResultsInv
<1>3. CallInv
  BY DEF Init, CallInv, averageVars
<1>4. QED
  BY <1>1, <1>2, <1>3 DEF SweepInv

\* One test: one result more.
LEMMA SweepRunOne == ASSUME SweepInv, NEW c \in Cycles, RunOne(c) PROVE ResultsInv'
<1> DEFINE l == loop
<1>1. /\ rounds \in Nat /\ l \in {1, 2} /\ k \in 0 .. rounds /\ k < rounds
      /\ cycles \in [{1, 2} -> Seq(Cycles)] /\ DOMAIN origin = {1, 2}
      /\ Len(cycles[l]) = k
      /\ origin[l] = [t \in 1 .. k |-> <<loop, sizeNo>>]
      /\ loop = 1 => cycles[2] = <<>> /\ origin[2] = <<>>
  BY SweepAssumption DEF SweepInv, ResultsInv, RunOne
<1>2. UNCHANGED <<rounds, loop, sizeNo>> /\ k' = k + 1
  BY DEF RunOne
<1>3. cycles' = [cycles EXCEPT ![l] = Append(cycles[l], c)]
  <2>1. cycles' = [cycles EXCEPT ![l] =
                     FoldLeft(PushMeasured, cycles[l], CountersOf(TestOf[l], c))]
    BY DEF RunOne
  <2>2. FoldLeft(PushMeasured, cycles[l], CountersOf(TestOf[l], c)) = Append(cycles[l], c)
    BY <1>1, TestPushes
  <2>3. QED
    BY <2>1, <2>2
<1>4. cycles[l] \in Seq(Cycles) /\ Append(cycles[l], c) \in Seq(Cycles)
      /\ Len(Append(cycles[l], c)) = k + 1
  BY <1>1
<1>5. cycles' \in [{1, 2} -> Seq(Cycles)] /\ cycles'[l] = Append(cycles[l], c)
      /\ \A i \in {1, 2} : i # l => cycles'[i] = cycles[i]
  <2> DEFINE a == Append(cycles[l], c)
  <2>1. a \in Seq(Cycles)
    BY <1>4
  <2> HIDE DEF a
  <2>2. cycles' = [cycles EXCEPT ![l] = a]
    BY <1>3 DEF a
  <2>3. cycles' \in [{1, 2} -> Seq(Cycles)] /\ cycles'[l] = a
        /\ \A i \in {1, 2} : i # l => cycles'[i] = cycles[i]
    BY <1>1, <2>1, <2>2
  <2>4. QED
    BY <2>3 DEF a
<1>6. DOMAIN cycles'[l] = 1 .. k + 1 /\ Len(cycles'[l]) = k + 1
  <2>1. cycles'[l] \in Seq(Cycles) /\ Len(cycles'[l]) = k + 1
    BY <1>4, <1>5
  <2>2. QED
    BY <2>1
<1>7. DOMAIN origin' = {1, 2} /\ (\A i \in {1, 2} : i # l => origin'[i] = origin[i])
      /\ origin'[l] = [t \in DOMAIN cycles'[l] |->
                         IF t \in DOMAIN origin[l] THEN origin[l][t] ELSE <<loop, sizeNo>>]
  BY <1>1 DEF RunOne
<1>8. origin'[l] = [t \in 1 .. k + 1 |-> <<loop, sizeNo>>]
  <2>1. DOMAIN origin[l] = 1 .. k /\ \A t \in 1 .. k : origin[l][t] = <<loop, sizeNo>>
    BY <1>1
  <2>2. QED
    BY <1>6, <1>7, <2>1
<1>9. sizeNo' \in 1 .. SizeCount /\ rounds' \in Rounds
  BY <1>2 DEF SweepInv, ResultsInv
<1>10. k' \in 0 .. rounds'
  BY <1>1, <1>2
<1>11. loop' = 1 => cycles'[2] = <<>> /\ origin'[2] = <<>>
  BY <1>1, <1>2, <1>5, <1>7
<1>12. QED
  BY <1>1, <1>2, <1>5, <1>6, <1>7, <1>8, <1>9, <1>10, <1>11 DEF ResultsInv

\* The results are cleared behind each size, those of the second loop before it begins.
LEMMA SweepNextSize == ASSUME SweepInv, NextSize PROVE ResultsInv'
<1>1. /\ rounds \in Rounds /\ rounds \in Nat /\ loop \in {1, 2} /\ sizeNo \in 1 .. SizeCount
      /\ SizeCount \in Nat \ {0}
      /\ cycles \in [{1, 2} -> Seq(Cycles)] /\ DOMAIN origin = {1, 2}
      /\ loop = 1 => cycles[2] = <<>> /\ origin[2] = <<>>
  BY SweepAssumption DEF SweepInv, ResultsInv
<1>2. /\ cycles' = [cycles EXCEPT ![loop] = <<>>] /\ origin' = [origin EXCEPT ![loop] = <<>>]
      /\ k' = 0 /\ rounds' = rounds
      /\ sizeNo' = IF sizeNo < SizeCount THEN sizeNo + 1 ELSE 1
      /\ loop' = IF sizeNo < SizeCount THEN loop ELSE 2
  BY DEF NextSize, NoResults
<1>3. /\ cycles' \in [{1, 2} -> Seq(Cycles)] /\ DOMAIN origin' = {1, 2}
      /\ cycles'[loop] = <<>> /\ origin'[loop] = <<>>
      /\ loop = 1 => cycles'[2] = <<>> /\ origin'[2] = <<>>
  <2>1. <<>> \in Seq(Cycles)
    OBVIOUS
  <2>2. QED
    BY <1>1, <1>2, <2>1
<1>4. loop' \in {1, 2} /\ sizeNo' \in 1 .. SizeCount /\ k' \in 0 .. rounds'
  BY <1>1, <1>2
<1>5. /\ cycles'[loop'] = <<>> /\ origin'[loop'] = <<>>
      /\ loop' = 1 => cycles'[2] = <<>> /\ origin'[2] = <<>>
  BY <1>1, <1>2, <1>3
<1>6. Len(cycles'[loop']) = k' /\ origin'[loop'] = [t \in 1 .. k' |-> <<loop', sizeNo'>>]
  <2>1. Len(<<>>) = 0 /\ <<>> = [t \in 1 .. 0 |-> <<loop', sizeNo'>>]
    OBVIOUS
  <2>2. k' = 0
    BY <1>2
  <2> DEFINE ownTests(n) == [t \in 1 .. n |-> <<loop', sizeNo'>>]
  <2>3. ownTests(k') = <<>>
    <3>1. ownTests(0) = <<>>
      BY <2>1
    <3> HIDE DEF ownTests
    <3>2. QED
      BY <2>2, <3>1
  <2> HIDE DEF ownTests
  <2>4. Len(cycles'[loop']) = k' /\ origin'[loop'] = ownTests(k')
    BY <1>5, <2>1, <2>2, <2>3
  <2>5. QED
    BY <2>4 DEF ownTests
<1>7. QED
  BY <1>1, <1>2, <1>3, <1>4, <1>5, <1>6 DEF ResultsInv

\* A call of avg_no_overflow begins like Init.
LEMMA SweepCall ==
  ASSUME nums' \in Inputs, averageVars' = <<1, 0, 0, 0, 0, FALSE>>
  PROVE  IInv' /\ SumInv'
<1>1. Init'
  BY DEF Init, averageVars
<1>2. (Init => IInv)'
  BY Initial, PTL
<1>3. (Init => SumInv)'
  BY InitialSum, PTL
<1>4. QED
  BY <1>1, <1>2, <1>3

LEMMA SweepStep == Roomy /\ SweepInv /\ [NextSweep]_<<vars, sweepVars>> => SweepInv'
<1> SUFFICES ASSUME Roomy, SweepInv, [NextSweep]_<<vars, sweepVars>> PROVE SweepInv'
  OBVIOUS
<1>0. IInv /\ SumInv /\ ResultsInv /\ CallInv
  BY DEF SweepInv
<1>1. ASSUME NEW c \in Cycles, RunOne(c) PROVE SweepInv'
  <2>1. UNCHANGED vars /\ phase' = phase /\ phase = "test"
    BY <1>1 DEF RunOne, vars, averageVars
  <2>2. IInv' /\ SumInv'
    BY <1>0, <2>1
       DEF vars, IInv, TypeOK, AccumulatorInv, NothingWrapped, ExactAverage, SumInv, size
  <2>3. CallInv'
    BY <1>0, <2>1 DEF CallInv, vars, averageVars
  <2>4. QED
    BY <1>1, <2>2, <2>3, SweepRunOne DEF SweepInv
<1>2. CASE ExitSweep \/ Swept \/ UNCHANGED <<vars, sweepVars>>
  <2>1. /\ UNCHANGED <<vars, rounds, loop, sizeNo, k, cycles, origin>>
        /\ \/ phase' = phase
           \/ phase = "test" /\ phase' = "exit"
    <3>1. CASE ExitSweep
      BY <3>1 DEF ExitSweep
    <3>2. CASE Swept \/ UNCHANGED <<vars, sweepVars>>
      <4>1. vars' = vars /\ sweepVars' = sweepVars
        BY <3>2 DEF Swept
      <4>2. UNCHANGED <<rounds, loop, sizeNo, k, cycles, origin, phase>>
        BY <4>1 DEF sweepVars
      <4>3. UNCHANGED <<vars, rounds, loop, sizeNo, k, cycles, origin>>
        BY <4>1, <4>2
      <4>4. phase' = phase
        BY <4>2
      <4>5. QED
        BY <4>3, <4>4
    <3>3. QED
      BY <1>2, <3>1, <3>2
  <2>2. IInv' /\ SumInv'
    BY <1>0, <2>1
       DEF vars, IInv, TypeOK, AccumulatorInv, NothingWrapped, ExactAverage, SumInv, size
  <2>3. ResultsInv'
    BY <1>0, <2>1 DEF ResultsInv
  <2>4. CallInv'
    BY <1>0, <2>1 DEF CallInv, vars, averageVars
  <2>5. QED
    BY <2>2, <2>3, <2>4 DEF SweepInv
<1>3. CASE CallAverage
  <2>1. /\ nums' = cycles[loop] /\ averageVars' = averageVars /\ k = rounds
        /\ UNCHANGED <<rounds, loop, sizeNo, k, cycles, origin>>
        /\ phase = "test" /\ phase' = "average"
    BY <1>3 DEF CallAverage
  <2>2. averageVars' = <<1, 0, 0, 0, 0, FALSE>>
    BY <1>0, <2>1 DEF CallInv
  <2>3. nums' \in Inputs
    <3>1. cycles[loop] \in Seq(Cycles) /\ Len(cycles[loop]) = rounds /\ rounds \in Rounds
      BY <1>0, <2>1 DEF ResultsInv
    <3>2. cycles[loop] \in [1 .. rounds -> Cycles]
      BY <3>1
    <3>3. QED
      BY <2>1, <3>1, <3>2, SweepAssumption
  <2>4. IInv' /\ SumInv'
    BY <2>2, <2>3, SweepCall
  <2>5. ResultsInv' /\ CallInv'
    BY <1>0, <2>1 DEF ResultsInv, CallInv
  <2>6. QED
    BY <2>4, <2>5 DEF SweepInv
<1>4. CASE RunAverage
  <2>1. (Empty \/ CarryLow \/ CarryHigh \/ Add \/ Return) /\ UNCHANGED sweepVars
        /\ phase = "average"
    BY <1>4 DEF RunAverage
  <2>2. [Next]_vars /\ nums' = nums
    BY <2>1 DEF Next, Empty, CarryLow, CarryHigh, Add, Return, Accumulate
  <2>3. IInv'
    BY <1>0, <2>2, Step
  <2>4. SumInv'
    BY <1>0, <2>1, SumStep
  <2>5. ResultsInv' /\ CallInv'
    BY <1>0, <2>1, <2>2 DEF ResultsInv, CallInv, sweepVars
  <2>6. QED
    BY <2>3, <2>4, <2>5 DEF SweepInv
<1>5. CASE NextSize
  <2>1. nums' = <<>> /\ averageVars' = <<1, 0, 0, 0, 0, FALSE>> /\ phase' # "average"
    BY <1>5 DEF NextSize, averageVars
  <2>2. nums' \in Inputs
    BY <1>0, <2>1 DEF CallInv
  <2>3. IInv' /\ SumInv'
    BY <2>1, <2>2, SweepCall
  <2>4. CallInv'
    BY <1>0, <2>1 DEF CallInv
  <2>5. QED
    BY <1>5, <2>3, <2>4, SweepNextSize DEF SweepInv
<1>6. QED
  BY <1>1, <1>2, <1>3, <1>4, <1>5 DEF NextSweep

\* The sweep keeps its results apart, whatever the tests measure and however often
\* they are run.
THEOREM SweepInvariance == ASSUME Roomy PROVE SpecSweep => []SweepInv
<1>1. Roomy
  OBVIOUS
<1>2. QED
  BY <1>1, SweepInitial, SweepStep, PTL DEF SpecSweep

\* What flush.cpp prints for a size is the average of the results of its own tests.
THEOREM AveragesOwn == ASSUME Roomy PROVE SpecSweep => []AveragesOwnTests
<1>1. SweepInv => AveragesOwnTests
  <2> SUFFICES ASSUME SweepInv, returned PROVE AveragesOwnTests
    BY DEF AveragesOwnTests
  <2>1. phase = "average"
    BY DEF SweepInv, CallInv, averageVars
  <2>2. /\ origin[loop] = [t \in 1 .. rounds |-> <<loop, sizeNo>>]
        /\ nums = cycles[loop] /\ nums \in Seq(Cycles) /\ Len(nums) = rounds
        /\ rounds \in Nat
    BY <2>1, SweepAssumption DEF SweepInv, CallInv, ResultsInv
  <2>3. ToSet(nums) \subseteq Cycles
    BY <2>2 DEF ToSet
  <2>4. sum = Total(nums)
    <3>1. sum = Total(SubSeq(nums, 1, first - 1)) /\ first = Len(nums) + 1
      BY DEF SweepInv, SumInv, size
    <3>2. first - 1 = Len(nums)
      BY <2>2, <3>1
    <3>3. SubSeq(nums, 1, Len(nums)) = nums
      BY <2>2
    <3>4. QED
      BY <3>1, <3>2, <3>3
  <2>5. average = IF rounds = 0 THEN 0 ELSE sum \div rounds
    BY <2>2 DEF SweepInv, IInv, ExactAverage, size
  <2>6. QED
    BY <2>2, <2>3, <2>4, <2>5 DEF AveragesOwnTests
<1>2. QED
  BY <1>1, SweepInvariance, PTL

=============================================================================
