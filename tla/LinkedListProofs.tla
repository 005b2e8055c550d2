--------------------------- MODULE LinkedListProofs ---------------------------
(***************************************************************************)
(* What the lists look like and what a chase visits, for blocks and        *)
(* strides of every size, all random choices and any number of loads.      *)
(***************************************************************************)
EXTENDS LinkedList, ShuffleProofs

(***************************************************************************)
(* Arithmetic.                                                             *)
(***************************************************************************)

LEMMA Monotone ==
  ASSUME NEW a \in Nat, NEW b \in Nat, NEW c \in Nat, a <= b
  PROVE  a * c <= b * c
  <1>1. PICK d \in Nat : b = a + d
    <2>1. b - a \in Nat /\ b = a + (b - a)
      OBVIOUS
    <2> QED BY <2>1
  <1>2. b * c = a * c + d * c /\ d * c \in Nat /\ a * c \in Nat
    BY <1>1
  <1> QED BY <1>2

LEMMA Cancel ==
  ASSUME NEW a \in Nat, NEW b \in Nat, NEW c \in Nat \ {0}
  PROVE  a * c = b * c <=> a = b
  <1>1. CASE a < b
    <2>1. (a + 1) * c <= b * c
      BY <1>1, Monotone
    <2>2. (a + 1) * c = a * c + c /\ a * c \in Nat
      OBVIOUS
    <2> QED BY <1>1, <2>1, <2>2
  <1>2. CASE b < a
    <2>1. (b + 1) * c <= a * c
      BY <1>2, Monotone
    <2>2. (b + 1) * c = b * c + c /\ b * c \in Nat
      OBVIOUS
    <2> QED BY <1>2, <2>1, <2>2
  <1> QED BY <1>1, <1>2

LEMMA Multiple ==
  ASSUME NEW a \in Nat, NEW c \in Nat \ {0}
  PROVE  (a * c) \div c = a
  <1> DEFINE q == (a * c) \div c
  <1>1. a * c \in Nat
    OBVIOUS
  <1>2. q \in Nat /\ q * c <= a * c /\ a * c < (q + 1) * c
    BY <1>1
  <1> HIDE DEF q
  <1>3. ~ a < q
    <2> SUFFICES ASSUME a + 1 <= q PROVE FALSE
      BY <1>2
    <2>1. (a + 1) * c <= q * c
      BY <1>2, Monotone
    <2>2. (a + 1) * c = a * c + c
      OBVIOUS
    <2>3. q * c \in Nat
      BY <1>2
    <2> QED BY <1>1, <1>2, <2>1, <2>2, <2>3
  <1>4. ~ q + 1 <= a
    <2> SUFFICES ASSUME q + 1 <= a PROVE FALSE
      OBVIOUS
    <2>1. (q + 1) * c <= a * c
      BY <1>2, Monotone
    <2>2. (q + 1) * c \in Nat
      BY <1>2
    <2> QED BY <1>1, <1>2, <2>1, <2>2
  <1> QED BY <1>2, <1>3, <1>4 DEF q

LEMMA Divides ==
  ASSUME NEW a \in Nat, NEW c \in Nat \ {0}, a % c = 0
  PROVE  a \div c \in Nat /\ (a \div c) * c = a
  <1> DEFINE q == a \div c
  <1>1. q \in Nat /\ a = c * q
    OBVIOUS
  <1> HIDE DEF q
  <1>2. q * c = a
    BY <1>1
  <1> QED BY <1>1, <1>2 DEF q

\* N is the number of iterations of a loop over the block.
LEMMA Count ==
  /\ N \in Nat \ {0} /\ Size \in Nat \ {0} /\ Stride \in Nat \ {0}
  /\ (N - 1) * Stride < Size /\ Size <= N * Stride
  <1>1. N \in Nat \ {0} /\ Size \in Nat \ {0} /\ Stride \in Nat \ {0}
    BY SizeAssumption, ListAssumption
  <1> DEFINE a == Size + Stride - 1
  <1>2. N = a \div Stride /\ a \in Nat
    BY <1>1, ListAssumption
  <1>3. N * Stride <= a /\ a < (N + 1) * Stride
    BY <1>1, <1>2
  <1>4. (N + 1) * Stride = N * Stride + Stride /\ (N - 1) * Stride = N * Stride - Stride
    BY <1>1
  <1>5. N * Stride \in Nat
    BY <1>1
  <1> QED BY <1>1, <1>3, <1>4, <1>5

\* The positions at which there is an iteration.
LEMMA Inside ==
  ASSUME NEW x \in Nat
  PROVE  x * Stride < Size <=> x < N
  <1>1. CASE x < N
    <2>1. x * Stride <= (N - 1) * Stride
      BY <1>1, Count, Monotone
    <2>2. x * Stride \in Nat /\ (N - 1) * Stride \in Nat
      BY Count
    <2> QED BY <1>1, <2>1, <2>2, Count
  <1>2. CASE N <= x
    <2>1. N * Stride <= x * Stride
      BY <1>2, Count, Monotone
    <2>2. x * Stride \in Nat /\ N * Stride \in Nat
      BY Count
    <2> QED BY <1>2, <2>1, <2>2, Count
  <1> QED BY <1>1, <1>2, Count

LEMMA Widths ==
  ASSUME ptr \in PtrSizes
  PROVE  /\ ptr \in Nat \ {0} /\ Width \in Nat /\ Width <= Stride
         /\ ptr > Stride => Width = 0 /\ ptr <= Size
         /\ ptr <= Stride => Width * ptr = Stride /\ Width # 0
  <1>1. ptr \in Nat \ {0} /\ Stride \in Nat \ {0}
    BY ListAssumption
  <1>2. Width \in Nat
    BY <1>1 DEF Width
  <1>3. CASE ptr > Stride
    <2>1. Width = 0 /\ ptr <= Size
      BY <1>1, <1>3, ListAssumption DEF Width
    <2> QED BY <1>1, <1>2, <1>3, <2>1
  <1>4. CASE ptr <= Stride
    <2>1. Stride % ptr = 0
      BY <1>1, <1>4, ListAssumption
    <2>2. Width * ptr = Stride
      BY <1>1, <2>1, Divides DEF Width
    <2>3. Width # 0
      BY <1>1, <2>2
    <2>4. Width <= Stride
      <3>1. 1 * Width <= ptr * Width
        BY <1>1, <1>2, Monotone
      <3>2. ptr * Width = Width * ptr /\ 1 * Width = Width
        BY <1>1, <1>2
      <3> QED BY <2>2, <3>1, <3>2
    <2> QED BY <1>1, <1>2, <1>4, <2>2, <2>3, <2>4
  <1> QED BY <1>1, <1>3, <1>4

\* The slot of the node x strides from the head.
LEMMA SlotOf ==
  ASSUME ptr \in PtrSizes, ptr <= Stride, NEW x \in Nat
  PROVE  /\ (x * Width) * ptr = x * Stride
         /\ (x * Stride) \div ptr = x * Width
  <1>1. /\ ptr \in Nat \ {0} /\ Width \in Nat /\ Width * ptr = Stride
    BY Widths
  <1>2. x * Width \in Nat /\ (x * Width) * ptr = x * (Width * ptr)
    BY <1>1
  <1>3. ((x * Width) * ptr) \div ptr = x * Width
    BY <1>1, <1>2, Multiple
  <1> QED BY <1>1, <1>2, <1>3

\* A node lies in the block, with room for its pointer.
LEMMA Room ==
  ASSUME ptr \in PtrSizes, NEW x \in Nat, x < N
  PROVE  (x * Width + 1) * ptr <= Size
  <1>1. ptr \in Nat \ {0} /\ Width \in Nat
    BY Widths
  <1>2. CASE ptr > Stride
    <2>1. Width = 0 /\ ptr <= Size
      BY <1>2, Widths
    <2>2. x * Width + 1 = 1
      BY <2>1
    <2> QED BY <1>1, <2>1, <2>2
  <1>3. CASE ptr <= Stride
    <2>1. Size % ptr = 0
      BY <1>1, <1>3, Count, ListAssumption
    <2>2. PICK m \in Nat : Size = m * ptr
      BY <1>1, <2>1, Count, Divides
    <2>3. (x * Width) * ptr < m * ptr
      BY <1>3, <2>2, SlotOf, Inside
    <2>4. x * Width \in Nat
      BY <1>1
    <2>5. x * Width < m
      <3> SUFFICES ASSUME m <= x * Width PROVE FALSE
        BY <2>2, <2>4
      <3>1. m * ptr <= (x * Width) * ptr
        BY <1>1, <2>2, <2>4, Monotone
      <3>2. m * ptr \in Nat /\ (x * Width) * ptr \in Nat
        BY <1>1, <2>2, <2>4
      <3> QED BY <2>3, <3>1, <3>2
    <2>6. (x * Width + 1) * ptr <= m * ptr
      BY <1>1, <2>2, <2>4, <2>5, Monotone
    <2> QED BY <2>2, <2>6
  <1> QED BY <1>1, <1>2, <1>3, Count

-----------------------------------------------------------------------------

(***************************************************************************)
(* The layout.                                                             *)
(***************************************************************************)

\* What an iteration of the loop sees after j of them.
LEMMA LoopState ==
  ASSUME IInv, builder \in BuilderNames, NEW j \in 0 .. Stores,
         pos = FirstPos + j * Stride
  PROVE  /\ Stores \in Nat /\ Stores <= N
         /\ InLoop <=> j < Stores
         /\ j < Stores => Pointer = Target(j)
         /\ j < Stores /\ Shuffles => Target(j) \in Nat
         /\ j < Stores /\ ~ Shuffles => Target(j) \in Nat
  <1>1. /\ N \in Nat \ {0} /\ Stride \in Nat \ {0} /\ Size \in Nat \ {0}
        /\ Stores \in Nat /\ Stores <= N /\ j \in Nat /\ j <= Stores
    BY Count DEF Stores
  <1>2. j * Stride \in Nat /\ (j + 1) * Stride = j * Stride + Stride
    BY <1>1
  <1>3. CASE builder = "allocateRandomArray"
    <2>1. pos = (j + 1) * Stride /\ ~ Shuffles /\ Stores = N - 1
      BY <1>1, <1>2, <1>3 DEF FirstPos, Shuffles, Stores
    <2>2. InLoop <=> j + 1 < N
      BY <1>1, <2>1, Inside DEF InLoop
    <2>3. Pointer = (j + 1) * Stride
      BY <1>3, <2>1 DEF Pointer
    <2> QED BY <1>1, <1>2, <2>1, <2>2, <2>3 DEF Target
  <1>4. CASE builder # "allocateRandomArray"
    <2>1. pos = j * Stride /\ Stores = N
      BY <1>1, <1>2, <1>4 DEF FirstPos, Stores
    <2>2. InLoop <=> j < N
      BY <1>1, <2>1, Inside DEF InLoop
    <2>3. CASE Shuffles
      <3>1. pos \div Stride = j
        BY <1>1, <2>1, Multiple
      <3>2. Pointer = arr[j] * Stride
        BY <2>3, <3>1 DEF Pointer, Shuffles
      <3>3. j < Stores => arr[j] \in Nat
        BY <1>1, <2>1 DEF IInv, TypeOK, Idx
      <3> QED BY <1>1, <2>1, <2>2, <2>3, <3>2, <3>3 DEF Target
    <2>4. CASE ~ Shuffles
      <3>1. builder = "init_stride"
        BY <1>4, <2>4 DEF BuilderNames, Shuffles
      <3>2. Pointer = (j + 1) * Stride
        BY <1>1, <1>2, <2>1, <3>1 DEF Pointer, Shuffles
      <3> QED BY <1>1, <1>2, <2>1, <2>2, <2>4, <3>2 DEF Target
    <2> QED BY <2>3, <2>4
  <1> QED BY <1>3, <1>4

\* All stores go to different slots, unless they all go to the first.
LEMMA Slots ==
  ASSUME ptr \in PtrSizes, NEW j \in 0 .. N
  PROVE  /\ j * Width \in 0 .. Behind
         /\ ptr <= Stride => \A m \in 0 .. j - 1 : m * Width # j * Width
         /\ ptr > Stride => j * Width = 0
  <1>1. /\ N \in Nat /\ Stride \in Nat /\ ptr \in Nat /\ j \in Nat /\ j <= N
        /\ Width \in Nat /\ Width <= Stride
    BY Count, Widths
  <1>2. j * Width <= N * Width /\ N * Width <= N * Stride
    <2>1. j * Width <= N * Width
      BY <1>1, Monotone
    <2>2. Width * N <= Stride * N
      BY <1>1, Monotone
    <2>3. Width * N = N * Width /\ Stride * N = N * Stride
      BY <1>1
    <2> QED BY <2>1, <2>2, <2>3
  <1>3. j * Width \in 0 .. Behind
    <2>1. j * Width \in Nat /\ N * Width \in Nat /\ N * Stride \in Nat
      BY <1>1
    <2> QED BY <1>2, <2>1 DEF Behind
  <1>4. ASSUME ptr <= Stride, NEW m \in 0 .. j - 1 PROVE m * Width # j * Width
    <2>1. Width \in Nat \ {0} /\ m \in Nat /\ m # j
      BY <1>1, <1>4, Widths
    <2> QED BY <1>1, <2>1, Cancel
  <1>5. ptr > Stride => j * Width = 0
    BY <1>1, Widths
  <1> QED BY <1>3, <1>4, <1>5

LEMMA InitLayout == InitList => ListInv
  <1> SUFFICES ASSUME InitList PROVE ListInv
    OBVIOUS
  <1> USE DEF InitList
  <1>1. IInv
    BY InitIInv
  <1>2. /\ builder \in BuilderNames /\ ptr \in PtrSizes
        /\ Behind \in Nat /\ Stride \in Nat /\ Width \in Nat /\ FirstPos \in Nat
        /\ Stores \in Nat
    BY Count, ListAssumption, Widths DEF Behind, FirstPos, Stores
  <1>3. mem \in [0 .. Behind -> Nat \cup {Unset}]
    BY <1>2
  <1>4. StoredInv(0)
    BY <1>2, <1>3 DEF StoredInv
  <1>5. pos = FirstPos + 0 * Stride /\ iter = 0 * Width /\ 0 \in 0 .. Stores
    BY <1>2
  <1>6. LayoutInv
    BY <1>2, <1>3, <1>4, <1>5 DEF LayoutInv
  <1>7. ChaseInv
    BY DEF ChaseInv
  <1> QED BY <1>1, <1>6, <1>7 DEF ListInv

\* The shuffle comes before the first store.
LEMMA ShuffleKeeps == ListInv /\ ShuffleArray => ListInv'
  <1> SUFFICES ASSUME ListInv, ShuffleArray PROVE ListInv'
    OBVIOUS
  <1> USE DEF ShuffleArray, listVars, fillVars, chaseVars
  <1>1. IInv'
    BY DrawStep, CloseStep DEF ListInv, ShuffleStep
  <1>2. spc = "loop"
    BY DEF ShuffleStep, Draw, CloseCycle
  <1>3. /\ UNCHANGED <<builder, ptr, mem, iter, pos, lpc, at, seen, loads>>
        /\ FirstPos' = FirstPos /\ Stores' = Stores /\ Width' = Width
        /\ Shuffles' = Shuffles
    BY DEF FirstPos, Stores, Width, Shuffles
  <1>4. PICK j \in 0 .. Stores :
          /\ pos = FirstPos + j * Stride /\ iter = j * Width
          /\ lpc # "fill" => j = Stores
          /\ Shuffles /\ j > 0 => spc = "done"
          /\ StoredInv(j)
    BY DEF ListInv, LayoutInv
  <1>5. j = 0 /\ lpc = "fill"
    <2>1. Stores = N /\ N \in Nat \ {0}
      BY Count DEF Stores, Shuffles
    <2> QED BY <1>2, <1>4, <2>1
  <1>6. StoredInv(0)'
    BY <1>3, <1>4, <1>5 DEF StoredInv
  <1>7. LayoutInv'
    BY <1>3, <1>4, <1>5, <1>6 DEF ListInv, LayoutInv
  <1>8. ChaseInv'
    BY <1>3, <1>5 DEF ListInv, ChaseInv
  <1> QED BY <1>1, <1>7, <1>8 DEF ListInv

LEMMA FillKeeps == ListInv /\ Fill => ListInv'
  <1> SUFFICES ASSUME ListInv, Fill PROVE ListInv'
    OBVIOUS
  <1> USE DEF Fill, chaseVars
  <1>1. IInv /\ UNCHANGED shuffleVars
    BY DEF ListInv
  <1>2. IInv'
    <2>1. UNCHANGED <<arr, candidates, curr, i, spc>>
      BY <1>1 DEF shuffleVars
    <2> HIDE DEF Fill
    <2> QED BY <1>1, <2>1 DEF IInv, TypeOK, PathInv, IsPath, CountInv
  <1>3. /\ UNCHANGED <<builder, ptr, arr, spc, lpc, at, seen, loads>>
        /\ FirstPos' = FirstPos /\ Stores' = Stores /\ Width' = Width
        /\ Shuffles' = Shuffles
    BY DEF FirstPos, Stores, Width, Shuffles, shuffleVars
  <1>4. \A m : Target(m)' = Target(m)
    BY <1>3 DEF Target
  <1>5. PICK j \in 0 .. Stores :
          /\ pos = FirstPos + j * Stride /\ iter = j * Width
          /\ Shuffles /\ j > 0 => spc = "done"
          /\ StoredInv(j)
    BY DEF ListInv, LayoutInv
  <1>6. /\ Stores \in Nat /\ Stores <= N /\ j < Stores
        /\ Pointer = Target(j) /\ Target(j) \in Nat
    BY <1>1, <1>5, LoopState DEF ListInv, LayoutInv
  <1>7. /\ ptr \in PtrSizes /\ ptr \in Nat /\ Stride \in Nat /\ Width \in Nat
        /\ FirstPos \in Nat /\ j \in Nat /\ j \in 0 .. N
    BY <1>6, Count, Widths DEF ListInv, LayoutInv, FirstPos
  <1>8. /\ iter \in 0 .. Behind
        /\ ptr <= Stride => \A m \in 0 .. j - 1 : m * Width # iter
    BY <1>5, <1>7, Slots
  <1>9. /\ mem \in [0 .. Behind -> Nat \cup {Unset}]
        /\ mem' = [mem EXCEPT ![iter] = Target(j)]
    BY <1>6 DEF ListInv, LayoutInv
  <1>10. /\ mem' \in [0 .. Behind -> Nat \cup {Unset}]
         /\ \A s \in 0 .. Behind : mem'[s] = IF s = iter THEN Target(j) ELSE mem[s]
    BY <1>6, <1>8, <1>9
  <1>11. pos' = FirstPos + (j + 1) * Stride /\ iter' = (j + 1) * Width
    <2>1. (j + 1) * Stride = j * Stride + Stride /\ (j + 1) * Width = j * Width + Width
      BY <1>7
    <2>2. j * Stride \in Nat /\ j * Width \in Nat
      BY <1>7
    <2> QED BY <1>5, <1>7, <2>1, <2>2 DEF NextSlot, Width
  <1>12. StoredInv(j + 1)'
    <2>1. ASSUME Stride >= ptr, NEW m \in 0 .. j
          PROVE  mem'[m * Width] = Target(m)
      <3>1. CASE m = j
        BY <1>5, <1>8, <1>10, <3>1
      <3>2. CASE m < j
        <4>1. m \in 0 .. j - 1 /\ m \in 0 .. N
          BY <1>7, <3>2, Count
        <4>2. m * Width \in 0 .. Behind /\ m * Width # iter
          BY <1>7, <1>8, <2>1, <4>1, Slots
        <4>3. mem[m * Width] = Target(m)
          BY <1>5, <2>1, <4>1 DEF StoredInv
        <4> QED BY <1>10, <4>2, <4>3
      <3> QED BY <1>7, <3>1, <3>2
    <2>2. ASSUME NEW s \in DOMAIN mem', mem'[s] # Unset
          PROVE  \E m \in 0 .. j : s = m * Width
      <3>1. s \in DOMAIN mem /\ s \in 0 .. Behind
        BY <1>9, <1>10
      <3>2. CASE s = iter
        BY <1>5, <1>7, <3>2
      <3>3. CASE s # iter
        <4>1. mem[s] # Unset
          BY <1>10, <2>2, <3>1, <3>3
        <4>2. PICK m \in 0 .. j - 1 : s = m * Width
          BY <1>5, <3>1, <3>3, <4>1 DEF StoredInv
        <4> QED BY <1>7, <4>2
      <3> QED BY <3>2, <3>3
    <2>3. j + 1 - 1 = j /\ lpc' = "fill"
      BY <1>3, <1>7
    <2> QED BY <1>3, <1>4, <2>1, <2>2, <2>3 DEF StoredInv
  <1>13. LayoutInv'
    <2>1. j + 1 \in 0 .. Stores
      BY <1>6, <1>7
    <2>2. Shuffles => spc = "done"
      OBVIOUS
    <2> QED BY <1>3, <1>10, <1>11, <1>12, <2>1, <2>2 DEF ListInv, LayoutInv
  <1>14. ChaseInv'
    BY <1>3 DEF ListInv, ChaseInv
  <1> QED BY <1>2, <1>13, <1>14 DEF ListInv

\* The closing store goes to the slot that the iterator has come to.
LEMMA CloseLayout == ListInv /\ CloseList => IInv' /\ LayoutInv'
  <1> SUFFICES ASSUME ListInv, CloseList PROVE IInv' /\ LayoutInv'
    OBVIOUS
  <1> USE DEF CloseList
  <1>1. IInv /\ UNCHANGED shuffleVars
    BY DEF ListInv
  <1>2. IInv'
    <2>1. UNCHANGED <<arr, candidates, curr, i, spc>>
      BY <1>1 DEF shuffleVars
    <2> HIDE DEF CloseList
    <2> QED BY <1>1, <2>1 DEF IInv, TypeOK, PathInv, IsPath, CountInv
  <1>3. /\ UNCHANGED <<builder, ptr, iter, pos, arr, spc>>
        /\ FirstPos' = FirstPos /\ Stores' = Stores /\ Width' = Width
        /\ Shuffles' = Shuffles
    BY DEF FirstPos, Stores, Width, Shuffles, shuffleVars
  <1>4. \A m : Target(m)' = Target(m)
    BY <1>3 DEF Target
  <1>5. PICK j \in 0 .. Stores :
          /\ pos = FirstPos + j * Stride /\ iter = j * Width
          /\ Shuffles /\ j > 0 => spc = "done"
          /\ StoredInv(j)
    BY DEF ListInv, LayoutInv
  <1>6. Stores \in Nat /\ Stores <= N /\ j = Stores
    BY <1>1, <1>5, LoopState DEF ListInv, LayoutInv
  <1>7. ptr \in PtrSizes /\ ptr \in Nat /\ Stride \in Nat /\ j \in 0 .. N /\ N \in Nat
    BY <1>6, Count, Widths DEF ListInv, LayoutInv
  <1>8. /\ iter \in 0 .. Behind
        /\ ptr <= Stride => \A m \in 0 .. j - 1 : m * Width # iter
    BY <1>5, <1>7, Slots
  <1>9. /\ mem' \in [0 .. Behind -> Nat \cup {Unset}]
        /\ \A s \in 0 .. Behind : mem'[s] = IF s = iter THEN 0 ELSE mem[s]
        /\ DOMAIN mem = 0 .. Behind
    BY <1>8 DEF ListInv, LayoutInv
  <1>10. StoredInv(j)'
    <2>1. ASSUME Stride >= ptr, NEW m \in 0 .. j - 1
          PROVE  mem'[m * Width] = Target(m)
      <3>1. m \in 0 .. N
        BY <1>7
      <3>2. m * Width \in 0 .. Behind /\ m * Width # iter
        BY <1>7, <1>8, <2>1, <3>1, Slots
      <3>3. mem[m * Width] = Target(m)
        BY <1>5, <2>1 DEF StoredInv
      <3> QED BY <1>9, <3>2, <3>3
    <2>2. ASSUME NEW s \in DOMAIN mem', mem'[s] # Unset
          PROVE  (\E m \in 0 .. j - 1 : s = m * Width) \/ s = iter
      <3>1. s \in 0 .. Behind
        BY <1>9
      <3>2. CASE s # iter
        <4>1. mem[s] # Unset
          BY <1>9, <2>2, <3>1, <3>2
        <4> QED BY <1>5, <1>9, <3>1, <3>2, <4>1 DEF StoredInv
      <3> QED BY <3>2
    <2>3. mem'[iter] = 0
      BY <1>8, <1>9
    <2> QED BY <1>3, <1>4, <2>1, <2>2, <2>3 DEF StoredInv
  <1>11. LayoutInv'
    BY <1>3, <1>5, <1>6, <1>9, <1>10 DEF ListInv, LayoutInv
  <1> QED BY <1>2, <1>11

-----------------------------------------------------------------------------

(***************************************************************************)
(* The walk along a closed list.                                           *)
(***************************************************************************)

\* Different nodes have different addresses.
LEMMA Apart == \A a, b \in Nat : a * Stride = b * Stride => a = b
  <1> TAKE a, b \in Nat
  <1> QED BY Count, Cancel

\* The order of the nodes on a list that is chased from the head.
LEMMA HeadWalk ==
  ASSUME ptr \in PtrSizes, ptr <= Stride, builder # "setup", Start = 0,
         NEW ord \in [Idx -> Idx], ord[0] = 0,
         \A k, l \in Idx : ord[k] = ord[l] => k = l,
         \A k \in Idx : \E l \in Idx : ord[l] = k,
         \A k \in Idx : mem[ord[k] * Width] = IF k = N - 1 THEN 0 ELSE ord[k + 1] * Stride
  PROVE  \E p \in [0 .. PlaceCount - 1 -> Places] : IsWalk(p)
  <1> DEFINE p == [k \in Idx |-> ord[k] * Stride]
  <1>1. /\ ptr \in Nat \ {0} /\ Stride \in Nat \ {0} /\ N \in Nat \ {0}
        /\ Stride >= ptr
    BY Count, Widths
  <1>2. PlaceCount = N /\ Places = Nodes /\ 0 .. PlaceCount - 1 = Idx
    BY <1>1 DEF PlaceCount, Places, Idx
  <1>3. \A k \in Idx : ord[k] \in Nat /\ ord[k] \in Idx
    <2>1. Idx \subseteq Nat
      BY DEF Idx
    <2> HIDE DEF p
    <2> QED BY <2>1
  <1>4. Nodes = {p[k] : k \in Idx}
    <2>1. ASSUME NEW a \in Nodes PROVE \E k \in Idx : a = p[k]
      <3>1. PICK m \in Idx : a = m * Stride
        BY DEF Nodes
      <3>2. PICK k \in Idx : ord[k] = m
        OBVIOUS
      <3> QED BY <3>1, <3>2
    <2>2. ASSUME NEW k \in Idx PROVE p[k] \in Nodes
      BY <1>3 DEF Nodes
    <2> QED BY <2>1, <2>2
  <1>5. \A k, l \in Idx : p[k] = p[l] => k = l
    <2> TAKE k, l \in Idx
    <2> HAVE p[k] = p[l]
    <2>1. ord[k] * Stride = ord[l] * Stride
      OBVIOUS
    <2>2. ord[k] = ord[l]
      <3> HIDE DEF p
      <3> QED BY <1>3, <2>1, Apart
    <2> QED BY <2>2
  <1>6. 0 \in Idx /\ p[0] = 0
    BY <1>1 DEF Idx
  <1>7. \A k \in Idx : mem[p[k] \div ptr] = p[Successor(k)]
    <2> TAKE k \in Idx
    <2>1. p[k] \div ptr = ord[k] * Width
      BY <1>1, <1>3, SlotOf
    <2>2. CASE k = N - 1
      <3>1. Successor(k) = 0
        BY <1>1, <1>2, <2>2 DEF Successor
      <3> QED BY <2>1, <2>2, <3>1, <1>6
    <2>3. CASE k # N - 1
      <3>1. Successor(k) = k + 1 /\ k + 1 \in Idx
        BY <1>1, <1>2, <2>3 DEF Successor, Idx
      <3> QED BY <2>1, <2>3, <3>1
    <2> QED BY <2>2, <2>3
  <1>8. p \in [0 .. PlaceCount - 1 -> Places]
    <2>1. \A k \in Idx : p[k] \in Nodes
      <3> HIDE DEF p
      <3> QED BY <1>4
    <2> QED BY <1>2, <2>1
  <1>9. IsWalk(p)
    <2> HIDE DEF p
    <2> QED BY <1>2, <1>4, <1>5, <1>6, <1>7 DEF IsWalk
  <1> QED BY <1>8, <1>9

\* The order of the nodes on a list that is chased from the slot behind them.
LEMMA BehindWalk ==
  ASSUME ptr \in PtrSizes, ptr <= Stride, Start = Behind, mem[N * Width] = 0,
         NEW ord \in [Idx -> Idx], ord[0] = 0,
         \A k, l \in Idx : ord[k] = ord[l] => k = l,
         \A k \in Idx : \E l \in Idx : ord[l] = k,
         \A k \in Idx : mem[ord[k] * Width] =
           IF k = N - 1 THEN IF builder = "setup" THEN 0 ELSE Behind
                        ELSE ord[k + 1] * Stride
  PROVE  \E p \in [0 .. PlaceCount - 1 -> Places] : IsWalk(p)
  <1> DEFINE p == [k \in 0 .. N |-> IF k = 0 THEN Behind ELSE ord[k - 1] * Stride]
  <1>1. /\ ptr \in Nat \ {0} /\ Stride \in Nat \ {0} /\ N \in Nat \ {0}
        /\ Stride >= ptr
    BY Count, Widths
  <1>2. Behind # 0 /\ Behind = N * Stride
    BY <1>1 DEF Behind
  <1>3. /\ PlaceCount = N + 1 /\ Places = Nodes \cup {Behind}
        /\ 0 .. PlaceCount - 1 = 0 .. N
    BY <1>1, <1>2 DEF PlaceCount, Places
  <1>4. \A k \in Idx : ord[k] \in Nat /\ ord[k] \in Idx /\ ord[k] # N
    <2>1. \A m \in Idx : m \in Nat /\ m # N
      BY <1>1 DEF Idx
    <2> HIDE DEF p
    <2> QED BY <2>1
  <1>5. \A k \in 1 .. N : k - 1 \in Idx /\ p[k] = ord[k - 1] * Stride
    BY <1>1 DEF Idx
  <1>6. p[0] = Behind /\ 0 \in 0 .. N
    BY <1>1
  <1>7. \A k \in 1 .. N : p[k] \in Nodes /\ p[k] # Behind
    <2> TAKE k \in 1 .. N
    <2>1. ord[k - 1] \in Idx /\ ord[k - 1] \in Nat /\ ord[k - 1] # N
      BY <1>4, <1>5
    <2>2. ord[k - 1] * Stride # N * Stride
      <3> HIDE DEF p
      <3> QED BY <1>1, <2>1, Apart
    <2> QED BY <1>2, <1>5, <2>1, <2>2 DEF Nodes
  <1>8. Nodes \cup {Behind} = {p[k] : k \in 0 .. N}
    <2>1. ASSUME NEW a \in Nodes PROVE \E k \in 0 .. N : a = p[k]
      <3>1. PICK m \in Idx : a = m * Stride
        BY DEF Nodes
      <3>2. PICK k \in Idx : ord[k] = m
        OBVIOUS
      <3>3. k + 1 \in 1 .. N /\ (k + 1) - 1 = k
        BY <1>1 DEF Idx
      <3>4. p[k + 1] = a
        BY <1>5, <3>1, <3>2, <3>3
      <3> QED BY <3>3, <3>4, <1>1
    <2>2. ASSUME NEW k \in 0 .. N PROVE p[k] \in Nodes \cup {Behind}
      <3>1. CASE k = 0
        BY <1>6, <3>1
      <3>2. CASE k # 0
        <4>1. k \in 1 .. N
          BY <1>1, <3>2
        <4> QED BY <1>7, <4>1
      <3> QED BY <3>1, <3>2
    <2> HIDE DEF p
    <2> QED BY <1>6, <2>1, <2>2
  <1>9. \A k, l \in 0 .. N : p[k] = p[l] => k = l
    <2> SUFFICES ASSUME NEW k \in 0 .. N, NEW l \in 0 .. N, p[k] = p[l] PROVE k = l
      OBVIOUS
    <2>1. CASE k = 0 \/ l = 0
      <3> HIDE DEF p
      <3>1. \A m \in 0 .. N : m = 0 \/ m \in 1 .. N
        BY <1>1
      <3> QED BY <1>6, <1>7, <2>1, <3>1
    <2>2. CASE k # 0 /\ l # 0
      <3>1. k \in 1 .. N /\ l \in 1 .. N
        BY <1>1, <2>2
      <3>2. ord[k - 1] * Stride = ord[l - 1] * Stride
        BY <1>5, <3>1
      <3>3. k - 1 \in Idx /\ l - 1 \in Idx
        BY <1>5, <3>1
      <3>4. ord[k - 1] = ord[l - 1]
        <4> HIDE DEF p
        <4> QED BY <1>4, <3>2, <3>3, Apart
      <3>5. k - 1 = l - 1
        BY <3>3, <3>4
      <3> QED BY <1>1, <3>1, <3>5
    <2> QED BY <2>1, <2>2
  <1>10. \A k \in 0 .. N : mem[p[k] \div ptr] = p[Successor(k)]
    <2> TAKE k \in 0 .. N
    <2>1. 1 \in 1 .. N /\ 1 - 1 = 0
      BY <1>1
    <2>2. p[1] = 0
      <3>1. p[1] = ord[0] * Stride
        BY <1>5, <2>1
      <3> QED BY <1>1, <3>1
    <2>3. CASE k = 0
      <3>1. Successor(k) = 1
        BY <1>1, <1>3, <2>3 DEF Successor
      <3>2. p[k] \div ptr = N * Width
        BY <1>1, <1>2, <1>6, <2>3, SlotOf
      <3> QED BY <2>2, <3>1, <3>2
    <2>4. CASE k # 0
      <3>0. k \in 1 .. N
        BY <1>1, <2>4
      <3>1. k \in 1 .. N /\ k - 1 \in Idx
        <4> HIDE DEF p
        <4> QED BY <1>5, <3>0
      <3>2. p[k] \div ptr = ord[k - 1] * Width
        BY <1>1, <1>4, <1>5, <3>1, SlotOf
      <3>3. CASE k = N
        <4>1. Successor(k) = IF builder = "setup" THEN 1 ELSE 0
          BY <1>1, <1>3, <3>3 DEF Successor
        <4>2. mem[p[k] \div ptr] = IF builder = "setup" THEN 0 ELSE Behind
          BY <3>1, <3>2, <3>3
        <4> HIDE DEF p
        <4> QED BY <1>6, <2>2, <4>1, <4>2
      <3>4. CASE k # N
        <4>1. Successor(k) = k + 1 /\ k + 1 \in 1 .. N
          BY <1>1, <1>3, <3>1, <3>4 DEF Successor
        <4>2. k - 1 # N - 1 /\ (k - 1) + 1 = k /\ (k + 1) - 1 = k
          BY <1>1, <3>1, <3>4
        <4>3. mem[p[k] \div ptr] = ord[k] * Stride
          <5>1. mem[ord[k - 1] * Width] = ord[(k - 1) + 1] * Stride
            BY <3>1, <4>2
          <5> QED BY <3>2, <4>2, <5>1
        <4>4. p[k + 1] = ord[k] * Stride
          BY <1>5, <4>1, <4>2
        <4> HIDE DEF p
        <4> QED BY <4>1, <4>3, <4>4
      <3> QED BY <3>3, <3>4
    <2> QED BY <2>3, <2>4
  <1>11. p \in [0 .. PlaceCount - 1 -> Places]
    BY <1>3, <1>8
  <1>12. IsWalk(p)
    <2> HIDE DEF p
    <2> QED BY <1>3, <1>6, <1>8, <1>9, <1>10 DEF IsWalk
  <1> QED BY <1>11, <1>12

\* Every closed list has a walk.
LEMMA WalkExists ==
  IInv /\ LayoutInv /\ lpc # "fill"
    => \E p \in [0 .. PlaceCount - 1 -> Places] : IsWalk(p)
  <1> SUFFICES ASSUME IInv, LayoutInv, lpc # "fill"
               PROVE  \E p \in [0 .. PlaceCount - 1 -> Places] : IsWalk(p)
    OBVIOUS
  <1>1. /\ builder \in BuilderNames /\ ptr \in PtrSizes
        /\ ptr > Stride => builder = "set_shuffled_linked_list"
        /\ iter = Stores * Width /\ mem[iter] = 0
        /\ Shuffles /\ Stores > 0 => spc = "done"
        /\ Stride >= ptr => \A m \in 0 .. Stores - 1 : mem[m * Width] = Target(m)
    BY DEF LayoutInv, StoredInv
  <1>2. /\ N \in Nat \ {0} /\ Stride \in Nat \ {0} /\ ptr \in Nat \ {0}
        /\ Width \in Nat /\ 0 \in Idx
    BY <1>1, Count, Widths DEF Idx
  <1>3. CASE ptr > Stride
    <2>1. /\ PlaceCount = 1 /\ Places = {0} /\ Start = 0
          /\ builder = "set_shuffled_linked_list"
      BY <1>1, <1>2, <1>3 DEF PlaceCount, Places, Start
    <2>2. Stores \in Nat /\ Width = 0
      BY <1>1, <1>2, <1>3, Widths DEF Stores
    <2>3. mem[0] = 0 /\ 0 \div ptr = 0
      BY <1>1, <1>2, <2>2
    <2>4. Successor(0) = 0
      BY <2>1 DEF Successor
    <2> DEFINE p == [k \in 0 .. 0 |-> 0]
    <2>5. IsWalk(p)
      <3>1. \A k \in 0 .. PlaceCount - 1 : k = 0
        BY <2>1
      <3>2. p[0] = 0 /\ PlaceCount - 1 = 0
        BY <2>1
      <3>3. {p[k] : k \in 0 .. PlaceCount - 1} = {0}
        BY <3>2
      <3> HIDE DEF p
      <3> QED BY <2>1, <2>3, <2>4, <3>1, <3>2, <3>3 DEF IsWalk
    <2>6. p \in [0 .. PlaceCount - 1 -> Places]
      BY <2>1
    <2> QED BY <2>5, <2>6
  <1>4. CASE ptr <= Stride /\ Shuffles
    <2>1. /\ Stores = N /\ builder \in {"setup", "set_shuffled_linked_list"}
          /\ spc = "done"
      BY <1>1, <1>2, <1>4 DEF Stores, Shuffles
    <2>2. SingleCycle
      BY CycleOf
    <2>3. PICK ord \in [Idx -> Idx] :
            /\ ord[0] = 0
            /\ \A k, l \in Idx : ord[k] = ord[l] => k = l
            /\ \A k \in Idx : \E l \in Idx : ord[l] = k
            /\ \A k \in Idx : arr[ord[k]] = IF k = N - 1 THEN 0 ELSE ord[k + 1]
      BY <2>1, <2>2 DEF SingleCycle, IsCycle
    <2>4. \A k \in Idx : mem[ord[k] * Width] = IF k = N - 1 THEN 0 ELSE ord[k + 1] * Stride
      <3> TAKE k \in Idx
      <3>1. ord[k] \in 0 .. Stores - 1
        BY <2>1 DEF Idx
      <3>2. mem[ord[k] * Width] = arr[ord[k]] * Stride
        BY <1>1, <1>2, <1>4, <3>1 DEF Target
      <3>3. 0 * Stride = 0
        BY <1>2
      <3> QED BY <2>3, <3>2, <3>3
    <2>5. CASE builder = "setup"
      <3>1. Start = Behind
        BY <1>1, <1>2, <1>4, <2>1, <2>5, SlotOf DEF Start, Behind
      <3>2. mem[N * Width] = 0
        BY <1>1, <2>1
      <3> QED BY <1>1, <1>4, <2>3, <2>4, <2>5, <3>1, <3>2, BehindWalk
    <2>6. CASE builder = "set_shuffled_linked_list"
      <3>1. Start = 0
        BY <2>6 DEF Start
      <3> QED BY <1>1, <1>4, <2>3, <2>4, <2>6, <3>1, HeadWalk
    <2> QED BY <2>1, <2>5, <2>6
  <1>5. CASE ptr <= Stride /\ ~ Shuffles
    <2> DEFINE ord == [k \in Idx |-> k]
    <2>1. /\ ord \in [Idx -> Idx] /\ ord[0] = 0
          /\ \A k, l \in Idx : ord[k] = ord[l] => k = l
          /\ \A k \in Idx : \E l \in Idx : ord[l] = k
      BY <1>2
    <2>2. \A k \in 0 .. Stores - 1 : mem[k * Width] = (k + 1) * Stride
      BY <1>1, <1>2, <1>5 DEF Target
    <2>3. CASE builder = "init_stride"
      <3>1. Stores = N /\ Start = Behind
        BY <1>1, <1>2, <1>5, <2>3, SlotOf DEF Stores, Start, Behind
      <3>2. mem[N * Width] = 0
        BY <1>1, <3>1
      <3>3. \A k \in Idx : mem[ord[k] * Width] =
              IF k = N - 1 THEN IF builder = "setup" THEN 0 ELSE Behind
                           ELSE ord[k + 1] * Stride
        <4> TAKE k \in Idx
        <4>1. ord[k] = k /\ k \in 0 .. Stores - 1
          BY <3>1 DEF Idx
        <4>2. mem[ord[k] * Width] = (k + 1) * Stride
          BY <2>2, <4>1
        <4>3. CASE k = N - 1
          BY <1>2, <2>3, <4>2, <4>3 DEF Behind
        <4>4. CASE k # N - 1
          <5>1. k + 1 \in Idx
            BY <1>2, <4>4 DEF Idx
          <5> QED BY <4>2, <4>4, <5>1
        <4> QED BY <4>3, <4>4
      <3> HIDE DEF ord
      <3> QED BY <1>1, <1>5, <2>1, <3>1, <3>2, <3>3, BehindWalk
    <2>4. CASE builder = "allocateRandomArray"
      <3>1. Stores = N - 1 /\ Start = 0
        BY <2>4 DEF Stores, Start
      <3>2. \A k \in Idx : mem[ord[k] * Width] = IF k = N - 1 THEN 0 ELSE ord[k + 1] * Stride
        <4> TAKE k \in Idx
        <4>1. CASE k = N - 1
          BY <1>1, <3>1, <4>1
        <4>2. CASE k # N - 1
          <5>1. k \in 0 .. Stores - 1 /\ k + 1 \in Idx
            BY <1>2, <3>1, <4>2 DEF Idx
          <5> QED BY <2>2, <4>2, <5>1
        <4> QED BY <4>1, <4>2
      <3> HIDE DEF ord
      <3> QED BY <1>1, <1>5, <2>1, <2>4, <3>1, <3>2, HeadWalk
    <2> QED BY <1>1, <1>5, <2>3, <2>4 DEF BuilderNames, Shuffles
  <1> QED BY <1>2, <1>3, <1>4, <1>5

-----------------------------------------------------------------------------

(***************************************************************************)
(* The chase.                                                              *)
(***************************************************************************)

LEMMA CountOfPlaces == builder \in BuilderNames => PlaceCount \in Nat \ {0}
  BY Count DEF PlaceCount

\* The chase begins at the first place of the walk.
LEMMA CloseKeeps == ListInv /\ CloseList => ListInv'
  <1> SUFFICES ASSUME ListInv, CloseList PROVE ListInv'
    OBVIOUS
  <1>1. IInv' /\ LayoutInv'
    BY CloseLayout
  <1>2. /\ lpc' = "chase" /\ loads' = 0 /\ seen' = {} /\ at' = Start'
    BY DEF CloseList, ListInv, ChaseInv, Start
  <1>3. (IInv /\ LayoutInv /\ lpc # "fill"
           => \E p \in [0 .. PlaceCount - 1 -> Places] : IsWalk(p))'
    BY WalkExists, PTL
  <1>4. PICK p \in [0 .. PlaceCount' - 1 -> Places'] : IsWalk(p)'
    BY <1>1, <1>2, <1>3
  <1>5. (builder \in BuilderNames => PlaceCount \in Nat \ {0})'
    BY CountOfPlaces, PTL
  <1>6. PlaceCount' \in Nat \ {0}
    BY <1>1, <1>5 DEF LayoutInv
  <1>7. 0 \in 0 .. PlaceCount' - 1 /\ at' = p[0]
    BY <1>2, <1>4, <1>6 DEF IsWalk
  <1>8. seen' = {p[l] : l \in 0 .. loads' - 1}
    BY <1>2
  <1>9. ChaseInv'
    <2>1. /\ loads' < PlaceCount' => 0 = loads'
          /\ ~ loads' >= PlaceCount'
          /\ loads' \in Nat /\ lpc' # "fill"
      BY <1>2, <1>6
    <2> QED BY <1>4, <1>7, <1>8, <2>1 DEF ChaseInv
  <1> QED BY <1>1, <1>9 DEF ListInv

\* A load leads to the next place.
LEMMA ChaseKeeps == ListInv /\ Chase => ListInv'
  <1> SUFFICES ASSUME ListInv, Chase PROVE ListInv'
    OBVIOUS
  <1> USE DEF Chase, fillVars
  <1>1. /\ UNCHANGED <<arr, candidates, curr, i, spc, builder, ptr, mem, iter, pos, lpc>>
        /\ FirstPos' = FirstPos /\ Stores' = Stores /\ Width' = Width
        /\ Shuffles' = Shuffles /\ Start' = Start
    BY DEF FirstPos, Stores, Width, Shuffles, shuffleVars, Start
  <1>2. PlaceCount' = PlaceCount /\ Places' = Places
    BY <1>1 DEF PlaceCount, Places
  <1>3. \A p : IsWalk(p)' <=> IsWalk(p)
    BY <1>1, <1>2 DEF IsWalk, Successor
  <1>4. IInv'
    <2> HIDE DEF Chase
    <2> QED BY <1>1 DEF ListInv, IInv, TypeOK, PathInv, IsPath, CountInv
  <1>5. LayoutInv'
    BY <1>1 DEF ListInv, LayoutInv, StoredInv, Target
  <1>6. lpc = "chase" /\ loads \in Nat /\ PlaceCount \in Nat \ {0}
    BY CountOfPlaces DEF ListInv, ChaseInv, LayoutInv
  <1>7. PICK p \in [0 .. PlaceCount - 1 -> Places], k \in 0 .. PlaceCount - 1 :
          /\ IsWalk(p)
          /\ at = p[k]
          /\ loads < PlaceCount => k = loads
          /\ loads >= PlaceCount /\ builder = "setup" => k > 0
          /\ loads <= PlaceCount => seen = {p[l] : l \in 0 .. loads - 1}
    BY <1>6 DEF ListInv, ChaseInv
  <1>8. /\ at' = p[Successor(k)] /\ loads' = loads + 1
        /\ seen' = seen \cup {p[k]}
    BY <1>7 DEF IsWalk
  <1>9. /\ Successor(k) \in 0 .. PlaceCount - 1
        /\ k < PlaceCount - 1 => Successor(k) = k + 1
        /\ builder = "setup" => Successor(k) > 0
    <2>1. builder = "setup" => PlaceCount > 1
      <3> SUFFICES ASSUME builder = "setup" PROVE PlaceCount > 1
        OBVIOUS
      <3>1. ptr \in PtrSizes /\ ~ ptr > Stride /\ Stores = N /\ iter = Stores * Width
        BY <1>6 DEF ListInv, LayoutInv, Stores
      <3>2. ptr \in Nat /\ Stride \in Nat \ {0} /\ N \in Nat \ {0} /\ ptr <= Stride
        BY <3>1, Widths, Count
      <3>3. Start = N * Stride
        BY <3>1, <3>2, SlotOf DEF Start
      <3>4. Start # 0
        BY <3>2, <3>3
      <3> QED BY <3>2, <3>4 DEF PlaceCount
    <2> QED BY <1>6, <2>1 DEF Successor
  <1>10. loads' <= PlaceCount => seen' = {p[l] : l \in 0 .. loads' - 1}
    <2> SUFFICES ASSUME loads + 1 <= PlaceCount
                 PROVE  seen' = {p[l] : l \in 0 .. loads' - 1}
      BY <1>8
    <2>1. k = loads /\ seen = {p[l] : l \in 0 .. loads - 1}
      BY <1>6, <1>7
    <2>2. 0 .. loads' - 1 = (0 .. loads - 1) \cup {loads}
      BY <1>6, <1>8
    <2> QED BY <1>8, <2>1, <2>2
  <1>11. loads' < PlaceCount => Successor(k) = loads'
    BY <1>6, <1>7, <1>8, <1>9
  <1>12. ChaseInv'
    <2>1. loads' \in Nat /\ lpc' # "fill"
      BY <1>1, <1>6, <1>8
    <2>2. IsWalk(p)'
      BY <1>3, <1>7
    <2>3. /\ p \in [0 .. PlaceCount' - 1 -> Places']
          /\ Successor(k) \in 0 .. PlaceCount' - 1
      BY <1>2, <1>9
    <2>4. /\ at' = p[Successor(k)]
          /\ loads' < PlaceCount' => Successor(k) = loads'
          /\ loads' >= PlaceCount' /\ builder' = "setup" => Successor(k) > 0
          /\ loads' <= PlaceCount' => seen' = {p[l] : l \in 0 .. loads' - 1}
      BY <1>1, <1>2, <1>8, <1>9, <1>10, <1>11
    <2> HIDE DEF Chase
    <2> QED BY <2>1, <2>2, <2>3, <2>4 DEF ChaseInv
  <1> QED BY <1>4, <1>5, <1>12 DEF ListInv

LEMMA EndChaseKeeps == ListInv /\ EndChase => ListInv'
  <1> SUFFICES ASSUME ListInv, EndChase PROVE ListInv'
    OBVIOUS
  <1> USE DEF EndChase, fillVars, chaseVars
  <1>1. /\ UNCHANGED <<arr, candidates, curr, i, spc, builder, ptr, mem, iter, pos, at,
                      seen, loads>>
        /\ lpc = "chase" /\ lpc' = "done"
        /\ FirstPos' = FirstPos /\ Stores' = Stores /\ Width' = Width
        /\ Shuffles' = Shuffles /\ Start' = Start
    BY DEF FirstPos, Stores, Width, Shuffles, shuffleVars, Start
  <1>2. PlaceCount' = PlaceCount /\ Places' = Places
    BY <1>1 DEF PlaceCount, Places
  <1>3. \A p : IsWalk(p)' <=> IsWalk(p)
    BY <1>1, <1>2 DEF IsWalk, Successor
  <1>4. IInv'
    BY <1>1 DEF ListInv, IInv, TypeOK, PathInv, IsPath, CountInv
  <1>5. LayoutInv'
    BY <1>1 DEF ListInv, LayoutInv, StoredInv, Target
  <1>6. ChaseInv'
    BY <1>1, <1>2, <1>3 DEF ListInv, ChaseInv
  <1> QED BY <1>4, <1>5, <1>6 DEF ListInv

LEMMA ListStutter == ListInv /\ UNCHANGED allVars => ListInv'
  <1> SUFFICES ASSUME ListInv, UNCHANGED allVars PROVE ListInv'
    OBVIOUS
  <1>1. /\ UNCHANGED <<arr, candidates, curr, i, spc, builder, ptr, mem, iter, pos, at,
                      seen, loads, lpc>>
        /\ FirstPos' = FirstPos /\ Stores' = Stores /\ Width' = Width
        /\ Shuffles' = Shuffles /\ Start' = Start
    BY DEF FirstPos, Stores, Width, Shuffles, shuffleVars, Start, allVars, listVars,
           fillVars, chaseVars
  <1>2. PlaceCount' = PlaceCount /\ Places' = Places
    BY <1>1 DEF PlaceCount, Places
  <1>3. \A p : IsWalk(p)' <=> IsWalk(p)
    BY <1>1, <1>2 DEF IsWalk, Successor
  <1>4. IInv'
    BY <1>1 DEF ListInv, IInv, TypeOK, PathInv, IsPath, CountInv
  <1>5. LayoutInv'
    <2>1. \A m : Target(m)' = Target(m)
      BY <1>1 DEF Target
    <2>2. \A m : StoredInv(m)' <=> StoredInv(m)
      BY <1>1, <2>1 DEF StoredInv
    <2> QED BY <1>1, <2>1, <2>2 DEF ListInv, LayoutInv
  <1>6. ChaseInv'
    BY <1>1, <1>2, <1>3 DEF ListInv, ChaseInv
  <1> QED BY <1>4, <1>5, <1>6 DEF ListInv

\* The inductive invariant of the four functions and of the chase.
THEOREM ListInvariance == SpecList => []ListInv
  <1>1. ListInv /\ [NextList]_allVars => ListInv'
    BY ShuffleKeeps, FillKeeps, CloseKeeps, ChaseKeeps, EndChaseKeeps, ListStutter
       DEF NextList, Chased
  <1> QED BY InitLayout, <1>1, PTL DEF SpecList

-----------------------------------------------------------------------------

(***************************************************************************)
(* The properties.                                                         *)
(***************************************************************************)

\* The first places of a walk are as many different ones.
LEMMA FirstPlaces ==
  ASSUME NEW M \in Nat, NEW p, NEW n \in Nat, n <= M,
         \A k, l \in 0 .. M - 1 : p[k] = p[l] => k = l
  PROVE  Cardinality({p[k] : k \in 0 .. n - 1}) = n
  <1> DEFINE D == 0 .. n - 1
             T == {p[k] : k \in D}
             f == [k \in D |-> p[k]]
  <1>1. IsFiniteSet(D) /\ Cardinality(D) = n
    <2>1. 0 \in Int /\ n - 1 \in Int
      OBVIOUS
    <2>2. IsFiniteSet(0 .. n - 1) /\ Cardinality(0 .. n - 1) =
            IF 0 > n - 1 THEN 0 ELSE (n - 1) - 0 + 1
      BY <2>1, FS_Interval
    <2> QED BY <2>2
  <1>2. \A k \in D : k \in 0 .. M - 1
    OBVIOUS
  <1>3. f \in Bijection(D, T)
    <2>1. f \in [D -> T]
      OBVIOUS
    <2>2. \A a, b \in D : f[a] = f[b] => a = b
      BY <1>2
    <2>3. \A t \in T : \E a \in D : f[a] = t
      OBVIOUS
    <2> QED BY <2>1, <2>2, <2>3 DEF Bijection, Injection, Surjection, IsInjective
  <1>4. ExistsBijection(D, T)
    BY <1>3 DEF ExistsBijection
  <1> HIDE DEF D, T
  <1>5. IsFiniteSet(T) /\ Cardinality(T) = Cardinality(D)
    BY <1>1, <1>4, FS_Bijection
  <1> QED BY <1>1, <1>5 DEF D, T

\* A chase visits every place of its list before it visits one again, on blocks and
\* with strides of all sizes, whatever the shuffle has drawn.
THEOREM ChaseVisitsAll == SpecList => []VisitsEveryNode
  <1>1. ASSUME ListInv PROVE VisitsEveryNode
    <2> SUFFICES ASSUME lpc # "fill"
                 PROVE  /\ at \in Places
                        /\ loads <= Cardinality(Places) => Cardinality(seen) = loads
      BY DEF VisitsEveryNode
    <2>1. PlaceCount \in Nat \ {0} /\ loads \in Nat
      BY <1>1, CountOfPlaces DEF ListInv, ChaseInv, LayoutInv
    <2>2. PICK p \in [0 .. PlaceCount - 1 -> Places], k \in 0 .. PlaceCount - 1 :
            /\ IsWalk(p)
            /\ at = p[k]
            /\ loads <= PlaceCount => seen = {p[l] : l \in 0 .. loads - 1}
      BY <1>1 DEF ListInv, ChaseInv
    <2>3. /\ \A l, m \in 0 .. PlaceCount - 1 : p[l] = p[m] => l = m
          /\ Places = {p[l] : l \in 0 .. PlaceCount - 1}
      BY <2>2 DEF IsWalk
    <2>4. \A n \in Nat : n <= PlaceCount => Cardinality({p[l] : l \in 0 .. n - 1}) = n
      <3> TAKE n \in Nat
      <3> HAVE n <= PlaceCount
      <3>1. PlaceCount \in Nat
        BY <2>1
      <3>2. \A l, m \in 0 .. PlaceCount - 1 : p[l] = p[m] => l = m
        BY <2>3
      <3> QED BY <3>1, <3>2, FirstPlaces
    <2>5. Cardinality(Places) = PlaceCount
      <3>1. Cardinality({p[l] : l \in 0 .. PlaceCount - 1}) = PlaceCount
        BY <2>1, <2>4
      <3> QED BY <2>3, <3>1
    <2>6. loads <= PlaceCount => Cardinality(seen) = loads
      BY <2>1, <2>2, <2>4
    <2> QED BY <2>2, <2>5, <2>6
  <1> QED BY <1>1, ListInvariance, PTL

\* The loads a benchmark makes after setup begin behind the data and leave out the
\* node that points to the head.
THEOREM SetupStartsBehind == SpecList => []StartsBehind
  <1>1. ASSUME ListInv PROVE StartsBehind
    <2> SUFFICES ASSUME builder = "setup", lpc # "fill"
                 PROVE  /\ loads = 0 <=> at = Behind
                        /\ loads = N =>
                             seen = {Behind} \cup {a \in Nodes : mem[a \div ptr] # 0}
      BY DEF StartsBehind
    <2>1. /\ ptr \in PtrSizes /\ ~ ptr > Stride /\ Stores = N /\ iter = Stores * Width
      BY <1>1 DEF ListInv, LayoutInv, Stores
    <2>2. /\ ptr \in Nat /\ Stride \in Nat \ {0} /\ N \in Nat \ {0} /\ ptr <= Stride
          /\ loads \in Nat
      BY <1>1, <2>1, Widths, Count DEF ListInv, ChaseInv
    <2>3. Start = Behind
      BY <2>1, <2>2, SlotOf DEF Start, Behind
    <2>4. Behind # 0
      BY <2>2 DEF Behind
    <2>5. PlaceCount = N + 1 /\ Places = Nodes \cup {Behind}
      BY <2>2, <2>3, <2>4 DEF PlaceCount, Places
    <2>6. PICK p \in [0 .. N -> Places], k \in 0 .. N :
            /\ IsWalk(p)
            /\ at = p[k]
            /\ loads < N + 1 => k = loads
            /\ loads >= N + 1 => k > 0
            /\ loads <= N + 1 => seen = {p[l] : l \in 0 .. loads - 1}
      <3>1. PlaceCount - 1 = N
        BY <2>2, <2>5
      <3> QED BY <1>1, <2>5, <3>1 DEF ListInv, ChaseInv
    <2>7. /\ p[0] = Behind
          /\ \A l, m \in 0 .. N : p[l] = p[m] => l = m
          /\ Nodes \cup {Behind} = {p[l] : l \in 0 .. N}
          /\ \A l \in 0 .. N : mem[p[l] \div ptr] = p[IF l < N THEN l + 1 ELSE 1]
      <3>1. PlaceCount - 1 = N /\ PlaceCount = N + 1
        BY <2>2, <2>5
      <3>2. \A l \in 0 .. N : Successor(l) = IF l < N THEN l + 1 ELSE 1
        BY <2>2, <2>3, <3>1 DEF Successor
      <3> QED BY <2>3, <2>5, <2>6, <3>1, <3>2 DEF IsWalk
    <2>8. loads = 0 <=> at = Behind
      <3>1. k = 0 <=> loads = 0
        BY <2>2, <2>6
      <3>2. 0 \in 0 .. N /\ (at = p[0] <=> k = 0)
        BY <2>2, <2>6, <2>7
      <3> QED BY <2>7, <3>1, <3>2
    <2>9. 0 \in Nodes
      BY <2>2 DEF Nodes, Idx
    <2>10. Behind \notin Nodes
      <3>1. \A x \in Idx : x \in Nat /\ x # N
        BY <2>2 DEF Idx
      <3> QED BY <2>2, <3>1, Apart DEF Nodes, Behind
    <2>11. p[1] = 0
      \* The slot behind the nodes was set to the head when the list was closed.
      <3>1. mem[iter] = 0
        BY <1>1 DEF ListInv, LayoutInv, StoredInv
      <3>2. Behind \div ptr = iter
        BY <2>1, <2>2, SlotOf DEF Behind
      <3>3. 0 \in 0 .. N /\ 0 < N
        BY <2>2
      <3> QED BY <2>7, <3>1, <3>2, <3>3
    <2>12. \A l \in 1 .. N : p[l] \in Nodes /\ (mem[p[l] \div ptr] # 0 <=> l < N)
      <3> TAKE l \in 1 .. N
      <3>1. l \in 0 .. N /\ l # 0 /\ 0 \in 0 .. N /\ 1 \in 0 .. N
        BY <2>2
      <3>2. p[l] \in Nodes
        BY <2>7, <3>1
      <3>3. CASE l < N
        <4>1. l + 1 \in 0 .. N /\ l + 1 # 1
          BY <2>2, <3>1, <3>3
        <4>2. mem[p[l] \div ptr] = p[l + 1]
          BY <2>7, <3>1, <3>3
        <4> QED BY <2>7, <2>11, <3>1, <3>2, <3>3, <4>1, <4>2
      <3>4. CASE l = N
        BY <2>2, <2>7, <2>11, <3>1, <3>2, <3>4
      <3> QED BY <2>2, <3>3, <3>4
    <2>13. ASSUME loads = N
           PROVE  seen = {Behind} \cup {a \in Nodes : mem[a \div ptr] # 0}
      <3>1. seen = {p[l] : l \in 0 .. N - 1}
        BY <2>2, <2>6, <2>13
      <3>2. ASSUME NEW a \in seen PROVE a = Behind \/ (a \in Nodes /\ mem[a \div ptr] # 0)
        <4>1. PICK l \in 0 .. N - 1 : a = p[l]
          BY <3>1
        <4>2. CASE l = 0
          BY <2>7, <4>1, <4>2
        <4>3. CASE l # 0
          <5>1. l \in 1 .. N /\ l < N
            BY <2>2, <4>3
          <5> QED BY <2>12, <4>1, <5>1
        <4> QED BY <4>2, <4>3
      <3>3. Behind \in seen
        <4>1. 0 \in 0 .. N - 1
          BY <2>2
        <4> QED BY <2>7, <3>1, <4>1
      <3>4. ASSUME NEW a \in Nodes, mem[a \div ptr] # 0 PROVE a \in seen
        <4>1. PICK l \in 0 .. N : a = p[l]
          BY <2>7
        <4>2. l # 0
          BY <2>7, <2>10, <4>1
        <4>3. l \in 1 .. N
          BY <2>2, <4>2
        <4>4. l < N
          BY <2>12, <3>4, <4>1, <4>3
        <4>5. l \in 0 .. N - 1
          BY <2>2, <4>4
        <4> QED BY <3>1, <4>1, <4>5
      <3> QED BY <3>2, <3>3, <3>4
    <2> QED BY <2>8, <2>13
  <1> QED BY <1>1, ListInvariance, PTL

\* Only the store that closes a list may leave the block, in the functions that have
\* moved their iterator behind the last node by then.
THEOREM StoresStayInside == SpecList => []OnlyCloseOverruns
  <1>1. ASSUME ListInv PROVE OnlyCloseOverruns
    <2> SUFFICES ASSUME NEW s \in DOMAIN mem, mem[s] # Unset, (s + 1) * ptr > Size
                 PROVE  /\ builder # "allocateRandomArray"
                        /\ lpc # "fill" /\ s = iter /\ s * ptr = Behind /\ mem[s] = 0
      BY DEF OnlyCloseOverruns
    <2>1. PICK j \in 0 .. Stores :
            /\ iter = j * Width
            /\ lpc # "fill" => j = Stores
            /\ StoredInv(j)
      BY <1>1 DEF ListInv, LayoutInv
    <2>2. /\ ptr \in PtrSizes /\ ptr \in Nat /\ Size \in Nat /\ N \in Nat \ {0}
          /\ Stride \in Nat /\ Stores <= N /\ Stores \in Nat
      BY <1>1, Widths, Count DEF ListInv, LayoutInv, Stores
    <2>3. ASSUME NEW m \in Nat, m < N PROVE s # m * Width
      <3>1. (m * Width + 1) * ptr <= Size
        BY <2>2, <2>3, Room
      <3>2. m * Width \in Nat
        BY <2>2, Widths
      <3> QED BY <2>2, <3>1, <3>2
    <2>4. lpc # "fill" /\ s = iter
      <3>1. ~ \E m \in 0 .. j - 1 : s = m * Width
        BY <2>2, <2>3
      <3> QED BY <2>1, <3>1 DEF StoredInv
    <2>5. mem[s] = 0 /\ j = Stores /\ s = Stores * Width
      BY <2>1, <2>4 DEF StoredInv
    <2>6. Stores = N
      BY <2>2, <2>3, <2>5 DEF Stores
    <2>7. builder # "allocateRandomArray"
      BY <2>2, <2>6 DEF Stores
    <2>8. ptr <= Stride
      <3> SUFFICES ASSUME ptr > Stride PROVE FALSE
        BY <2>2
      <3>1. Width = 0
        BY <2>2, Widths
      <3>2. s = 0 * Width
        BY <2>2, <2>5, <3>1
      <3> QED BY <2>2, <2>3, <3>2
    <2>9. s * ptr = Behind
      BY <2>2, <2>5, <2>6, <2>8, SlotOf DEF Behind
    <2> QED BY <2>4, <2>5, <2>7, <2>9
  <1> QED BY <1>1, ListInvariance, PTL

=============================================================================
