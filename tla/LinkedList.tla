----------------------------- MODULE LinkedList -----------------------------
(***************************************************************************)
(* The linked lists that the benchmarks chase: how they are laid out in    *)
(* memory and what a chase then visits.  Four functions build them:        *)
(*   setup                     benchmark_helpers.h, and pr_co_setup        *)
(*   set_shuffled_linked_list  shuffle.h                                   *)
(*   init_stride               cacheline.cpp, without a shuffle            *)
(*   allocateRandomArray       standalone/rd_latency.c, and init_stride of *)
(*                             rd_latency.cpp, without a shuffle           *)
(*                                                                         *)
(* Addresses are byte offsets in the block.  The iterator moves by         *)
(* stride / sizeof(pointer) pointers, so all stores go to multiples of the *)
(* pointer size: memory is a function on pointer slots.                    *)
(***************************************************************************)
EXTENDS Shuffle

CONSTANTS
  Size, Stride,  \* arguments of the four functions, in bytes
  PtrSizes,      \* what to try for sizeof(char*): the scale of the strides
  Builders,      \* the functions to try, of BuilderNames
  Iterations     \* bound: accesses, or NUM_ACCESSES, of the timing loops

BuilderNames ==
  {"setup", "set_shuffled_linked_list", "init_stride", "allocateRandomArray"}

\* Sizes and strides of all programs are powers of two, and a size is that of eight
\* pointers at least: nodes are aligned, and the block has room for a pointer.
ASSUME ListAssumption ==
  /\ Size \in Nat \ {0} /\ Stride \in Nat \ {0} /\ PtrSizes \subseteq Nat \ {0}
  /\ N = (Size + Stride - 1) \div Stride
  /\ Builders \subseteq BuilderNames
  /\ Iterations \in Nat
  /\ \A p \in PtrSizes :
       IF p > Stride THEN p <= Size ELSE Size % p = 0 /\ Stride % p = 0

VARIABLES
  builder,  \* the function that runs
  ptr,      \* sizeof(char*)
  mem,      \* the pointer in each slot of the block, and behind it
  iter,     \* the slot of the iterator
  pos,      \* the loop counter, in bytes
  lpc,      \* control state: "fill", "chase", "done"
  at,       \* the address the chase has come to
  seen,     \* history: the addresses it has loaded from
  loads     \* how many loads it has made

fillVars == <<mem, iter, pos>>
chaseVars == <<at, seen, loads>>
listVars == <<builder, ptr, fillVars, lpc, chaseVars>>
allVars == <<shuffleVars, listVars>>

Unset == -1  \* the content of memory nothing was stored to

\* The addresses of the nodes, and of the slot behind the last of them.
Nodes == {k * Stride : k \in Idx}
Behind == N * Stride

\* for( i = stride; i < size; i += stride ): one iteration less than the others
FirstPos == IF builder = "allocateRandomArray" THEN Stride ELSE 0

\* Only b_latency.cpp, with size / 1024, has strides below the pointer size.
InitList ==
  /\ Init
  /\ builder \in Builders /\ ptr \in PtrSizes
  /\ ptr > Stride => builder = "set_shuffled_linked_list"
  /\ mem = [s \in 0 .. Behind |-> Unset]
  /\ iter = 0 /\ pos = FirstPos
  /\ lpc = "fill"
  /\ at = 0 /\ seen = {} /\ loads = 0

Shuffles == builder \in {"setup", "set_shuffled_linked_list"}

\* shuffle_array, which two of the functions call first.
ShuffleArray ==
  /\ Shuffles
  /\ ShuffleStep
  /\ UNCHANGED listVars

\* The pointer stored in an iteration.
Pointer ==
  CASE Shuffles                        -> arr[pos \div Stride] * Stride
    [] builder = "init_stride"         -> pos + Stride
    [] builder = "allocateRandomArray" -> pos

\* Mistake: the iterator moves by one pointer, whatever the stride.
NextPointer(s) == s + 1

\* iter += stride / sizeof(iter)
NextSlot(s) == s + Stride \div ptr

\* Mistake: the loop stops one iteration late.
UpToSize == pos <= Size

\* i < size
InLoop == pos < Size

\* One iteration of the loop over the block.
Fill ==
  /\ lpc = "fill" /\ InLoop
  /\ Shuffles => spc = "done"
  /\ mem' = [mem EXCEPT ![iter] = Pointer]
  /\ iter' = NextSlot(iter)
  /\ pos' = pos + Stride
  /\ UNCHANGED <<shuffleVars, builder, ptr, lpc, chaseVars>>

\* Mistake: setup starts its chases at the head, as most functions do.
HeadForSetup == IF builder = "init_stride" THEN iter * ptr ELSE 0

\* Where a chase starts: init_stride returns its iterator and setup leaves it in
\* a global, where the benchmarks find it; the other two hand out the block.
Start == IF builder \in {"init_stride", "setup"} THEN iter * ptr ELSE 0

\* The last store, which goes to the slot after the last increment.
CloseList ==
  /\ lpc = "fill" /\ ~InLoop
  /\ mem' = [mem EXCEPT ![iter] = 0]
  /\ lpc' = "chase"
  /\ at' = Start
  /\ UNCHANGED <<shuffleVars, builder, ptr, iter, pos, seen, loads>>

\* The unrolled loads of rd_latency.c: ONE ONE ONE, and so on.
FIVE == 1 + 1 + 1
TWOFIVE == FIVE + FIVE + FIVE + FIVE + FIVE
HUNDO == TWOFIVE + TWOFIVE + TWOFIVE + TWOFIVE

\* HUNDRED of the other programs: two FIFTYs of five TENs of two FIVEs.
HUNDRED == 2 * 5 * 2 * 5

LoadsPerIteration == IF builder = "allocateRandomArray" THEN HUNDO ELSE HUNDRED

\* iter = (char**)*iter
Chase ==
  /\ lpc = "chase" /\ loads < Iterations * LoadsPerIteration /\ at # Unset
  /\ at' = mem[at \div ptr]
  /\ seen' = seen \cup {at}
  /\ loads' = loads + 1
  /\ UNCHANGED <<shuffleVars, builder, ptr, fillVars, lpc>>

\* The timing loop is over.
EndChase ==
  /\ lpc = "chase" /\ loads = Iterations * LoadsPerIteration
  /\ lpc' = "done"
  /\ UNCHANGED <<shuffleVars, builder, ptr, fillVars, chaseVars>>

Chased == lpc = "done" /\ UNCHANGED allVars

NextList == ShuffleArray \/ Fill \/ CloseList \/ Chase \/ EndChase \/ Chased

SpecList == InitList /\ [][NextList]_allVars

-----------------------------------------------------------------------------

\* The places a chase is to visit once each before it comes back to one.  With a
\* stride below the pointer size all pointers went to the first slot.
Places ==
  CASE Stride < ptr                           -> {0}
    [] Stride >= ptr /\ Start = 0             -> Nodes
    [] Stride >= ptr /\ Start # 0             -> Nodes \cup {Behind}

\* A chase visits every place of its list before it visits one again: it covers
\* the whole working set, whatever order the shuffle has drawn.
VisitsEveryNode ==
  lpc # "fill" =>
    /\ at \in Places
    /\ loads <= Cardinality(Places) => Cardinality(seen) = loads

\* The size / stride loads that a benchmark makes after setup begin behind the
\* data, where no later lap comes back to, and leave out the node that points to
\* the head; this is the order of accesses that RunTest takes for granted.
StartsBehind ==
  builder = "setup" /\ lpc # "fill" =>
    /\ loads = 0 <=> at = Behind
    /\ loads = N => seen = {Behind} \cup {a \in Nodes : mem[a \div ptr] # 0}

\* Of all stores, one may leave the block, and by one pointer only: the one that
\* closes the list, in the functions that have moved their iterator behind the
\* last node by then.  The loop never runs over, and allocateRandomArray, which
\* closes the list in its last node, stays inside altogether.
OnlyCloseOverruns ==
  \A s \in DOMAIN mem : mem[s] # Unset /\ (s + 1) * ptr > Size =>
    /\ builder # "allocateRandomArray"
    /\ lpc # "fill" /\ s = iter /\ s * ptr = Behind /\ mem[s] = 0

\* The programs divide the time of their loop by 100 loads for each iteration:
\* "macro subsitute 100 accesses", rd_latency.c.
HundredLoads == lpc = "done" => loads = 100 * Iterations

-----------------------------------------------------------------------------
(* Why it works.  After j stores the iterator is j strides from the head, and   *)
(* the slots it has left hold what the list is to look like.  When it is closed *)
(* the list is a path through all places that leads back to its beginning or,   *)
(* with setup, to the second place: a chase goes along the path once, and then  *)
(* has seen everything.                                                         *)

\* How many stores are made before the one that closes the list.
Stores == IF builder = "allocateRandomArray" THEN N - 1 ELSE N

\* How many slots apart the stores are.
Width == Stride \div ptr

\* What the m-th store puts into its slot.
Target(m) == IF Shuffles THEN arr[m] * Stride ELSE (m + 1) * Stride

StoredInv(j) ==
  /\ Stride >= ptr => \A m \in 0 .. j - 1 : mem[m * Width] = Target(m)
  /\ \A s \in DOMAIN mem : mem[s] # Unset =>
       \/ \E m \in 0 .. j - 1 : s = m * Width
       \/ lpc # "fill" /\ s = iter
  /\ lpc # "fill" => mem[iter] = 0

LayoutInv ==
  /\ builder \in BuilderNames /\ ptr \in PtrSizes
  /\ ptr > Stride => builder = "set_shuffled_linked_list"
  /\ lpc \in {"fill", "chase", "done"}
  /\ mem \in [0 .. Behind -> Nat \cup {Unset}]
  /\ \E j \in 0 .. Stores :
       /\ pos = FirstPos + j * Stride /\ iter = j * Width
       /\ lpc # "fill" => j = Stores
       /\ Shuffles /\ j > 0 => spc = "done"
       /\ StoredInv(j)

PlaceCount == IF Stride < ptr THEN 1 ELSE IF Start = 0 THEN N ELSE N + 1

\* The k-th place on the path is followed by this one.
Successor(k) ==
  IF k < PlaceCount - 1 THEN k + 1 ELSE IF builder = "setup" THEN 1 ELSE 0

\* p leads from the start of a chase through all places, each of them once, and back.
IsWalk(p) ==
  /\ p[0] = Start
  /\ \A k, l \in 0 .. PlaceCount - 1 : p[k] = p[l] => k = l
  /\ Places = {p[k] : k \in 0 .. PlaceCount - 1}
  /\ \A k \in 0 .. PlaceCount - 1 : mem[p[k] \div ptr] = p[Successor(k)]

ChaseInv ==
  /\ loads \in Nat
  /\ lpc = "fill" => loads = 0 /\ seen = {}
  /\ lpc # "fill" =>
       \E p \in [0 .. PlaceCount - 1 -> Places], k \in 0 .. PlaceCount - 1 :
         /\ IsWalk(p)
         /\ at = p[k]
         /\ loads < PlaceCount => k = loads
         /\ loads >= PlaceCount /\ builder = "setup" => k > 0
         /\ loads <= PlaceCount => seen = {p[l] : l \in 0 .. loads - 1}

ListInv == IInv /\ LayoutInv /\ ChaseInv

=============================================================================
