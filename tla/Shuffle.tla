------------------------------ MODULE Shuffle ------------------------------
(***************************************************************************)
(* shuffle_array of src/library/include/shuffle.h.  It permutes a vector   *)
(* so that the element at each index tells which index comes next, and so  *)
(* builds a random linked list: the vector holds the addresses of nodes    *)
(* 0 .. N-1, in order, and element k afterwards is what node k points to.  *)
(* An element is named by the index it had at the beginning, so `copied'   *)
(* is the identity and needs no variable.                                  *)
(***************************************************************************)
EXTENDS Integers, FiniteSets

CONSTANT N  \* arr.size()

ASSUME SizeAssumption == N \in Nat \ {0}

VARIABLES
  arr,         \* the vector
  candidates,  \* the indices that have not been chosen yet
  curr,        \* the index that is filled next
  i,           \* the loop counter
  spc          \* control state: "loop", "done"

shuffleVars == <<arr, candidates, curr, i, spc>>

Idx == 0 .. N - 1

\* Mistake: the candidates start one index too late.
LaterCandidates == Idx \ {0, 1}

\* All indices but 0.
FirstCandidates == Idx \ {0}

\* The loop is about to start.
Init ==
  /\ arr = [k \in Idx |-> k]
  /\ candidates = FirstCandidates
  /\ curr = 0
  /\ i = 1
  /\ spc = "loop"

\* Mistake: the chosen index stays a candidate.
Kept(next) == candidates

\* candidates.erase(std::remove(...))
Erased(next) == candidates \ {next}

\* One iteration: a candidate drawn at random becomes the next of curr.
Draw ==
  /\ spc = "loop" /\ i < N
  /\ \E next \in candidates :
       /\ arr' = [arr EXCEPT ![curr] = next]
       /\ candidates' = Erased(next)
       /\ curr' = next
  /\ i' = i + 1
  /\ UNCHANGED spc

\* Mistake: the list is closed at the element drawn first.
LastToFirst == [arr EXCEPT ![curr] = arr[0]]

\* arr[curr] = copied[0]
LastToHead == [arr EXCEPT ![curr] = 0]

\* The loop is over: the last node points to the head.
CloseCycle ==
  /\ spc = "loop" /\ i = N
  /\ arr' = LastToHead
  /\ spc' = "done"
  /\ UNCHANGED <<candidates, curr, i>>

ShuffleStep == Draw \/ CloseCycle

Shuffled == spc = "done" /\ UNCHANGED shuffleVars

Next == ShuffleStep \/ Shuffled

Spec == Init /\ [][Next]_shuffleVars

-----------------------------------------------------------------------------

\* The variables have their types.
TypeOK ==
  /\ arr \in [Idx -> Idx]
  /\ candidates \subseteq Idx \ {0}
  /\ curr \in Idx
  /\ i \in 1 .. N
  /\ spc \in {"loop", "done"}

\* f leads from 0 through every index once and back to 0.
IsCycle(f) ==
  \E ord \in [Idx -> Idx] :
    /\ ord[0] = 0
    /\ \A k, l \in Idx : ord[k] = ord[l] => k = l
    /\ \A k \in Idx : \E l \in Idx : ord[l] = k
    /\ \A k \in Idx : f[ord[k]] = IF k = N - 1 THEN 0 ELSE ord[k + 1]

\* Whatever is drawn, the result is one cycle through all nodes: no node is left
\* out and no shorter cycle is closed, so that chasing the pointers visits the
\* whole working set.
SingleCycle == spc = "done" => IsCycle(arr)

\* There is a candidate to draw in every iteration: the bounds 0 and size - 1 of
\* the distribution are never those of an empty vector.
CandidateLeft == spc = "loop" /\ i < N => candidates # {}

-----------------------------------------------------------------------------

\* The first n nodes of the list, in order: different nodes from 0 to curr.
IsPath(ord, n) ==
  /\ ord[0] = 0 /\ ord[n - 1] = curr
  /\ \A k, l \in 0 .. n - 1 : ord[k] = ord[l] => k = l
  /\ \A k \in 0 .. n - 2 : arr[ord[k]] = ord[k + 1]
  /\ candidates = Idx \ {ord[k] : k \in 0 .. n - 1}

\* Why it works: after n = i choices the vector holds a path of i nodes, and the
\* candidates are the nodes that are not on it.
PathInv ==
  /\ \E ord \in [0 .. i - 1 -> Idx] : IsPath(ord, i)
  /\ spc = "done" => i = N /\ arr[curr] = 0

CountInv == Cardinality(candidates) = N - i

IInv == TypeOK /\ PathInv /\ CountInv

=============================================================================
