--------------------------- MODULE ShuffleProofs ---------------------------
(***************************************************************************)
(* Proofs about Shuffle, for vectors of any length and all random choices. *)
(***************************************************************************)
EXTENDS Shuffle, FiniteSetTheorems, TLAPS

\* Before the loop the path is the head alone.
LEMMA InitIInv == Init => IInv
  <1> SUFFICES ASSUME Init PROVE IInv
    OBVIOUS
  <1>1. N \in Nat \ {0}
    BY SizeAssumption
  <1>2. TypeOK
    BY <1>1 DEF Init, FirstCandidates, TypeOK, Idx
  <1>3. PathInv
    <2> DEFINE ord == [k \in 0 .. 0 |-> 0]
    <2>1. ord \in [0 .. i - 1 -> Idx]
      BY <1>1 DEF Init, FirstCandidates, Idx
    <2>2. {ord[k] : k \in 0 .. i - 1} = {0}
      BY DEF Init, FirstCandidates
    <2>3. IsPath(ord, i)
      BY <2>2 DEF Init, FirstCandidates, IsPath
    <2> QED BY <2>1, <2>3 DEF PathInv, Init
  <1>4. CountInv
    <2>1. IsFiniteSet(Idx) /\ Cardinality(Idx) = N
      BY <1>1, FS_Interval DEF Idx
    <2>2. 0 \in Idx
      BY <1>1 DEF Idx
    <2>3. Cardinality(Idx \ {0}) = N - 1
      BY <2>1, <2>2, FS_RemoveElement
    <2> QED BY <2>3 DEF Init, FirstCandidates, CountInv
  <1> QED BY <1>2, <1>3, <1>4 DEF IInv

\* A set of candidates is finite.
LEMMA CandidatesFinite == TypeOK => IsFiniteSet(candidates)
  <1>1. IsFiniteSet(Idx)
    BY SizeAssumption, FS_Interval DEF Idx
  <1>2. TypeOK => candidates \in SUBSET Idx
    BY DEF TypeOK
  <1> QED BY <1>1, <1>2, FS_Subset

\* Drawing a candidate appends a new node to the path.
LEMMA DrawStep == IInv /\ Draw => IInv'
  <1> SUFFICES ASSUME IInv, Draw PROVE IInv'
    OBVIOUS
  <1>1. N \in Nat \ {0}
    BY SizeAssumption
  <1>2. PICK next \in candidates :
          /\ arr' = [arr EXCEPT ![curr] = next]
          /\ candidates' = candidates \ {next}
          /\ curr' = next
    BY DEF Draw, Erased
  <1>3. /\ spc = "loop" /\ spc' = "loop"
        /\ i' = i + 1 /\ i \in 1 .. N - 1
        /\ next \in Idx /\ next # 0 /\ curr \in Idx
        /\ arr \in [Idx -> Idx]
    BY <1>1, <1>2 DEF Draw, IInv, TypeOK
  <1>4. TypeOK'
    BY <1>1, <1>2, <1>3 DEF IInv, TypeOK
  <1>5. PathInv'
    <2>1. PICK ord \in [0 .. i - 1 -> Idx] : IsPath(ord, i)
      BY DEF IInv, PathInv
    <2>2. PICK longer \in [0 .. i -> Idx] :
            \A k \in 0 .. i : longer[k] = IF k = i THEN next ELSE ord[k]
      <3>1. [k \in 0 .. i |-> IF k = i THEN next ELSE ord[k]] \in [0 .. i -> Idx]
        BY <1>3
      <3> QED BY <3>1
    <2>3. \A k \in 0 .. i - 1 : ord[k] # next /\ longer[k] = ord[k]
      BY <1>2, <1>3, <2>1, <2>2 DEF IsPath
    <2>4. \A k, l \in 0 .. i : longer[k] = longer[l] => k = l
      BY <1>3, <2>1, <2>2, <2>3 DEF IsPath
    <2>5. \A k \in 0 .. i - 1 : arr'[longer[k]] = longer[k + 1]
      <3> TAKE k \in 0 .. i - 1
      <3>1. CASE k = i - 1
        BY <3>1, <1>2, <1>3, <2>1, <2>2 DEF IsPath
      <3>2. CASE k < i - 1
        <4>1. ord[k] \in Idx /\ ord[k] # curr
          BY <3>2, <1>3, <2>1 DEF IsPath
        <4>2. arr'[ord[k]] = ord[k + 1]
          BY <4>1, <3>2, <1>2, <1>3, <2>1 DEF IsPath
        <4> QED BY <4>2, <3>2, <1>3, <2>2
      <3> QED BY <3>1, <3>2, <1>3
    <2>6. candidates' = Idx \ {longer[k] : k \in 0 .. i}
      <3>1. 0 .. i = (0 .. i - 1) \cup {i} /\ longer[i] = next
        BY <1>3, <2>2
      <3>2. {longer[k] : k \in 0 .. i} = {ord[k] : k \in 0 .. i - 1} \cup {next}
        BY <3>1, <2>3
      <3>3. candidates = Idx \ {ord[k] : k \in 0 .. i - 1}
        BY <2>1 DEF IsPath
      <3> QED BY <3>2, <3>3, <1>2
    <2>7. longer[0] = 0 /\ longer[i] = curr'
      BY <1>2, <1>3, <2>1, <2>2 DEF IsPath
    <2>8. i' - 1 = i /\ i' - 2 = i - 1
      BY <1>3
    <2>9. IsPath(longer, i)'
      BY <2>4, <2>5, <2>6, <2>7, <2>8 DEF IsPath
    <2> QED BY <2>8, <2>9, <1>3 DEF PathInv
  <1>6. CountInv'
    <2>1. IsFiniteSet(candidates)
      BY CandidatesFinite DEF IInv
    <2>2. Cardinality(candidates \ {next}) = Cardinality(candidates) - 1
      BY <2>1, <1>2, FS_RemoveElement
    <2> QED BY <2>2, <1>1, <1>2, <1>3 DEF IInv, CountInv
  <1> QED BY <1>4, <1>5, <1>6 DEF IInv

\* The closing assignment leaves the path alone: it starts at its last node.
LEMMA CloseStep == IInv /\ CloseCycle => IInv'
  <1> SUFFICES ASSUME IInv, CloseCycle PROVE IInv'
    OBVIOUS
  <1>1. N \in Nat \ {0}
    BY SizeAssumption
  <1>2. /\ arr' = [arr EXCEPT ![curr] = 0]
        /\ UNCHANGED <<candidates, curr, i>>
        /\ spc' = "done" /\ i = N
        /\ curr \in Idx /\ arr \in [Idx -> Idx] /\ 0 \in Idx
    BY <1>1 DEF CloseCycle, LastToHead, IInv, TypeOK, Idx
  <1>3. TypeOK'
    BY <1>2 DEF IInv, TypeOK
  <1>4. PathInv'
    <2>1. PICK ord \in [0 .. i - 1 -> Idx] : IsPath(ord, i)
      BY DEF IInv, PathInv
    <2>2. \A k \in 0 .. i - 2 : arr'[ord[k]] = ord[k + 1]
      <3> TAKE k \in 0 .. i - 2
      <3>1. ord[k] \in Idx /\ ord[k] # curr
        BY <1>1, <1>2, <2>1 DEF IsPath
      <3> QED BY <3>1, <1>2, <2>1 DEF IsPath
    <2>3. IsPath(ord, i)'
      BY <2>1, <2>2, <1>2 DEF IsPath
    <2> QED BY <2>1, <2>3, <1>2 DEF PathInv
  <1>5. CountInv'
    BY <1>2 DEF IInv, CountInv
  <1> QED BY <1>3, <1>4, <1>5 DEF IInv

\* IInv holds in every reachable state.
THEOREM Invariance == Spec => []IInv
  <1>1. IInv /\ UNCHANGED shuffleVars => IInv'
    BY DEF IInv, TypeOK, PathInv, IsPath, CountInv, shuffleVars
  <1>2. IInv /\ [Next]_shuffleVars => IInv'
    BY <1>1, DrawStep, CloseStep DEF Next, ShuffleStep, Shuffled
  <1> QED BY InitIInv, <1>2, PTL DEF Spec

\* The path is closed when all nodes are on it.
LEMMA CycleOf == IInv => SingleCycle
  <1> SUFFICES ASSUME IInv, spc = "done" PROVE IsCycle(arr)
    BY DEF SingleCycle
  <1>1. N \in Nat \ {0}
    BY SizeAssumption
  <1>2. i = N /\ arr[curr] = 0
    BY DEF IInv, PathInv
  <1>3. PICK ord \in [0 .. i - 1 -> Idx] : IsPath(ord, i)
    BY DEF IInv, PathInv
  <1>4. candidates = {}
    <2>1. IsFiniteSet(candidates) /\ Cardinality(candidates) = 0
      BY <1>1, <1>2, CandidatesFinite DEF IInv, CountInv
    <2> QED BY <2>1, FS_EmptySet
  <1>5. ord \in [Idx -> Idx]
    BY <1>2, <1>3 DEF Idx
  <1>6. \A k \in Idx : \E l \in Idx : ord[l] = k
    BY <1>2, <1>3, <1>4 DEF IsPath, Idx
  <1>7. \A k \in Idx : arr[ord[k]] = IF k = N - 1 THEN 0 ELSE ord[k + 1]
    <2>1. \A k \in 0 .. N - 2 : arr[ord[k]] = ord[k + 1]
      BY <1>2, <1>3 DEF IsPath
    <2>2. arr[ord[N - 1]] = 0
      BY <1>2, <1>3 DEF IsPath
    <2>3. \A k \in Idx : k = N - 1 \/ k \in 0 .. N - 2
      BY <1>1 DEF Idx
    <2> QED BY <2>1, <2>2, <2>3, <1>1
  <1>8. ord[0] = 0 /\ \A k, l \in Idx : ord[k] = ord[l] => k = l
    BY <1>2, <1>3 DEF IsPath, Idx
  <1> QED BY <1>5, <1>6, <1>7, <1>8 DEF IsCycle

\* Every shuffled vector is one cycle through all nodes.
THEOREM OneCycle == Spec => []SingleCycle
  BY Invariance, CycleOf, PTL

\* The random index is never drawn from an empty vector.
THEOREM NeverEmpty == Spec => []CandidateLeft
  <1>1. ASSUME IInv PROVE CandidateLeft
    <2>1. Cardinality({}) = 0
      BY FS_EmptySet
    <2> QED BY <1>1, <2>1, SizeAssumption DEF IInv, CountInv, TypeOK, CandidateLeft
  <1> QED BY Invariance, <1>1, PTL

=============================================================================
