------------------------ MODULE PAPILLCounterProofs ------------------------
(***************************************************************************)
(* What a counter prints, for all programs that use it, all costs of an    *)
(* invocation and all numbers of hardware counters.                        *)
(***************************************************************************)
EXTENDS PAPILLCounter, TLAPS

\* The fold over a sequence of one value.  Its recursive function is a CHOOSE: the
\* witness `wit' shows that there is one, and both agree on {} and {1}.
LEMMA SumOfOne == ASSUME NEW c \in Nat PROVE FoldSeq(+, 0, <<c>>) = c
  <1> DEFINE step(f) == [s \in SUBSET {1} |-> IF s = {} THEN 0 ELSE <<c>>[CHOOSE x \in s : TRUE] + f[s \ {CHOOSE x \in s : TRUE}]]
             iter == CHOOSE f : f = step(f)
             wit == [s \in SUBSET {1} |-> IF s = {} THEN 0 ELSE c]
  <1>0. (CHOOSE x \in {1} : TRUE) = 1
    OBVIOUS
  <1>1. SUBSET {1} = {{}, {1}}
    OBVIOUS
  <1>2. wit = step(wit)
    <2>1. wit[{}] = step(wit)[{}]
      BY <1>1
    <2>2. wit[{1}] = step(wit)[{1}]
      <3>1. {1} \in SUBSET {1} /\ {} \in SUBSET {1} /\ {1} \ {1} = {}
        OBVIOUS
      <3>2. step(wit)[{1}] = <<c>>[1] + wit[{}]
        <4> HIDE DEF wit
        <4> QED BY <3>1, <1>0
      <3> QED BY <3>1, <3>2
    <2> QED BY <1>1, <2>1, <2>2
  <1>3. iter = step(iter)
    BY <1>2
  <1>4. iter[{}] = 0 /\ iter[{1}] = c
    <2>0. {} \in SUBSET {1} /\ {1} \in SUBSET {1} /\ {1} \ {1} = {}
      OBVIOUS
    <2>1. iter[{}] = 0
      <3> HIDE DEF iter
      <3> QED BY <1>3, <2>0
    <2>2. iter[{1}] = <<c>>[1] + iter[{}]
      <3> HIDE DEF iter
      <3> QED BY <1>3, <2>0, <1>0
    <2> QED BY <2>1, <2>2
  <1>5. DOMAIN <<c>> = {1}
    OBVIOUS
  <1>6. FoldSeq(+, 0, <<c>>) = iter[{1}]
    BY <1>5 DEF FoldSeq, FoldFunction, FoldFunctionOnSet, MapThenFoldSet
  <1> QED BY <1>4, <1>6

\* The mean of the cycles that a sound use of a counter leaves to be averaged.
LEMMA MeanOfOne ==
  /\ Mean(<<>>) = 0
  /\ \A c \in Nat : Mean(<<c>>) = c
  <1>1. Mean(<<>>) = 0
    BY DEF Mean
  <1>2. ASSUME NEW c \in Nat PROVE Mean(<<c>>) = c
    <2>1. <<c>> # <<>> /\ Len(<<c>>) = 1
      OBVIOUS
    <2>2. Mean(<<c>>) = c \div 1
      BY <2>1, SumOfOne DEF Mean
    <2> QED BY <2>2
  <1> QED BY <1>1, <1>2

-----------------------------------------------------------------------------

\* A block more.
LEMMA AppendedSet ==
  ASSUME NEW s, s \in Seq(ToSet(s)), NEW b
  PROVE  /\ ToSet(Append(s, b)) = ToSet(s) \cup {b}
         /\ Append(s, b) \in Seq(ToSet(Append(s, b)))
  <1> DEFINE T == ToSet(s) \cup {b}
  <1>1. s \in Seq(T) /\ Len(s) \in Nat /\ DOMAIN s = 1 .. Len(s)
    OBVIOUS
  <1>2. ToSet(s) = {s[i] : i \in 1 .. Len(s)}
    BY <1>1 DEF ToSet
  <1>3. /\ DOMAIN Append(s, b) = 1 .. Len(s) + 1
        /\ \A i \in 1 .. Len(s) : Append(s, b)[i] = s[i]
        /\ Append(s, b)[Len(s) + 1] = b
        /\ Append(s, b) \in Seq(T)
    BY <1>1
  <1>4. ToSet(Append(s, b)) = {Append(s, b)[i] : i \in 1 .. Len(s) + 1}
    BY <1>3 DEF ToSet
  <1>5. ToSet(Append(s, b)) = T
    BY <1>1, <1>2, <1>3, <1>4
  <1> QED BY <1>3, <1>5

LEMMA InitInv == Init => CounterInv
  <1> SUFFICES ASSUME Init PROVE CounterInv
    OBVIOUS
  <1> USE CounterAssumption DEF Init
  <1>1. TypeInv
    BY DEF TypeInv
  <1>2. ControlInv
    BY DEF ControlInv
  <1>3. EventsInv
    BY DEF EventsInv
  <1>4. CyclesInv
    <2>1. Len(<<>>) = 0 /\ 0 * 0 = 0
      OBVIOUS
    <2> QED BY <2>1 DEF CyclesInv
  <1>5. PrintsMeasured
    <2>1. DOMAIN printed = {}
      OBVIOUS
    <2> QED BY <2>1 DEF PrintsMeasured
  <1> QED BY <1>1, <1>2, <1>3, <1>4, <1>5 DEF CounterInv

\* Where an invocation leads to.
LEMMA AfterCases ==
  ASSUME TypeInv, NEW n \in Nat
  PROVE  /\ After(n) \in {"reset", "invoke", "end"}
         /\ After(n) = "end" <=> n > prog.warmup
         /\ After(n) = "reset" => prog.inline \/ n = prog.warmup
         /\ After(n) = "invoke" => n < prog.warmup
  <1>1. prog.warmup \in Nat /\ prog.inline \in BOOLEAN
    BY DEF TypeInv, Program
  <1>2. CASE n > prog.warmup
    BY <1>1, <1>2 DEF After
  <1>3. CASE n = prog.warmup
    BY <1>1, <1>3 DEF After
  <1>4. CASE n < prog.warmup /\ prog.inline
    BY <1>1, <1>4 DEF After
  <1>5. CASE n < prog.warmup /\ ~prog.inline
    BY <1>1, <1>5 DEF After
  <1> QED BY <1>1, <1>2, <1>3, <1>4, <1>5

\* As long as nothing is printed and the events of the counter stay, so do the blocks.
LEMMA SamePrints ==
  ASSUME PrintsMeasured, UNCHANGED <<prog, printed>>,
         cset' = cset \/ printed = <<>>
  PROVE  PrintsMeasured'
  <1>1. CASE cset' = cset
    BY <1>1 DEF PrintsMeasured
  <1>2. CASE printed = <<>>
    <2>1. DOMAIN printed' = {}
      BY <1>2
    <2> QED BY <2>1 DEF PrintsMeasured
  <1> QED BY <1>1, <1>2

\* The cycles of a counter whose statistics are printed for the n-th time.
CyclesOf(n) ==
  CASE prog.style = "none"   -> 0
    [] prog.style = "assign" -> cost
    [] prog.style = "push"   -> n * cost

\* What a print adds to the cycles: nothing, unless they were pushed.
LEMMA PrintAdds ==
  ASSUME CounterInv, SoundUse, pc \in {"print", "stats"}
  PROVE  /\ prog.style # "push" => cycles_measured + Mean(vec_cycles_measured) = cycles_measured
         /\ prog.style = "push" => Len(printed) = prints
         /\ cycles_measured + Mean(vec_cycles_measured) = CyclesOf(Len(printed) + 1)
         /\ measured = [e \in 1 .. cset |-> cost]
  <1>1. /\ prog.style \in {"push", "assign", "none"}
        /\ cost \in Nat /\ prints \in Nat /\ cset \in Nat
    BY DEF CounterInv, TypeInv, Program
  <1>2. measured = [e \in 1 .. cset |-> cost]
    BY DEF CounterInv, EventsInv
  <1>3. CASE prog.style = "none"
    <2>1. cycles_measured = 0 /\ vec_cycles_measured = <<>>
      BY <1>3 DEF CounterInv, CyclesInv
    <2> QED BY <1>2, <1>3, <2>1, MeanOfOne DEF CyclesOf
  <1>4. CASE prog.style = "assign"
    <2>1. cycles_measured = cost /\ vec_cycles_measured = <<>>
      BY <1>4 DEF CounterInv, CyclesInv
    <2> QED BY <1>1, <1>2, <1>4, <2>1, MeanOfOne DEF CyclesOf
  <1>5. CASE prog.style = "push"
    <2>1. pc = "stats"
      BY <1>5 DEF SoundUse, CounterInv, ControlInv
    <2>2. /\ vec_cycles_measured = <<cost>>
          /\ Len(printed) = prints /\ cycles_measured = prints * cost
      BY <1>5, <2>1 DEF CounterInv, CyclesInv
    <2>3. Mean(vec_cycles_measured) = cost
      BY <1>1, <2>2, MeanOfOne
    <2>4. prints * cost + cost = (prints + 1) * cost
      BY <1>1
    <2> QED BY <1>2, <1>5, <2>2, <2>3, <2>4 DEF CyclesOf
  <1> QED BY <1>1, <1>3, <1>4, <1>5

\* A print of a counter whose values are those of the last invocation.
LEMMA PrintKeeps ==
  ASSUME CounterInv, SoundUse, StatsToStream, pc \in {"print", "stats"}
  PROVE  /\ PrintsMeasured'
         /\ prog.style # "push" => cycles_measured' = cycles_measured
         /\ prog.style = "push" => /\ Len(printed') = prints + 1
                                   /\ cycles_measured' = (prints + 1) * cost
  <1>1. /\ prog.style \in {"push", "assign", "none"}
        /\ cost \in Nat /\ prints \in Nat /\ cset \in Nat
        /\ printed \in Seq(ToSet(printed))
    BY DEF CounterInv, TypeInv, Program
  <1>2. /\ prog.style # "push" => cycles_measured + Mean(vec_cycles_measured) = cycles_measured
        /\ prog.style = "push" => Len(printed) = prints
        /\ cycles_measured + Mean(vec_cycles_measured) = CyclesOf(Len(printed) + 1)
        /\ measured = [e \in 1 .. cset |-> cost]
    BY PrintAdds
  <1>3. UNCHANGED <<prog, cset, cost>>
    BY DEF StatsToStream, setVars, invocationVars
  <1>4. CASE cset = 0 /\ vec_cycles_measured = <<>>
    <2>1. UNCHANGED <<cycles_measured, printed>>
      BY <1>4 DEF StatsToStream
    <2>2. prog.style # "push"
      <3> SUFFICES ASSUME prog.style = "push" PROVE FALSE
        OBVIOUS
      <3>1. pc = "stats"
        BY DEF SoundUse, CounterInv, ControlInv
      <3>2. vec_cycles_measured = <<cost>>
        BY <3>1 DEF CounterInv, CyclesInv
      <3> QED BY <3>2, <1>4
    <2> QED BY <1>3, <2>1, <2>2, SamePrints DEF CounterInv
  <1>5. CASE ~ (cset = 0 /\ vec_cycles_measured = <<>>)
    <2>1. /\ cycles_measured' = cycles_measured + Mean(vec_cycles_measured)
          /\ printed' = Append(printed, [events |-> measured, cycles |-> cycles_measured',
                                         cost |-> cost])
      BY <1>5 DEF StatsToStream
    <2>2. PICK n \in Nat : n = Len(printed)
      BY <1>1
    <2>3. PICK b : b = [events |-> measured, cycles |-> cycles_measured', cost |-> cost]
      OBVIOUS
    <2>4. /\ DOMAIN printed = 1 .. n /\ DOMAIN printed' = 1 .. n + 1
          /\ Len(printed') = n + 1
          /\ \A i \in 1 .. n : printed'[i] = printed[i]
          /\ printed'[n + 1] = b
      BY <1>1, <2>1, <2>2, <2>3
    <2>5. /\ b.events = [e \in 1 .. cset |-> b.cost] /\ b.cost = cost
          /\ b.cycles = CyclesOf(n + 1)
      BY <2>1, <2>2, <2>3, <1>2
    <2>6. PrintsMeasured
      BY DEF CounterInv
    <2>7. ASSUME NEW i \in DOMAIN printed'
          PROVE  /\ printed'[i].events = [e \in 1 .. cset |-> printed'[i].cost]
                 /\ printed'[i].cycles = CASE prog.style = "none"   -> 0
                                           [] prog.style = "assign" -> printed'[i].cost
                                           [] prog.style = "push"   -> i * printed'[i].cost
      <3>1. i \in 1 .. n \/ i = n + 1
        BY <2>2, <2>4
      <3>2. CASE i \in 1 .. n
        BY <3>2, <2>4, <2>6 DEF PrintsMeasured
      <3>3. CASE i = n + 1
        BY <3>3, <2>4, <2>5 DEF CyclesOf
      <3> QED BY <3>1, <3>2, <3>3
    <2>8. PrintsMeasured'
      BY <1>3, <2>7 DEF PrintsMeasured
    <2>9. prog.style = "push" => cycles_measured' = (prints + 1) * cost
      BY <1>2, <2>1 DEF CyclesOf
    <2> QED BY <1>2, <2>1, <2>2, <2>4, <2>8, <2>9
  <1> QED BY <1>4, <1>5

\* All conjuncts again when neither the counter nor what is printed changes.
LEMMA ExitKeeps ==
  ASSUME CounterInv, pc' = "exit", max_hw_cntrs' \in Nat, pc # "stats",
         UNCHANGED <<prog, cset, measured, cycleVars, event_set, invocationVars, printVars>>
  PROVE  CounterInv'
  <1> USE DEF CounterInv, cycleVars, invocationVars, printVars
  <1>1. TypeInv'
    BY DEF TypeInv
  <1>2. ControlInv'
    BY DEF ControlInv
  <1>3. EventsInv'
    BY DEF EventsInv
  <1>4. SoundUse' => CyclesInv' /\ PrintsMeasured'
    BY SamePrints DEF CyclesInv, SoundUse
  <1> QED BY <1>1, <1>2, <1>3, <1>4

LEMMA ConstructInv ==
  ASSUME CounterInv, NEW n \in HwCounters, Construct(n)
  PROVE  CounterInv'
  <1>0. n \in Nat
    BY CounterAssumption
  <1>1. CASE n = 0
    BY <1>0, <1>1, ExitKeeps DEF Construct
  <1>2. CASE n # 0
    <2> USE <1>0, <1>2 DEF Construct, CounterInv, cycleVars, invocationVars, printVars
    <2>1. TypeInv'
      BY DEF TypeInv
    <2>2. ControlInv'
      BY DEF ControlInv
    <2>3. EventsInv'
      BY DEF EventsInv
    <2>4. SoundUse' => CyclesInv' /\ PrintsMeasured'
      BY SamePrints DEF CyclesInv, SoundUse
    <2> QED BY <2>1, <2>2, <2>3, <2>4
  <1> QED BY <1>1, <1>2

LEMMA AddInv == ASSUME CounterInv, Add PROVE CounterInv'
  <1> USE DEF Add, CounterInv, cycleVars, invocationVars, printVars
  <1>0. /\ prog.events \in Nat /\ prog.warmup \in Nat
        /\ prog.style \in {"push", "assign", "none"} /\ prog.inline \in BOOLEAN
    BY DEF TypeInv, Program
  <1>1. /\ pc' \in {"reset", "invoke"}
        /\ pc' = "reset" => prog.inline \/ 0 = prog.warmup
    BY <1>0, AfterCases
  <1>2. /\ cset = 0 /\ measured = <<>> /\ invocations = 0 /\ printed = <<>>
        /\ prints = 0 /\ cset' = prog.events
    BY <1>0 DEF ControlInv
  <1>3. TypeInv'
    BY <1>0, <1>1, <1>2 DEF TypeInv
  <1>4. ControlInv'
    BY <1>0, <1>1, <1>2 DEF ControlInv
  <1>5. EventsInv'
    BY <1>1, <1>2 DEF EventsInv
  <1>6. SoundUse' => CyclesInv'
    BY <1>0, <1>1, <1>2 DEF CyclesInv, SoundUse
  <1>7. SoundUse' => PrintsMeasured'
    BY <1>2, SamePrints DEF SoundUse
  <1> QED BY <1>3, <1>4, <1>5, <1>6, <1>7

LEMMA StartInv == ASSUME CounterInv, Start PROVE CounterInv'
  <1> USE DEF Start, CounterInv, setVars, cycleVars, invocationVars, printVars
  <1>1. TypeInv'
    BY DEF TypeInv
  <1>2. ControlInv'
    BY DEF ControlInv
  <1>3. EventsInv'
    BY DEF EventsInv
  <1>4. SoundUse' => CyclesInv' /\ PrintsMeasured'
    BY SamePrints DEF CyclesInv, SoundUse
  <1> QED BY <1>1, <1>2, <1>3, <1>4

\* Reading replaces the values, whatever they were.
LEMMA StopInv ==
  ASSUME CounterInv, NEW c \in Costs, Stop(c)
  PROVE  CounterInv'
  <1> USE DEF Stop, setVars, printVars
  <1>0. /\ c \in Nat /\ cset \in Nat /\ prog.warmup \in Nat /\ invocations \in Nat
        /\ prog.style \in {"push", "assign", "none"} /\ prog.inline \in BOOLEAN
    BY CounterAssumption DEF CounterInv, TypeInv, Program
  <1>1. /\ pc = "running" /\ cset = prog.events /\ invocations <= prog.warmup
        /\ prints = 0 /\ cost' = c /\ invocations' = invocations + 1
    BY DEF CounterInv, ControlInv
  <1>2. /\ pc' \in {"print", "reset", "invoke", "end"}
        /\ pc' = "print" <=> prog.inline
        /\ pc' = "end" => invocations' > prog.warmup
        /\ pc' \in {"reset", "invoke"} => invocations' <= prog.warmup
        /\ pc' = "reset" => invocations' = prog.warmup
    BY <1>0, <1>1, AfterCases DEF CounterInv
  <1>3. TypeInv'
    BY <1>0, <1>1, <1>2 DEF CounterInv, TypeInv
  <1>4. ControlInv'
    BY <1>0, <1>1, <1>2 DEF ControlInv
  <1>5. measured' = [e \in 1 .. cset |-> c]
    <2>1. CASE cset > 0
      BY <2>1 DEF ReadValues
    <2>2. CASE cset = 0
      <3>1. measured' = <<>> /\ 1 .. cset = {}
        BY <2>2 DEF ReadValues, CounterInv, EventsInv
      <3> QED BY <3>1
    <2> QED BY <1>0, <2>1, <2>2
  <1>6. EventsInv'
    BY <1>0, <1>1, <1>2, <1>5 DEF EventsInv, CounterInv, ReadValues
  <1>7. ASSUME SoundUse PROVE CyclesInv'
    <2> USE <1>7 DEF CounterInv, CyclesInv
    <2>1. CASE prog.style # "push"
      BY <2>1, <1>0, <1>1
    <2>2. CASE prog.style = "push"
      <3>1. ~prog.inline /\ (prog.events > 0 \/ prog.warmup = 0)
        BY <2>2 DEF SoundUse
      <3>2. pc' = "end" => vec_cycles_measured' = <<cost'>>
        <4> SUFFICES ASSUME pc' = "end" PROVE vec_cycles_measured' = <<cost'>>
          OBVIOUS
        <4>1. invocations = prog.warmup
          BY <1>0, <1>1, <1>2
        <4>2. vec_cycles_measured = <<>>
          BY <4>1, <1>1, <2>2
        <4> QED BY <4>2, <2>2, <1>1
      <3>3. pc' # "invoke" \/ invocations' # prog.warmup
        BY <3>1, <1>0, <1>1, <1>2, AfterCases
      <3>4. pc' \in {"reset", "invoke", "end"}
        BY <3>1, <1>1, <1>2
      <3>5. Len(printed') = 0 /\ cycles_measured' = 0 * cost'
        <4>1. cost \in Nat /\ Len(printed) = 0 /\ cycles_measured = 0 * cost
          BY <2>2, <1>1 DEF TypeInv
        <4>2. 0 * cost = 0 /\ 0 * c = 0
          BY <4>1, <1>0
        <4> QED BY <4>1, <4>2, <2>2, <1>1
      <3> QED BY <2>2, <3>2, <3>3, <3>4, <3>5, <1>0, <1>1
    <2> QED BY <2>1, <2>2
  <1>8. SoundUse => PrintsMeasured'
    BY SamePrints DEF CounterInv
  <1>9. SoundUse' => SoundUse
    BY DEF SoundUse
  <1> QED BY <1>3, <1>4, <1>6, <1>7, <1>8, <1>9 DEF CounterInv

\* The reset that matters is the one in front of the measured invocation.
LEMMA ResetInv == ASSUME CounterInv, Reset PROVE CounterInv'
  <1> USE DEF Reset, setVars, invocationVars, printVars
  <1>0. /\ cset \in Nat /\ prog.warmup \in Nat /\ invocations \in Nat
        /\ prog.style \in {"push", "assign", "none"}
    BY DEF CounterInv, TypeInv, Program
  <1>1. TypeInv'
    BY DEF CounterInv, TypeInv
  <1>2. ControlInv'
    BY DEF CounterInv, ControlInv
  <1>3. EventsInv'
    BY <1>0 DEF CounterInv, EventsInv
  <1>4. ASSUME SoundUse PROVE CyclesInv'
    <2> USE <1>4 DEF CounterInv, CyclesInv
    <2>1. CASE prog.style # "push"
      BY <2>1, <1>0 DEF ResetCycles
    <2>2. CASE prog.style = "push"
      <3>1. vec_cycles_measured' = <<>>
        <4>1. CASE cset > 0
          BY <4>1 DEF ResetCycles
        <4>2. CASE cset = 0
          <5>1. prog.warmup = 0 /\ invocations <= prog.warmup
            BY <4>2, <2>2, <1>0 DEF SoundUse, ControlInv
          <5>2. vec_cycles_measured = <<>>
            BY <5>1, <2>2, <1>0
          <5> QED BY <5>2, <4>2 DEF ResetCycles
        <4> QED BY <4>1, <4>2, <1>0
      <3> QED BY <3>1, <2>2, <1>0
    <2> QED BY <2>1, <2>2
  <1>5. SoundUse => PrintsMeasured'
    BY SamePrints DEF CounterInv
  <1>6. SoundUse' => SoundUse
    BY DEF SoundUse
  <1> QED BY <1>1, <1>2, <1>3, <1>4, <1>5, <1>6 DEF CounterInv

LEMMA EndInv == ASSUME CounterInv, End PROVE CounterInv'
  <1> USE DEF End, CounterInv, setVars, cycleVars, invocationVars, printVars
  <1>1. TypeInv'
    BY DEF TypeInv
  <1>2. ControlInv'
    BY DEF ControlInv
  <1>3. EventsInv'
    BY DEF EventsInv
  <1>4. SoundUse' => CyclesInv' /\ PrintsMeasured'
    BY SamePrints DEF CyclesInv, SoundUse
  <1> QED BY <1>1, <1>2, <1>3, <1>4

\* A print changes the cycles and the blocks only.
LEMMA PrintedType ==
  ASSUME CounterInv, StatsToStream
  PROVE  /\ printed' \in Seq(ToSet(printed'))
         /\ UNCHANGED <<prog, max_hw_cntrs, cset, measured, vec_cycles_measured,
                        event_set, invocations, cost>>
  <1>1. UNCHANGED <<prog, max_hw_cntrs, cset, measured, vec_cycles_measured,
                    event_set, invocations, cost>>
    BY DEF StatsToStream, setVars, invocationVars
  <1>2. printed \in Seq(ToSet(printed))
    BY DEF CounterInv, TypeInv
  <1>3. CASE printed' = printed
    BY <1>1, <1>2, <1>3
  <1>4. CASE printed' # printed
    <2> DEFINE b == [events |-> measured, cycles |-> cycles_measured', cost |-> cost]
    <2>1. printed' = Append(printed, b)
      BY <1>4 DEF StatsToStream
    <2> HIDE DEF b
    <2>2. Append(printed, b) \in Seq(ToSet(Append(printed, b)))
      BY <1>2, AppendedSet
    <2> QED BY <2>1, <2>2, <1>1
  <1> QED BY <1>3, <1>4

LEMMA PrintInlineInv == ASSUME CounterInv, PrintInline PROVE CounterInv'
  <1>1. pc = "print" /\ StatsToStream /\ pc' = After(invocations) /\ prints' = prints
    BY DEF PrintInline
  <1>2. /\ printed' \in Seq(ToSet(printed'))
        /\ UNCHANGED <<prog, max_hw_cntrs, cset, measured, vec_cycles_measured,
                       event_set, invocations, cost>>
    BY <1>1, PrintedType
  <1>3. /\ prog.inline /\ invocations \in Nat /\ prog.warmup \in Nat
        /\ prog.style \in {"push", "assign", "none"}
    BY <1>1 DEF CounterInv, TypeInv, ControlInv, Program
  <1>4. /\ pc' \in {"reset", "invoke", "end"}
        /\ pc' \in {"reset", "invoke"} => invocations <= prog.warmup
        /\ pc' = "reset" => prog.inline \/ invocations = prog.warmup
    BY <1>1, <1>3, AfterCases DEF CounterInv
  <1>5. TypeInv'
    BY <1>1, <1>2, <1>4 DEF CounterInv, TypeInv
  <1>6. ControlInv'
    BY <1>1, <1>2, <1>3, <1>4 DEF CounterInv, ControlInv
  <1>7. EventsInv'
    BY <1>1, <1>2, <1>4 DEF CounterInv, EventsInv
  <1>8. ASSUME SoundUse PROVE CyclesInv' /\ PrintsMeasured'
    <2>1. prog.style # "push"
      BY <1>8, <1>3 DEF SoundUse
    <2>2. cycles_measured' = cycles_measured /\ PrintsMeasured'
      BY <1>1, <1>8, <2>1, PrintKeeps
    <2>3. CyclesInv
      BY <1>8 DEF CounterInv
    <2>4. CyclesInv'
      BY <1>1, <1>2, <2>1, <2>2, <2>3 DEF CyclesInv
    <2> QED BY <2>2, <2>4
  <1>9. SoundUse' => SoundUse
    BY <1>2 DEF SoundUse
  <1> QED BY <1>5, <1>6, <1>7, <1>8, <1>9 DEF CounterInv

LEMMA StatsInv == ASSUME CounterInv, Stats PROVE CounterInv'
  <1>1. /\ pc = "stats" /\ pc' = "stats" /\ prints < prog.prints
        /\ StatsToStream /\ prints' = prints + 1
    BY DEF Stats
  <1>2. /\ printed' \in Seq(ToSet(printed'))
        /\ UNCHANGED <<prog, max_hw_cntrs, cset, measured, vec_cycles_measured,
                       event_set, invocations, cost>>
    BY <1>1, PrintedType
  <1>3. prints \in Nat /\ prog.style \in {"push", "assign", "none"} /\ prog.prints \in Nat
    BY DEF CounterInv, TypeInv, Program
  <1>4. TypeInv'
    BY <1>1, <1>2, <1>3 DEF CounterInv, TypeInv
  <1>5. ControlInv'
    BY <1>1, <1>2 DEF CounterInv, ControlInv
  <1>6. EventsInv'
    BY <1>1, <1>2 DEF CounterInv, EventsInv
  <1>7. ASSUME SoundUse PROVE CyclesInv' /\ PrintsMeasured'
    <2>1. /\ PrintsMeasured'
          /\ prog.style # "push" => cycles_measured' = cycles_measured
          /\ prog.style = "push" => /\ Len(printed') = prints + 1
                                    /\ cycles_measured' = (prints + 1) * cost
      BY <1>1, <1>7, PrintKeeps
    <2>2. CyclesInv
      BY <1>7 DEF CounterInv
    <2>3. CyclesInv'
      BY <1>1, <1>2, <1>3, <2>1, <2>2 DEF CyclesInv
    <2> QED BY <2>1, <2>3
  <1>8. SoundUse' => SoundUse
    BY <1>2 DEF SoundUse
  <1> QED BY <1>4, <1>5, <1>6, <1>7, <1>8 DEF CounterInv

LEMMA StutterInv == ASSUME CounterInv, UNCHANGED vars PROVE CounterInv'
  <1> USE DEF vars, setVars, cycleVars, invocationVars, printVars
  <1>1. TypeInv' /\ ControlInv' /\ EventsInv'
    BY DEF CounterInv, TypeInv, ControlInv, EventsInv
  <1>2. (SoundUse => CyclesInv /\ PrintsMeasured)'
    BY DEF CounterInv, SoundUse, CyclesInv, PrintsMeasured
  <1> QED BY <1>1, <1>2 DEF CounterInv

\* The invariant of a counter: the control state says how many invocations there were,
\* the values are those of the last one, and in a sound use so are the cycles.
THEOREM CounterInvariance == Spec => []CounterInv
  <1>1. Init => CounterInv
    BY InitInv
  <1>2. CounterInv /\ [Next]_vars => CounterInv'
    <2> SUFFICES ASSUME CounterInv, [Next]_vars PROVE CounterInv'
      OBVIOUS
    <2>1. CASE \E n \in HwCounters : Construct(n)
      BY <2>1, ConstructInv
    <2>2. CASE Add
      BY <2>2, AddInv
    <2>3. CASE AddTooMany
      BY <2>3, ExitKeeps DEF AddTooMany, setVars, CounterInv, TypeInv
    <2>4. CASE Start
      BY <2>4, StartInv
    <2>5. CASE \E c \in Costs : Stop(c)
      BY <2>5, StopInv
    <2>6. CASE Reset
      BY <2>6, ResetInv
    <2>7. CASE End
      BY <2>7, EndInv
    <2>8. CASE PrintInline
      BY <2>8, PrintInlineInv
    <2>9. CASE Stats
      BY <2>9, StatsInv
    <2>10. CASE PapiError
      BY <2>10, ExitKeeps DEF PapiError, setVars, CounterInv, TypeInv
    <2>11. CASE Done
      BY <2>11, StutterInv DEF Done
    <2>12. CASE UNCHANGED vars
      BY <2>12, StutterInv
    <2> QED BY <2>1, <2>2, <2>3, <2>4, <2>5, <2>6, <2>7, <2>8, <2>9, <2>10, <2>11, <2>12
            DEF Next
  <1> QED BY <1>1, <1>2, PTL DEF Spec

\* The assertion of stats_to_stream: whenever statistics are printed there is one value
\* for each event, for every program and every warm-up.
THEOREM AssertionHolds == Spec => []AssertHolds
  <1>1. CounterInv => AssertHolds
    <2> SUFFICES ASSUME CounterInv, pc \in {"print", "stats"}
                 PROVE  Len(measured) = cset
      BY DEF AssertHolds
    <2>1. cset \in Nat /\ measured = [e \in 1 .. cset |-> cost]
      BY DEF CounterInv, TypeInv, EventsInv
    <2> QED BY <2>1
  <1> QED BY <1>1, CounterInvariance, PTL

\* Every program that uses a counter soundly prints the invocation that was measured
\* last and nothing of its warm-up, in the first block exactly, and in any later one
\* with the cycles, if they were pushed, added up as often as they were printed.
THEOREM PrintsWhatItMeasured == Spec => [](SoundUse => PrintsMeasured)
  <1>1. CounterInv => (SoundUse => PrintsMeasured)
    BY DEF CounterInv
  <1> QED BY <1>1, CounterInvariance, PTL

=============================================================================
