----------------------------- MODULE ReportProofs -----------------------------
(***************************************************************************)
(* Proofs about Report, for all tests, any number of runs and aborts, and  *)
(* both parsers.                                                           *)
(*                                                                         *)
(* First, what the writers append is always a sequence of complete headers *)
(* and blocks, and so is the file.  Then, a parser in such a file is only  *)
(* ever behind a header, a label or a value of a block, or between blocks. *)
(***************************************************************************)
EXTENDS Report, SequenceTheorems, WellFoundedInduction, TLAPS

-----------------------------------------------------------------------------

(***************************************************************************)
(* Concatenation.                                                          *)
(***************************************************************************)

\* Every set of numbers that is not empty has a least one.
LEMMA Least ==
  ASSUME NEW T, T \subseteq Nat, T # {}
  PROVE  \E n \in T : \A m \in T : n <= m
  <1> DEFINE R == OpToRel(<, Nat)
  <1>1. IsWellFoundedOn(R, Nat)
    BY NatLessThanWellFounded
  <1>2. PICK n \in T : \A m \in T : ~ (<<m, n>> \in R)
    <2> HIDE DEF R
    <2> QED BY <1>1, WFMin
  <1>3. \A m \in T : n <= m
    <2> TAKE m \in T
    <2>1. m \in Nat /\ n \in Nat /\ ~ m < n
      BY <1>2 DEF OpToRel
    <2> QED BY <2>1
  <1> QED BY <1>3

\* f gives the concatenation of the first elements of s, up to the n-th.
Flattens(f, s, n) ==
  f = [i \in 1 .. n |-> IF i = 1 THEN s[i] ELSE f[i - 1] \o s[i]]

LEMMA FlattenExists ==
  ASSUME NEW s, NEW n \in Nat \ {0}
  PROVE  \E f : Flattens(f, s, n)
  <1> DEFINE Bad == {m \in 1 .. n : ~ \E f : Flattens(f, s, m)}
  <1> SUFFICES ASSUME Bad # {} PROVE FALSE
    OBVIOUS
  <1>1. PICK m \in Bad : \A l \in Bad : m <= l
    <2>1. Bad \subseteq Nat
      OBVIOUS
    <2> HIDE DEF Bad
    <2> QED BY <2>1, Least
  <1>2. m \in 1 .. n /\ ~ \E f : Flattens(f, s, m)
    OBVIOUS
  <1>3. CASE m = 1
    <2> DEFINE f == [i \in 1 .. 1 |-> s[1]]
    <2>1. Flattens(f, s, 1)
      BY DEF Flattens
    <2> HIDE DEF f
    <2> QED BY <1>2, <1>3, <2>1
  <1>4. CASE m # 1
    <2>1. m - 1 \in 1 .. n /\ m - 1 \notin Bad
      <3>1. m - 1 \in 1 .. n /\ ~ m <= m - 1
        BY <1>2, <1>4
      <3> HIDE DEF Bad
      <3> QED BY <1>1, <3>1
    <2>2. PICK g : Flattens(g, s, m - 1)
      BY <2>1
    <2> DEFINE f == [i \in 1 .. m |-> IF i = m THEN g[m - 1] \o s[m] ELSE g[i]]
    <2>3. ASSUME NEW i \in 1 .. m
          PROVE  f[i] = IF i = 1 THEN s[i] ELSE f[i - 1] \o s[i]
      <3>1. CASE i = m
        <4>1. m \in 1 .. m /\ m - 1 \in 1 .. m /\ m - 1 # m
          BY <2>1, <1>2
        <4>2. f[m] = g[m - 1] \o s[m] /\ f[m - 1] = g[m - 1]
          BY <1>2, <4>1
        <4> HIDE DEF f
        <4> QED BY <1>4, <3>1, <4>2
      <3>2. CASE i # m
        <4>1. i \in 1 .. m - 1 /\ f[i] = g[i]
          BY <1>2, <3>2
        <4>2. g[i] = IF i = 1 THEN s[i] ELSE g[i - 1] \o s[i]
          BY <2>2, <4>1 DEF Flattens
        <4>3. i # 1 => f[i - 1] = g[i - 1]
          BY <1>2, <4>1
        <4> HIDE DEF f
        <4> QED BY <4>1, <4>2, <4>3
      <3> QED BY <3>1, <3>2
    <2>4. f = [i \in 1 .. m |-> IF i = 1 THEN s[i] ELSE f[i - 1] \o s[i]]
      <3>1. f = [i \in 1 .. m |-> f[i]]
        OBVIOUS
      <3> HIDE DEF f
      <3> QED BY <2>3, <3>1
    <2>5. Flattens(f, s, m)
      <3> HIDE DEF f
      <3> QED BY <2>4 DEF Flattens
    <2> HIDE DEF f
    <2> QED BY <1>2, <2>5
  <1> QED BY <1>3, <1>4

\* FlattenSeq, step by step.
LEMMA FlattenSteps ==
  ASSUME NEW s, Len(s) \in Nat \ {0}
  PROVE  \E f : /\ f[1] = s[1]
                /\ \A i \in 2 .. Len(s) : f[i] = f[i - 1] \o s[i]
                /\ FlattenSeq(s) = f[Len(s)]
  <1> DEFINE n == Len(s)
             flat == CHOOSE f : f = [i \in 1 .. n |-> IF i = 1 THEN s[i] ELSE f[i - 1] \o s[i]]
  <1>1. FlattenSeq(s) = flat[n]
    BY DEF FlattenSeq
  <1>2. flat = [i \in 1 .. n |-> IF i = 1 THEN s[i] ELSE flat[i - 1] \o s[i]]
    <2>1. \E f : f = [i \in 1 .. n |-> IF i = 1 THEN s[i] ELSE f[i - 1] \o s[i]]
      BY FlattenExists DEF Flattens
    <2> HIDE DEF n
    <2> QED BY <2>1
  <1> HIDE DEF flat
  <1>3. flat[1] = s[1]
    BY <1>2
  <1>4. \A i \in 2 .. n : flat[i] = flat[i - 1] \o s[i]
    <2> TAKE i \in 2 .. n
    <2>1. i \in 1 .. n /\ i # 1
      OBVIOUS
    <2> HIDE DEF n
    <2> QED BY <1>2, <2>1
  <1> QED BY <1>1, <1>3, <1>4

LEMMA Flatten2 ==
  ASSUME NEW s, Len(s) = 2
  PROVE  FlattenSeq(s) = s[1] \o s[2]
  <1>1. PICK f : /\ f[1] = s[1]
                 /\ \A i \in 2 .. Len(s) : f[i] = f[i - 1] \o s[i]
                 /\ FlattenSeq(s) = f[Len(s)]
    <2>1. Len(s) \in Nat \ {0}
      OBVIOUS
    <2> QED BY <2>1, FlattenSteps, Zenon
  <1>2. f[2] = f[1] \o s[2]
    <2>1. 2 \in 2 .. 2 /\ 2 - 1 = 1
      OBVIOUS
    <2> QED BY <1>1, <2>1
  <1> QED BY <1>1, <1>2

LEMMA Flatten3 ==
  ASSUME NEW s, Len(s) = 3
  PROVE  FlattenSeq(s) = (s[1] \o s[2]) \o s[3]
  <1>1. PICK f : /\ f[1] = s[1]
                 /\ \A i \in 2 .. Len(s) : f[i] = f[i - 1] \o s[i]
                 /\ FlattenSeq(s) = f[Len(s)]
    <2>1. Len(s) \in Nat \ {0}
      OBVIOUS
    <2> QED BY <2>1, FlattenSteps, Zenon
  <1>2. f[2] = f[1] \o s[2] /\ f[3] = f[2] \o s[3]
    <2>1. \A i \in 2 .. 3 : f[i] = f[i - 1] \o s[i]
      BY <1>1
    <2> QED BY <2>1
  <1> QED BY <1>1, <1>2

LEMMA Flatten4 ==
  ASSUME NEW s, Len(s) = 4
  PROVE  FlattenSeq(s) = ((s[1] \o s[2]) \o s[3]) \o s[4]
  <1>1. PICK f : /\ f[1] = s[1]
                 /\ \A i \in 2 .. Len(s) : f[i] = f[i - 1] \o s[i]
                 /\ FlattenSeq(s) = f[Len(s)]
    <2>1. Len(s) \in Nat \ {0}
      OBVIOUS
    <2> QED BY <2>1, FlattenSteps, Zenon
  <1>2. f[2] = f[1] \o s[2] /\ f[3] = f[2] \o s[3] /\ f[4] = f[3] \o s[4]
    <2>1. \A i \in 2 .. 4 : f[i] = f[i - 1] \o s[i]
      BY <1>1
    <2>2. /\ 2 \in 2 .. 4 /\ 3 \in 2 .. 4 /\ 4 \in 2 .. 4
          /\ 2 - 1 = 1 /\ 3 - 1 = 2 /\ 4 - 1 = 3
      OBVIOUS
    <2> QED BY <2>1, <2>2, Zenon
  <1> QED BY <1>1, <1>2

LEMMA Flatten5 ==
  ASSUME NEW s, Len(s) = 5
  PROVE  FlattenSeq(s) = (((s[1] \o s[2]) \o s[3]) \o s[4]) \o s[5]
  <1>1. PICK f : /\ f[1] = s[1]
                 /\ \A i \in 2 .. Len(s) : f[i] = f[i - 1] \o s[i]
                 /\ FlattenSeq(s) = f[Len(s)]
    <2>1. Len(s) \in Nat \ {0}
      OBVIOUS
    <2> QED BY <2>1, FlattenSteps, Zenon
  <1>2. /\ f[2] = f[1] \o s[2] /\ f[3] = f[2] \o s[3]
        /\ f[4] = f[3] \o s[4] /\ f[5] = f[4] \o s[5]
    <2>1. \A i \in 2 .. 5 : f[i] = f[i - 1] \o s[i]
      BY <1>1
    <2>2. /\ 2 \in 2 .. 5 /\ 3 \in 2 .. 5 /\ 4 \in 2 .. 5 /\ 5 \in 2 .. 5
          /\ 2 - 1 = 1 /\ 3 - 1 = 2 /\ 4 - 1 = 3 /\ 5 - 1 = 4
      OBVIOUS
    <2> QED BY <2>1, <2>2, Zenon
  <1> QED BY <1>1, <1>2

\* One more element.
LEMMA Longer ==
  ASSUME NEW S, NEW s \in Seq(S), NEW c \in S, NEW u \in Seq(S),
         Len(u) = Len(s) + 1, u[Len(u)] = c, \A i \in 1 .. Len(s) : u[i] = s[i]
  PROVE  s \o <<c>> = u
  <1> DEFINE t == <<c>>
             v == s \o t
  <1>1. t \in Seq(S) /\ Len(t) = 1 /\ t[1] = c
    OBVIOUS
  <1> HIDE DEF t
  <1>2. /\ v \in Seq(S) /\ Len(v) = Len(s) + Len(t)
        /\ \A i \in 1 .. Len(s) + Len(t) :
             v[i] = IF i <= Len(s) THEN s[i] ELSE t[i - Len(s)]
    BY <1>1, ConcatProperties
  <1> HIDE DEF v
  <1>3. Len(s) \in Nat
    OBVIOUS
  <1>4. ASSUME NEW i \in 1 .. Len(v) PROVE v[i] = u[i]
    <2>1. CASE i <= Len(s)
      BY <1>1, <1>2, <1>3, <2>1
    <2>2. CASE i = Len(s) + 1
      <3>1. i - Len(s) = 1 /\ ~ i <= Len(s)
        BY <1>3, <2>2
      <3> QED BY <1>1, <1>2, <2>2, <3>1
    <2> QED BY <1>1, <1>2, <1>3, <2>1, <2>2
  <1>5. v = u
    BY <1>1, <1>2, <1>4, SeqEqual
  <1> QED BY <1>5 DEF t, v

\* Sequences of two, three and four elements.
LEMMA Pair ==
  ASSUME NEW S, NEW a \in S, NEW b \in S
  PROVE  <<a>> \o <<b>> = <<a, b>>
  <1> DEFINE s == <<a>>
             u == <<a, b>>
  <1>1. s \in Seq(S) /\ u \in Seq(S) /\ Len(s) = 1 /\ Len(u) = 2 /\ u[2] = b /\ u[1] = s[1]
    OBVIOUS
  <1> HIDE DEF s, u
  <1>2. \A i \in 1 .. Len(s) : u[i] = s[i]
    BY <1>1
  <1>3. Len(u) = Len(s) + 1 /\ u[Len(u)] = b
    BY <1>1
  <1>4. s \o <<b>> = u
    BY <1>1, <1>2, <1>3, Longer
  <1> QED BY <1>4 DEF s, u

LEMMA Triple ==
  ASSUME NEW S, NEW a \in S, NEW b \in S, NEW c \in S
  PROVE  <<a, b>> \o <<c>> = <<a, b, c>>
  <1> DEFINE s == <<a, b>>
             u == <<a, b, c>>
  <1>1. /\ s \in Seq(S) /\ u \in Seq(S) /\ Len(s) = 2 /\ Len(u) = 3
        /\ u[3] = c /\ u[1] = s[1] /\ u[2] = s[2]
    OBVIOUS
  <1> HIDE DEF s, u
  <1>2. \A i \in 1 .. Len(s) : u[i] = s[i]
    <2>1. \A i \in 1 .. 2 : i = 1 \/ i = 2
      OBVIOUS
    <2> QED BY <1>1, <2>1
  <1>3. Len(u) = Len(s) + 1 /\ u[Len(u)] = c
    BY <1>1
  <1>4. s \o <<c>> = u
    BY <1>1, <1>2, <1>3, Longer
  <1> QED BY <1>4 DEF s, u

LEMMA Quadruple ==
  ASSUME NEW S, NEW a \in S, NEW b \in S, NEW c \in S, NEW d \in S
  PROVE  <<a, b, c>> \o <<d>> = <<a, b, c, d>>
  <1> DEFINE s == <<a, b, c>>
             u == <<a, b, c, d>>
  <1>1. /\ s \in Seq(S) /\ u \in Seq(S) /\ Len(s) = 3 /\ Len(u) = 4
        /\ u[4] = d /\ u[1] = s[1] /\ u[2] = s[2] /\ u[3] = s[3]
    OBVIOUS
  <1> HIDE DEF s, u
  <1>2. \A i \in 1 .. Len(s) : u[i] = s[i]
    <2>1. \A i \in 1 .. 3 : i = 1 \/ i = 2 \/ i = 3
      OBVIOUS
    <2> QED BY <1>1, <2>1
  <1>3. Len(u) = Len(s) + 1 /\ u[Len(u)] = d
    BY <1>1
  <1>4. s \o <<d>> = u
    BY <1>1, <1>2, <1>3, Longer
  <1> QED BY <1>4 DEF s, u

\* The words of a block.
LEMMA BlockWords ==
  /\ ((<<>> \o <<"event">>) \o <<"cycles">>) \o <<"blank">> = <<"event", "cycles", "blank">>
  /\ ((<<"label">> \o <<"event">>) \o <<"cycles">>) \o <<"blank">>
       = <<"label", "event", "cycles", "blank">>
  <1> DEFINE S == {"label", "event", "cycles", "blank"}
  <1>1. "label" \in S /\ "event" \in S /\ "cycles" \in S /\ "blank" \in S
    OBVIOUS
  <1>2. <<>> \o <<"event">> = <<"event">>
    <2>1. <<"event">> \in Seq(S)
      OBVIOUS
    <2> QED BY <2>1, ConcatEmptySeq
  <1> HIDE DEF S
  <1>3. <<"event">> \o <<"cycles">> = <<"event", "cycles">>
    BY <1>1, Pair
  <1>4. <<"event", "cycles">> \o <<"blank">> = <<"event", "cycles", "blank">>
    BY <1>1, Triple
  <1>5. <<"label">> \o <<"event">> = <<"label", "event">>
    BY <1>1, Pair
  <1>6. <<"label", "event">> \o <<"cycles">> = <<"label", "event", "cycles">>
    BY <1>1, Triple
  <1>7. <<"label", "event", "cycles">> \o <<"blank">> = <<"label", "event", "cycles", "blank">>
    BY <1>1, Quadruple
  <1> QED BY <1>2, <1>3, <1>4, <1>5, <1>6, <1>7, Zenon

\* Complete headers and blocks can be put together.
LEMMA CompleteConcat ==
  ASSUME NEW rs, NEW d, NEW e, Complete(rs, d), Complete(rs, e)
  PROVE  Complete(rs, d \o e)
  <1> DEFINE c == d \o e
             n == Len(d)
  <1>1. /\ d \in Seq(Lines) /\ e \in Seq(Lines) /\ n \in Nat /\ Len(e) \in Nat
        /\ DOMAIN d = 1 .. n /\ DOMAIN e = 1 .. Len(e)
    BY DEF Complete
  <1>2. /\ c \in Seq(Lines) /\ DOMAIN c = 1 .. n + Len(e)
        /\ \A x \in 1 .. n : c[x] = d[x]
        /\ \A x \in 1 .. Len(e) : c[n + x] = e[x]
    <2>1. c \in Seq(Lines) /\ Len(c) = n + Len(e)
      BY <1>1
    <2>2. DOMAIN c = 1 .. n + Len(e)
      BY <2>1
    <2> QED BY <1>1, <2>1, <2>2
  <1> HIDE DEF c, n
  <1>3. ASSUME NEW x \in 1 .. n PROVE LineInv(rs, c, x)
    <2>1. LineInv(rs, d, x)
      BY <1>1 DEF Complete
    <2>2. \A y \in DOMAIN d : y \in DOMAIN c /\ c[y] = d[y]
      BY <1>1, <1>2
    <2>3. /\ HeaderAt(d, x) => HeaderAt(c, x)
          /\ ValuesAt(d, x) => ValuesAt(c, x)
          /\ ValuesAt(d, x + 1) => ValuesAt(c, x + 1)
      BY <1>1, <2>2 DEF HeaderAt, ValuesAt
    <2>4. d[x].is = "label" /\ ValuesAt(d, x + 1) => c[x + 1] = d[x + 1]
      BY <1>1, <2>2 DEF ValuesAt
    <2>5. x > 1 => c[x - 1] = d[x - 1]
      BY <1>1, <2>2
    <2> QED BY <1>1, <2>1, <2>2, <2>3, <2>4, <2>5 DEF LineInv
  <1>4. ASSUME NEW x \in 1 .. Len(e) PROVE LineInv(rs, c, n + x)
    <2>1. LineInv(rs, e, x)
      BY <1>1 DEF Complete
    <2>2. \A y \in DOMAIN e : n + y \in DOMAIN c /\ c[n + y] = e[y]
      BY <1>1, <1>2
    <2>4. HeaderAt(e, x) => HeaderAt(c, n + x)
      <3>1. x + 3 \in DOMAIN e => x + 1 \in DOMAIN e /\ x + 2 \in DOMAIN e
        BY <1>1
      <3>2. /\ (n + x) + 1 = n + (x + 1) /\ (n + x) + 2 = n + (x + 2)
            /\ (n + x) + 3 = n + (x + 3)
        BY <1>1
      <3> QED BY <2>2, <3>1, <3>2 DEF HeaderAt
    <2>5. ValuesAt(e, x) => ValuesAt(c, n + x)
      <3>1. x + 2 \in DOMAIN e => x + 1 \in DOMAIN e
        BY <1>1
      <3>2. (n + x) + 1 = n + (x + 1) /\ (n + x) + 2 = n + (x + 2)
        BY <1>1
      <3>3. c[n + x] = e[x]
        BY <1>2
      <3> QED BY <2>2, <3>1, <3>2, <3>3 DEF ValuesAt
    <2>6. ValuesAt(e, x + 1) => ValuesAt(c, (n + x) + 1) /\ c[(n + x) + 1] = e[x + 1]
      <3>1. (x + 1) + 1 = x + 2 /\ (x + 1) + 2 = x + 3
            /\ ((n + x) + 1) + 1 = n + (x + 2) /\ ((n + x) + 1) + 2 = n + (x + 3)
            /\ (n + x) + 1 = n + (x + 1)
        BY <1>1
      <3>2. x + 3 \in DOMAIN e => x + 1 \in DOMAIN e /\ x + 2 \in DOMAIN e
        BY <1>1
      <3> QED BY <2>2, <3>1, <3>2 DEF ValuesAt
    <2>7. x > 1 => n + x > 1 /\ c[(n + x) - 1] = e[x - 1]
      <3>1. x > 1 => (n + x) - 1 = n + (x - 1) /\ x - 1 \in DOMAIN e /\ n + x > 1
        BY <1>1
      <3> QED BY <2>2, <3>1
    <2>8. c[n + x] = e[x]
      BY <1>2
    <2> QED BY <2>1, <2>4, <2>5, <2>6, <2>7, <2>8 DEF LineInv
  <1>5. \A x \in DOMAIN c : x \in 1 .. n \/ \E y \in 1 .. Len(e) : x = n + y
    <2> TAKE x \in DOMAIN c
    <2>1. x \in 1 .. n + Len(e)
      BY <1>2
    <2>2. x > n => x - n \in 1 .. Len(e) /\ x = n + (x - n)
      BY <1>1, <2>1
    <2> QED BY <1>1, <2>1, <2>2
  <1>6. \A x \in DOMAIN c : LineInv(rs, c, x)
    BY <1>3, <1>4, <1>5
  <1>7. Complete(rs, c)
    BY <1>2, <1>6 DEF Complete
  <1> QED BY <1>7 DEF c

LEMMA CompleteNothing == \A rs : Complete(rs, <<>>)
  BY DEF Complete

-----------------------------------------------------------------------------

(***************************************************************************)
(* What a test leaves in the file.                                         *)
(***************************************************************************)

\* A line of the current run.
Line(w, n, p) == [is |-> w, run |-> Len(runs), counter |-> n, print |-> p]

LEMMA HeaderWords == ToSet(Header) = {"TEST RUN", "size", "type", "place"}
  <1>1. ToSet(Header) = {Header[x] : x \in 1 .. 4}
    BY DEF ToSet, Header
  <1>2. /\ Header[1] = "TEST RUN" /\ Header[2] = "size" /\ Header[3] = "type"
        /\ Header[4] = "place"
    BY DEF Header
  <1>3. 1 .. 4 = {1, 2, 3, 4}
    OBVIOUS
  <1> QED BY <1>1, <1>2, <1>3, Zenon

LEMMA LineType ==
  ASSUME Len(runs) \in Nat, NEW w \in {"label", "event", "cycles", "blank"},
         NEW n \in Nat, NEW p \in Nat
  PROVE  Line(w, n, p) \in Lines
  BY DEF Line, Lines

LEMMA CountersOf ==
  ASSUME NEW t
  PROVE  /\ t \in {"PRODUCER_CONSUMER", "READER_WRITER"} => Counters(t) = <<Measured, Measured>>
         /\ t = "A_MEASUREMENT" => Counters(t) = <<Measured, Measured, Measured>>
         /\ t = "FLUSH" => Counters(t) = <<Eventless, Eventless, Eventless, Eventless>>
         /\ t \notin Headerless \cup {"PRODUCER_CONSUMER", "FLUSH"} =>
              Counters(t) = <<Eventless, Eventless, Eventless, Recipe, Measured>>
  BY DEF Counters, Headerless

\* A counter with events prints them, its cycles and a blank line.
LEMMA BlockIs ==
  ASSUME NEW n, NEW p, Counters(Last(runs).type)[n] = Measured
  PROVE  /\ Last(runs).type # "A_MEASUREMENT" =>
              BlockOf(n, p) = <<Line("event", n, p), Line("cycles", n, p), Line("blank", n, p)>>
         /\ Last(runs).type = "A_MEASUREMENT" =>
              BlockOf(n, p) = <<Line("label", n, p), Line("event", n, p),
                                Line("cycles", n, p), Line("blank", n, p)>>
  <1> DEFINE t == Last(runs).type
  <1>1. CASE t # "A_MEASUREMENT"
    <2>1. Block(t, Measured) = <<"event", "cycles", "blank">>
      <3>1. Block(t, Measured) = ((<<>> \o <<"event">>) \o <<"cycles">>) \o <<"blank">>
        BY <1>1 DEF Block, Measured, Blank
      <3> QED BY <3>1, BlockWords
    <2>2. DOMAIN <<"event", "cycles", "blank">> = 1 .. 3
      OBVIOUS
    <2>3. BlockOf(n, p) = [l \in 1 .. 3 |-> Line(<<"event", "cycles", "blank">>[l], n, p)]
      BY <2>1, <2>2 DEF BlockOf, Line
    <2> QED BY <1>1, <2>3
  <1>2. CASE t = "A_MEASUREMENT"
    <2>1. Block(t, Measured) = <<"label", "event", "cycles", "blank">>
      <3>1. Block(t, Measured) = ((<<"label">> \o <<"event">>) \o <<"cycles">>) \o <<"blank">>
        BY <1>2 DEF Block, Measured, Blank
      <3> QED BY <3>1, BlockWords
    <2>2. DOMAIN <<"label", "event", "cycles", "blank">> = 1 .. 4
      OBVIOUS
    <2>3. BlockOf(n, p) = [l \in 1 .. 4 |-> Line(<<"label", "event", "cycles", "blank">>[l], n, p)]
      BY <2>1, <2>2 DEF BlockOf, Line
    <2> QED BY <1>2, <2>3
  <1> QED BY <1>1, <1>2

\* Complete blocks without headers.
Blocks(d) == Complete(runs, d) /\ \A y \in DOMAIN d : d[y].is # "TEST RUN"

\* Such a block is one.
LEMMA CompleteBlock ==
  ASSUME runs \in Seq(Keys), runs # <<>>, NEW n \in Nat, NEW p \in Nat,
         Counters(Last(runs).type)[n] = Measured,
         Last(runs).type = "A_MEASUREMENT" => n \in 1 .. 3 /\ p = 1
  PROVE  Blocks(BlockOf(n, p))
  <1>1. Len(runs) \in Nat /\ Len(runs) \in DOMAIN runs /\ Last(runs) = runs[Len(runs)]
    BY DEF Last
  <1>2. CASE Last(runs).type # "A_MEASUREMENT"
    <2> DEFINE b == <<Line("event", n, p), Line("cycles", n, p), Line("blank", n, p)>>
    <2>1. BlockOf(n, p) = b
      BY <1>2, BlockIs
    <2>2. /\ b[1] = Line("event", n, p) /\ b[2] = Line("cycles", n, p)
          /\ b[3] = Line("blank", n, p)
          /\ DOMAIN b = 1 .. 3 /\ b \in Seq(Lines)
      <3>1. \A w \in {"event", "cycles", "blank"} : Line(w, n, p) \in Lines
        BY <1>1, LineType
      <3> QED BY <3>1
    <2> HIDE DEF b
    <2>3. LineInv(runs, b, 1)
      BY <1>1, <2>2 DEF LineInv, ValuesAt, SameBlock, Line
    <2>4. LineInv(runs, b, 2)
      BY <1>1, <2>2 DEF LineInv, Line
    <2>5. LineInv(runs, b, 3)
      BY <1>1, <2>2 DEF LineInv, Line
    <2>6. \A x \in DOMAIN b : x = 1 \/ x = 2 \/ x = 3
      BY <2>2
    <2>7. \A x \in DOMAIN b : b[x].is # "TEST RUN"
      <3>1. \A w : Line(w, n, p).is = w
        BY DEF Line
      <3>2. b[1].is = "event" /\ b[2].is = "cycles" /\ b[3].is = "blank"
        BY <2>2, <3>1, Zenon
      <3> QED BY <2>6, <3>2
    <2> QED BY <2>1, <2>2, <2>3, <2>4, <2>5, <2>6, <2>7 DEF Complete, Blocks
  <1>3. CASE Last(runs).type = "A_MEASUREMENT"
    <2> DEFINE b == <<Line("label", n, p), Line("event", n, p), Line("cycles", n, p),
                      Line("blank", n, p)>>
    <2>1. BlockOf(n, p) = b
      BY <1>3, BlockIs
    <2>2. /\ b[1] = Line("label", n, p) /\ b[2] = Line("event", n, p)
          /\ b[3] = Line("cycles", n, p) /\ b[4] = Line("blank", n, p)
          /\ DOMAIN b = 1 .. 4 /\ b \in Seq(Lines)
      <3>1. \A w \in {"label", "event", "cycles", "blank"} : Line(w, n, p) \in Lines
        BY <1>1, LineType
      <3> QED BY <3>1
    <2> HIDE DEF b
    <2>3. ValuesAt(b, 2)
      BY <2>2 DEF ValuesAt, SameBlock, Line
    <2>4. LineInv(runs, b, 1)
      BY <1>1, <1>3, <2>2, <2>3 DEF LineInv, SameBlock, Line
    <2>5. LineInv(runs, b, 2)
      BY <1>1, <2>2, <2>3 DEF LineInv, Line
    <2>6. LineInv(runs, b, 3)
      BY <1>1, <2>2 DEF LineInv, Line
    <2>7. LineInv(runs, b, 4)
      BY <1>1, <2>2 DEF LineInv, Line
    <2>8. \A x \in DOMAIN b : x = 1 \/ x = 2 \/ x = 3 \/ x = 4
      BY <2>2
    <2>9. \A x \in DOMAIN b : b[x].is # "TEST RUN"
      <3>1. \A w : Line(w, n, p).is = w
        BY DEF Line
      <3>2. b[1].is = "label" /\ b[2].is = "event" /\ b[3].is = "cycles" /\ b[4].is = "blank"
        BY <2>2, <3>1, Zenon
      <3> QED BY <2>8, <3>2
    <2> QED BY <2>1, <2>2, <2>4, <2>5, <2>6, <2>7, <2>8, <2>9 DEF Complete, Blocks
  <1> QED BY <1>2, <1>3

\* The first line of a concatenation, and the lines of its second part.
LEMMA ConcatLines ==
  ASSUME NEW d \in Seq(Lines), NEW e \in Seq(Lines)
  PROVE  /\ d \o e \in Seq(Lines) /\ Len(d \o e) = Len(d) + Len(e)
         /\ Len(d) >= 1 => (d \o e)[1] = d[1]
         /\ \A y \in DOMAIN d : y \in DOMAIN (d \o e) /\ (d \o e)[y] = d[y]
         /\ \A y \in DOMAIN e : Len(d) + y \in DOMAIN (d \o e) /\ (d \o e)[Len(d) + y] = e[y]
  <1>1. Len(d) \in Nat /\ Len(e) \in Nat /\ DOMAIN d = 1 .. Len(d) /\ DOMAIN e = 1 .. Len(e)
    OBVIOUS
  <1>2. d \o e \in Seq(Lines) /\ Len(d \o e) = Len(d) + Len(e)
    OBVIOUS
  <1>3. DOMAIN (d \o e) = 1 .. Len(d) + Len(e)
    BY <1>2
  <1>4. \A y \in 1 .. Len(d) : (d \o e)[y] = d[y]
    OBVIOUS
  <1>5. \A y \in 1 .. Len(e) : (d \o e)[Len(d) + y] = e[y]
    OBVIOUS
  <1> QED BY <1>1, <1>2, <1>3, <1>4, <1>5

LEMMA BlocksConcat ==
  ASSUME NEW d, NEW e, Blocks(d), Blocks(e)
  PROVE  Blocks(d \o e) /\ d \in Seq(Lines) /\ e \in Seq(Lines)
  <1>1. /\ Complete(runs, d) /\ Complete(runs, e)
        /\ \A y \in DOMAIN d : d[y].is # "TEST RUN"
        /\ \A y \in DOMAIN e : e[y].is # "TEST RUN"
    BY DEF Blocks
  <1>2. d \in Seq(Lines) /\ e \in Seq(Lines)
    BY <1>1 DEF Complete
  <1>3. Complete(runs, d \o e)
    BY <1>1, CompleteConcat
  <1> DEFINE c == d \o e
  <1>4. /\ DOMAIN c = 1 .. Len(d) + Len(e)
        /\ \A y \in DOMAIN d : c[y] = d[y]
        /\ \A y \in DOMAIN e : c[Len(d) + y] = e[y]
        /\ DOMAIN d = 1 .. Len(d) /\ DOMAIN e = 1 .. Len(e) /\ Len(d) \in Nat /\ Len(e) \in Nat
    <2>1. /\ c \in Seq(Lines) /\ Len(c) = Len(d) + Len(e)
          /\ \A y \in DOMAIN d : c[y] = d[y]
          /\ \A y \in DOMAIN e : c[Len(d) + y] = e[y]
      BY <1>2, ConcatLines
    <2> HIDE DEF c
    <2> QED BY <1>2, <2>1
  <1> HIDE DEF c
  <1>5. ASSUME NEW y \in DOMAIN c PROVE c[y].is # "TEST RUN"
    <2>1. CASE y \in DOMAIN d
      BY <1>1, <1>4, <2>1
    <2>2. CASE y \notin DOMAIN d
      <3>1. y - Len(d) \in DOMAIN e /\ Len(d) + (y - Len(d)) = y
        BY <1>4, <2>2
      <3> QED BY <1>1, <1>4, <3>1
    <2> QED BY <2>1, <2>2
  <1>6. Complete(runs, c)
    BY <1>3 DEF c
  <1>7. Blocks(c)
    BY <1>5, <1>6 DEF Blocks
  <1> QED BY <1>2, <1>7 DEF c

\* The prints of all types of tests.
LEMMA PrintsIs ==
  ASSUME runs \in Seq(Keys), runs # <<>>, NEW t, t = Last(runs).type
  PROVE  /\ t = "PRODUCER_CONSUMER" =>
              Prints = (BlockOf(1, 1) \o BlockOf(2, 1)) \o (BlockOf(1, 2) \o BlockOf(2, 2))
         /\ t = "READER_WRITER" => Prints = BlockOf(1, 1) \o BlockOf(2, 1)
         /\ t = "A_MEASUREMENT" => Prints = (BlockOf(1, 1) \o BlockOf(2, 1)) \o BlockOf(3, 1)
         /\ t = "FLUSH" => Prints = ((<<>> \o <<>>) \o <<>>) \o <<>>
         /\ t \notin Headerless \cup {"PRODUCER_CONSUMER", "FLUSH"} =>
              Prints = (((<<>> \o <<>>) \o <<>>) \o <<>>) \o BlockOf(5, 1)
  <1>1. CASE t \in {"PRODUCER_CONSUMER", "READER_WRITER"}
    <2>1. Counters(t) = <<Measured, Measured>> /\ DOMAIN Counters(t) = 1 .. 2
      BY <1>1, CountersOf
    <2>2. \A p : PrintedAll(p) = FlattenSeq(<<BlockOf(1, p), BlockOf(2, p)>>)
      BY <2>1 DEF PrintedAll
    <2>3. \A p : Printed(p) = FlattenSeq(<<BlockOf(1, p), BlockOf(2, p)>>)
      <3> TAKE p
      <3>1. \A n \in 1 .. 2 : Counters(t)[n].events
        BY <2>1 DEF Measured
      <3>2. [n \in DOMAIN Counters(t) |-> IF Counters(t)[n].events THEN BlockOf(n, p) ELSE <<>>]
              = <<BlockOf(1, p), BlockOf(2, p)>>
        BY <2>1, <3>1
      <3> QED BY <3>2 DEF Printed
    <2>4. \A p : FlattenSeq(<<BlockOf(1, p), BlockOf(2, p)>>) = BlockOf(1, p) \o BlockOf(2, p)
      <3> TAKE p
      <3> DEFINE s == <<BlockOf(1, p), BlockOf(2, p)>>
      <3>1. Len(s) = 2 /\ s[1] = BlockOf(1, p) /\ s[2] = BlockOf(2, p)
        OBVIOUS
      <3> HIDE DEF s
      <3>2. FlattenSeq(s) = s[1] \o s[2]
        BY <3>1, Flatten2
      <3> QED BY <3>1, <3>2 DEF s
    <2>5. \A p : /\ PrintedAll(p) = BlockOf(1, p) \o BlockOf(2, p)
                 /\ Printed(p) = BlockOf(1, p) \o BlockOf(2, p)
      BY <2>2, <2>3, <2>4, Zenon
    <2>6. CASE t = "PRODUCER_CONSUMER"
      <3>1. Prints = PrintedAll(1) \o Printed(2)
        BY <2>6 DEF Prints, Headerless
      <3> QED BY <2>5, <2>6, <3>1 DEF Headerless
    <2>7. CASE t = "READER_WRITER"
      <3>1. Prints = PrintedAll(1)
        BY <2>7 DEF Prints, Headerless
      <3> QED BY <2>5, <2>7, <3>1 DEF Headerless
    <2> QED BY <1>1, <2>6, <2>7
  <1>2. CASE t = "A_MEASUREMENT"
    <2>1. Counters(t) = <<Measured, Measured, Measured>> /\ DOMAIN Counters(t) = 1 .. 3
      BY <1>2, CountersOf
    <2> DEFINE s == <<BlockOf(1, 1), BlockOf(2, 1), BlockOf(3, 1)>>
    <2>2. PrintedAll(1) = FlattenSeq(s)
      BY <2>1 DEF PrintedAll
    <2>3. Len(s) = 3 /\ s[1] = BlockOf(1, 1) /\ s[2] = BlockOf(2, 1) /\ s[3] = BlockOf(3, 1)
      OBVIOUS
    <2> HIDE DEF s
    <2>4. FlattenSeq(s) = (s[1] \o s[2]) \o s[3]
      BY <2>3, Flatten3
    <2>5. Prints = PrintedAll(1)
      BY <1>2 DEF Prints, Headerless
    <2> QED BY <1>2, <2>2, <2>3, <2>4, <2>5 DEF Headerless
  <1>3. CASE t = "FLUSH"
    <2>1. Counters(t) = <<Eventless, Eventless, Eventless, Eventless>>
          /\ DOMAIN Counters(t) = 1 .. 4
      BY <1>3, CountersOf
    <2> DEFINE s == <<<<>>, <<>>, <<>>, <<>>>>
    <2>2. \A n \in 1 .. 4 : ~ Counters(t)[n].events
      BY <2>1 DEF Eventless
    <2>3. [n \in DOMAIN Counters(t) |-> IF Counters(t)[n].events THEN BlockOf(n, 1) ELSE <<>>] = s
      BY <2>1, <2>2
    <2>4. Printed(1) = FlattenSeq(s)
      BY <2>3 DEF Printed
    <2>5. Len(s) = 4 /\ s[1] = <<>> /\ s[2] = <<>> /\ s[3] = <<>> /\ s[4] = <<>>
      OBVIOUS
    <2> HIDE DEF s
    <2>6. FlattenSeq(s) = ((s[1] \o s[2]) \o s[3]) \o s[4]
      BY <2>5, Flatten4
    <2>7. Prints = Printed(1)
      BY <1>3 DEF Prints, Headerless
    <2> QED BY <1>3, <2>4, <2>5, <2>6, <2>7 DEF Headerless
  <1>4. CASE t \notin Headerless \cup {"PRODUCER_CONSUMER", "FLUSH"}
    <2>1. Counters(t) = <<Eventless, Eventless, Eventless, Recipe, Measured>>
          /\ DOMAIN Counters(t) = 1 .. 5
      BY <1>4, CountersOf
    <2> DEFINE s == <<<<>>, <<>>, <<>>, <<>>, BlockOf(5, 1)>>
    <2>2. (\A n \in 1 .. 4 : ~ Counters(t)[n].events) /\ Counters(t)[5].events
      BY <2>1 DEF Eventless, Recipe, Measured
    <2>3. [n \in DOMAIN Counters(t) |-> IF Counters(t)[n].events THEN BlockOf(n, 1) ELSE <<>>] = s
      BY <2>1, <2>2
    <2>4. Printed(1) = FlattenSeq(s)
      BY <2>3 DEF Printed
    <2>5. Len(s) = 5 /\ s[1] = <<>> /\ s[2] = <<>> /\ s[3] = <<>> /\ s[4] = <<>>
          /\ s[5] = BlockOf(5, 1)
      OBVIOUS
    <2> HIDE DEF s
    <2>6. FlattenSeq(s) = (((s[1] \o s[2]) \o s[3]) \o s[4]) \o s[5]
      BY <2>5, Flatten5
    <2>7. Prints = Printed(1)
      BY <1>4 DEF Prints
    <2> QED BY <1>4, <2>4, <2>5, <2>6, <2>7 DEF Headerless
  <1> QED BY <1>1, <1>2, <1>3, <1>4 DEF Headerless

\* What the prints of the current run begin with, and what they hold.
LEMMA PrintsShape ==
  ASSUME runs \in Seq(Keys), runs # <<>>, NEW t, t = Last(runs).type
  PROVE  /\ Blocks(Prints) /\ Prints \in Seq(Lines)
         /\ t # "FLUSH" => Len(Prints) >= 1
         /\ t \notin Headerless \cup {"FLUSH"} =>
              Prints[1] = Line("event", Subject(Len(runs)), 1)
         /\ t = "READER_WRITER" => Prints[1] = Line("event", 1, 1)
         /\ t = "A_MEASUREMENT" =>
              /\ Prints[1] = Line("label", 1, 1)
              /\ \A n \in 1 .. 3 : \E y \in DOMAIN Prints : Prints[y] = Line("label", n, 1)
  <1>1. Blocks(Prints) => Prints \in Seq(Lines)
    BY DEF Blocks, Complete
  <1>2. Last(runs) = runs[Len(runs)]
    BY DEF Last
  <1>3. \A d, e : Blocks(d) /\ Blocks(e) =>
                    Blocks(d \o e) /\ d \in Seq(Lines) /\ e \in Seq(Lines)
    BY BlocksConcat
  <1>4. CASE t \in {"PRODUCER_CONSUMER", "READER_WRITER"}
    <2>1. Counters(t) = <<Measured, Measured>>
      BY <1>4, CountersOf
    <2>2. \A n \in 1 .. 2, p \in 1 .. 2 : Blocks(BlockOf(n, p))
      <3> TAKE n \in 1 .. 2, p \in 1 .. 2
      <3>1. Counters(t)[n] = Measured /\ n \in Nat /\ p \in Nat /\ t # "A_MEASUREMENT"
        BY <1>4, <2>1
      <3> QED BY <3>1, CompleteBlock
    <2>3. /\ Blocks(BlockOf(1, 1)) /\ Blocks(BlockOf(2, 1))
          /\ Blocks(BlockOf(1, 2)) /\ Blocks(BlockOf(2, 2))
      BY <2>2
    <2>4. BlockOf(1, 1)[1] = Line("event", 1, 1) /\ Len(BlockOf(1, 1)) = 3
      <3>1. BlockOf(1, 1) = <<Line("event", 1, 1), Line("cycles", 1, 1), Line("blank", 1, 1)>>
        BY <1>4, <2>1, BlockIs
      <3> QED BY <3>1
    <2> DEFINE d == BlockOf(1, 1) \o BlockOf(2, 1)
               e == BlockOf(1, 2) \o BlockOf(2, 2)
    <2>5. /\ Blocks(d) /\ Blocks(e) /\ Blocks(d \o e)
          /\ d \in Seq(Lines) /\ e \in Seq(Lines)
          /\ BlockOf(1, 1) \in Seq(Lines) /\ BlockOf(2, 1) \in Seq(Lines)
      BY <1>3, <2>3, Zenon
    <2>6. d[1] = Line("event", 1, 1) /\ Len(d) \in Nat /\ Len(d) >= 1
      <3>1. Len(BlockOf(2, 1)) \in Nat
        BY <2>5
      <3>2. Len(d) = Len(BlockOf(1, 1)) + Len(BlockOf(2, 1)) /\ d[1] = BlockOf(1, 1)[1]
        BY <2>4, <2>5, ConcatLines
      <3> QED BY <2>4, <3>1, <3>2
    <2> HIDE DEF d, e
    <2>7. (d \o e)[1] = Line("event", 1, 1) /\ Len(d \o e) >= 1
      <3>1. Len(e) \in Nat
        BY <2>5
      <3> QED BY <2>5, <2>6, <3>1, ConcatLines
    <2>8. CASE t = "PRODUCER_CONSUMER"
      <3>1. Prints = d \o e
        BY <2>8, PrintsIs DEF d, e
      <3>2. Subject(Len(runs)) = 1
        BY <1>2, <2>8 DEF Subject
      <3> QED BY <1>1, <2>5, <2>7, <2>8, <3>1, <3>2
    <2>9. CASE t = "READER_WRITER"
      <3>1. Prints = d
        BY <2>9, PrintsIs DEF d
      <3> QED BY <1>1, <2>5, <2>6, <2>9, <3>1 DEF Headerless
    <2> QED BY <1>4, <2>8, <2>9
  <1>5. CASE t = "A_MEASUREMENT"
    <2>1. Counters(t) = <<Measured, Measured, Measured>>
      BY <1>5, CountersOf
    <2>2. \A n \in 1 .. 3 : Blocks(BlockOf(n, 1))
      <3> TAKE n \in 1 .. 3
      <3>1. Counters(t)[n] = Measured /\ n \in Nat /\ 1 \in Nat
        BY <2>1
      <3> QED BY <3>1, CompleteBlock
    <2>3. \A n \in 1 .. 3 : BlockOf(n, 1)[1] = Line("label", n, 1) /\ Len(BlockOf(n, 1)) = 4
      <3> TAKE n \in 1 .. 3
      <3>1. Counters(t)[n] = Measured
        BY <2>1
      <3>2. BlockOf(n, 1) = <<Line("label", n, 1), Line("event", n, 1), Line("cycles", n, 1),
                              Line("blank", n, 1)>>
        BY <1>5, <3>1, BlockIs
      <3> QED BY <3>2
    <2> DEFINE b(n) == BlockOf(n, 1)
               d == b(1) \o b(2)
    <2>4. Blocks(b(1)) /\ Blocks(b(2)) /\ Blocks(b(3))
      BY <2>2
    <2>5. /\ b(1)[1] = Line("label", 1, 1) /\ Len(b(1)) = 4
          /\ b(2)[1] = Line("label", 2, 1) /\ Len(b(2)) = 4
          /\ b(3)[1] = Line("label", 3, 1) /\ Len(b(3)) = 4
      BY <2>3
    <2> HIDE DEF b
    <2>6. /\ Blocks(d) /\ Blocks(d \o b(3)) /\ d \in Seq(Lines)
          /\ b(1) \in Seq(Lines) /\ b(2) \in Seq(Lines) /\ b(3) \in Seq(Lines)
      BY <1>3, <2>4, Zenon
    <2>7. /\ 1 \in DOMAIN b(1) /\ 1 \in DOMAIN b(2) /\ 1 \in DOMAIN b(3)
      BY <2>5, <2>6
    <2>8. Len(d) = 8 /\ 1 \in DOMAIN d /\ d[1] = b(1)[1] /\ 5 \in DOMAIN d /\ d[5] = b(2)[1]
      <3>1. /\ Len(d) = Len(b(1)) + Len(b(2))
            /\ \A y \in DOMAIN b(1) : y \in DOMAIN d /\ d[y] = b(1)[y]
            /\ \A y \in DOMAIN b(2) : Len(b(1)) + y \in DOMAIN d /\ d[Len(b(1)) + y] = b(2)[y]
        BY <2>6, ConcatLines
      <3> HIDE DEF d
      <3>2. 4 + 1 \in DOMAIN d /\ d[4 + 1] = b(2)[1]
        BY <2>5, <2>7, <3>1
      <3>3. 4 + 1 = 5 /\ 4 + 4 = 8
        OBVIOUS
      <3>4. Len(d) = 8
        BY <2>5, <3>1, <3>3
      <3>5. 5 \in DOMAIN d /\ d[5] = b(2)[1]
        BY <3>2, <3>3, Zenon
      <3>6. 1 \in DOMAIN d /\ d[1] = b(1)[1]
        BY <2>7, <3>1
      <3> QED BY <3>4, <3>5, <3>6
    <2> HIDE DEF d
    <2> DEFINE f == d \o b(3)
    <2>9. /\ Len(f) = 12 /\ 1 \in DOMAIN f /\ f[1] = b(1)[1]
          /\ 5 \in DOMAIN f /\ f[5] = b(2)[1] /\ 9 \in DOMAIN f /\ f[9] = b(3)[1]
      <3>1. /\ Len(f) = Len(d) + Len(b(3))
            /\ \A y \in DOMAIN d : y \in DOMAIN f /\ f[y] = d[y]
            /\ \A y \in DOMAIN b(3) : Len(d) + y \in DOMAIN f /\ f[Len(d) + y] = b(3)[y]
        BY <2>6, ConcatLines
      <3> HIDE DEF f
      <3>2. 8 + 1 \in DOMAIN f /\ f[8 + 1] = b(3)[1]
        BY <2>7, <2>8, <3>1
      <3>3. 8 + 1 = 9 /\ 8 + 4 = 12
        OBVIOUS
      <3>4. Len(f) = 12
        BY <2>5, <2>8, <3>1, <3>3
      <3>5. 9 \in DOMAIN f /\ f[9] = b(3)[1]
        BY <3>2, <3>3, Zenon
      <3> QED BY <2>8, <3>1, <3>4, <3>5
    <2>10. Prints = f
      BY <1>5, PrintsIs DEF d, b
    <2> HIDE DEF f
    <2>11. \A n \in 1 .. 3 : \E y \in DOMAIN f : f[y] = Line("label", n, 1)
      <3> TAKE n \in 1 .. 3
      <3>1. n = 1 \/ n = 2 \/ n = 3
        OBVIOUS
      <3> QED BY <2>5, <2>9, <3>1
    <2>12. Blocks(f)
      BY <2>6 DEF f
    <2>13. Len(f) >= 1 /\ f[1] = Line("label", 1, 1)
      BY <2>5, <2>9
    <2> QED BY <1>1, <1>5, <2>10, <2>11, <2>12, <2>13 DEF Headerless
  <1>6. CASE t = "FLUSH"
    <2>1. Prints = <<>>
      <3>1. ((<<>> \o <<>>) \o <<>>) \o <<>> = <<>>
        OBVIOUS
      <3> QED BY <1>6, <3>1, PrintsIs
    <2>2. Blocks(<<>>)
      BY CompleteNothing DEF Blocks
    <2> QED BY <1>1, <1>6, <2>1, <2>2 DEF Headerless
  <1>7. CASE t \notin Headerless \cup {"PRODUCER_CONSUMER", "FLUSH"}
    <2>1. Counters(t) = <<Eventless, Eventless, Eventless, Recipe, Measured>>
      BY <1>7, CountersOf
    <2>2. Counters(t)[5] = Measured /\ Len(Counters(t)) = 5 /\ 5 \in Nat /\ 1 \in Nat
      BY <2>1
    <2>3. Blocks(BlockOf(5, 1))
      BY <1>7, <2>2, CompleteBlock DEF Headerless
    <2>4. BlockOf(5, 1) = <<Line("event", 5, 1), Line("cycles", 5, 1), Line("blank", 5, 1)>>
      BY <1>7, <2>2, BlockIs DEF Headerless
    <2>5. Prints = BlockOf(5, 1)
      <3> DEFINE b == BlockOf(5, 1)
      <3>1. b \in Seq(Lines)
        BY <2>3 DEF Blocks, Complete
      <3>2. Prints = (((<<>> \o <<>>) \o <<>>) \o <<>>) \o b
        BY <1>7, PrintsIs
      <3> HIDE DEF b
      <3>3. (((<<>> \o <<>>) \o <<>>) \o <<>>) \o b = b
        BY <3>1
      <3> QED BY <3>2, <3>3 DEF b
    <2>6. Subject(Len(runs)) = 5
      BY <1>2, <1>7, <2>2 DEF Subject
    <2>7. Prints[1] = Line("event", 5, 1) /\ Len(Prints) = 3
      BY <2>4, <2>5
    <2> QED BY <1>1, <1>7, <2>3, <2>5, <2>6, <2>7 DEF Headerless
  <1> QED BY <1>4, <1>5, <1>6, <1>7 DEF Headerless

-----------------------------------------------------------------------------

(***************************************************************************)
(* Running tests.                                                          *)
(***************************************************************************)

\* Readers of the file leave it alone.
LEMMA FileKeeps ==
  ASSUME FileInv, UNCHANGED <<dump, runs, aborted>>,
         state' = "running" <=> state = "running",
         state' \in {"idle", "running", "seek", "block", "done"} \cup Errors
  PROVE  FileInv'
  <1>1. \A r : Unwritten(r)' <=> Unwritten(r)
    BY DEF Unwritten
  <1>2. RunsInv'
    BY DEF FileInv, RunsInv, Errors
  <1>3. WrittenInv'
    <2>1. \A r, n : (Headed(r)' <=> Headed(r)) /\ (Labelled(r, n)' <=> Labelled(r, n))
      BY DEF Headed, Labelled
    <2> QED BY <1>1, <2>1 DEF FileInv, WrittenInv
  <1>4. \A r : Subject(r)' = Subject(r)
    BY DEF Subject
  <1>5. \A h, r : Strayed(h, r)' <=> Strayed(h, r)
    BY DEF Strayed
  <1>6. \A x, h : FollowedInv(x, h)' <=> FollowedInv(x, h)
    BY <1>1, <1>4, <1>5 DEF FollowedInv
  <1>7. FirstBlockInv'
    BY <1>6 DEF FileInv, FirstBlockInv
  <1> QED BY <1>2, <1>3, <1>7 DEF FileInv

\* More runs, and more of them aborted, make no difference to what a complete file is
\* and to a block that has strayed.
LEMMA MoreRuns ==
  ASSUME runs \in Seq(Keys), NEW k \in Keys, NEW d, Complete(runs, d)
  PROVE  Complete(Append(runs, k), d)
  <1>1. DOMAIN runs \subseteq DOMAIN Append(runs, k)
        /\ \A r \in DOMAIN runs : Append(runs, k)[r] = runs[r]
    OBVIOUS
  <1>2. \A x \in DOMAIN d : LineInv(Append(runs, k), d, x)
    BY <1>1 DEF Complete, LineInv
  <1> QED BY <1>2 DEF Complete

LEMMA StrayedKeeps ==
  ASSUME runs \in Seq(Keys), runs' = runs \/ \E k \in Keys : runs' = Append(runs, k),
         aborted \subseteq aborted', aborted \subseteq DOMAIN runs,
         NEW h \in DOMAIN runs, NEW r \in DOMAIN runs, Strayed(h, r)
  PROVE  Strayed(h, r)'
  <1>1. \A g \in DOMAIN runs : runs'[g] = runs[g]
    OBVIOUS
  <1>2. h \in Nat /\ r \in Nat /\ \A g \in h + 1 .. r - 1 : g \in DOMAIN runs
    OBVIOUS
  <1> QED BY <1>1, <1>2 DEF Strayed

\* A header is complete.
LEMMA BeginWrites ==
  ASSUME FileInv, NEW k \in Keys, Begin(k)
  PROVE  FileInv'
  <1> USE DEF runVars, parserVars
  <1>a. PICK n : n = Len(runs) + 1
    OBVIOUS
  <1>b. PICK L : L = Len(dump)
    OBVIOUS
  <1> DEFINE head == [l \in 1 .. 4 |-> [is |-> Header[l], run |-> n, counter |-> 0, print |-> 0]]
  <1>1. /\ runs \in Seq(Keys) /\ aborted \subseteq DOMAIN runs /\ Complete(runs, dump)
        /\ runs' = Append(runs, k) /\ aborted' = aborted /\ state = "idle" /\ state' = "running"
    BY DEF FileInv, RunsInv, Begin
  <1>2. /\ Len(runs) \in Nat /\ DOMAIN runs = 1 .. Len(runs) /\ n \in Nat
        /\ runs' \in Seq(Keys) /\ Len(runs') = n /\ DOMAIN runs' = 1 .. n
        /\ runs'[n] = k /\ \A r \in DOMAIN runs : r \in DOMAIN runs' /\ r # n /\ runs'[r] = runs[r]
        /\ runs' # <<>>
    BY <1>1, <1>a
  <1>3. dump \in Seq(Lines) /\ L \in Nat /\ DOMAIN dump = 1 .. L
    BY <1>1, <1>b DEF Complete
  <1>4. dump' = IF k.type \in Headerless THEN dump ELSE dump \o head
    BY <1>2 DEF Begin
  <1>5. /\ head[1].is = "TEST RUN" /\ head[2].is = "size" /\ head[3].is = "type"
        /\ head[4].is = "place"
        /\ \A l \in 1 .. 4 : head[l].run = n /\ head[l] \in Lines
        /\ DOMAIN head = 1 .. 4 /\ head \in Seq(Lines) /\ Len(head) = 4
    <2>1. /\ Header[1] = "TEST RUN" /\ Header[2] = "size" /\ Header[3] = "type"
          /\ Header[4] = "place"
      BY DEF Header
    <2>2. \A l \in 1 .. 4 : head[l] \in Lines
      <3> TAKE l \in 1 .. 4
      <3>1. l = 1 \/ l = 2 \/ l = 3 \/ l = 4
        OBVIOUS
      <3>2. Header[l] \in ToSet(Header)
        BY <2>1, <3>1, HeaderWords
      <3> QED BY <1>2, <3>2 DEF Lines
    <2>3. head = <<head[1], head[2], head[3], head[4]>>
      OBVIOUS
    <2>4. head \in Seq(Lines) /\ Len(head) = 4
      <3> HIDE DEF head
      <3>1. head[1] \in Lines /\ head[2] \in Lines /\ head[3] \in Lines /\ head[4] \in Lines
        BY <2>2
      <3> DEFINE a1 == head[1]
                 a2 == head[2]
                 a3 == head[3]
                 a4 == head[4]
      <3>2. a1 \in Lines /\ a2 \in Lines /\ a3 \in Lines /\ a4 \in Lines
        BY <3>1
      <3> HIDE DEF a1, a2, a3, a4
      <3>3. <<a1, a2, a3, a4>> \in Seq(Lines) /\ Len(<<a1, a2, a3, a4>>) = 4
        BY <3>2
      <3> QED BY <2>3, <3>3 DEF a1, a2, a3, a4
    <2>5. \A l \in 1 .. 4 : head[l].run = n
      OBVIOUS
    <2>6. DOMAIN head = 1 .. 4
      OBVIOUS
    <2>7. head[1].is = Header[1] /\ head[2].is = Header[2] /\ head[3].is = Header[3]
          /\ head[4].is = Header[4]
      OBVIOUS
    <2> HIDE DEF head
    <2> QED BY <2>1, <2>2, <2>4, <2>5, <2>6, <2>7
  <1> HIDE DEF head
  <1>5a. DOMAIN head = 1 .. 4
    BY <1>5, Zenon
  <1>5b. \A l \in 1 .. 4 : head[l].run = n
    BY <1>5, Zenon
  <1>5c. head \in Seq(Lines) /\ Len(head) = 4
    BY <1>5, Zenon
  <1>5d. /\ head[1].is = "TEST RUN" /\ head[2].is = "size" /\ head[3].is = "type"
         /\ head[4].is = "place"
    BY <1>5, Zenon
  <1>6. k.type \notin Headerless => Complete(runs', head)
    <2> SUFFICES ASSUME k.type \notin Headerless PROVE Complete(runs', head)
      OBVIOUS
    <2>1. \A l \in 1 .. 4 : head[l].is \in ToSet(Header) /\ head[l].is \notin
            {"label", "event", "cycles", "blank"} /\ (head[l].is = "TEST RUN" <=> l = 1)
      <3>1. \A l \in 1 .. 4 : l = 1 \/ l = 2 \/ l = 3 \/ l = 4
        OBVIOUS
      <3> QED BY <1>5d, <3>1, HeaderWords
    <2>2. HeaderAt(head, 1)
      <3>1. 1 + 1 = 2 /\ 1 + 2 = 3 /\ 1 + 3 = 4
        OBVIOUS
      <3>2. 4 \in DOMAIN head
        BY <1>5a
      <3> QED BY <1>5d, <3>1, <3>2, Zenon DEF HeaderAt
    <2>3. ASSUME NEW l \in 1 .. 4 PROVE LineInv(runs', head, l)
      <3>1. head[l].run = n /\ n \in DOMAIN runs' /\ runs'[n].type \notin Headerless
        BY <1>2, <1>5b, <1>a
      <3>2. head[l].is = "TEST RUN" => HeaderAt(head, l)
        BY <2>1, <2>2
      <3> QED BY <2>1, <3>1, <3>2 DEF LineInv
    <2> QED BY <1>5a, <1>5c, <2>3 DEF Complete
  <1>7. Complete(runs', dump) /\ Complete(runs', dump')
    <2>1. Complete(runs', dump)
      BY <1>1, MoreRuns
    <2>2. k.type \notin Headerless => Complete(runs', dump \o head)
      BY <1>6, <2>1, CompleteConcat
    <2> QED BY <1>4, <2>1, <2>2
  <1>8. RunsInv'
    BY <1>1, <1>2, <1>7 DEF RunsInv
  <1>8a. /\ k.type \in Headerless => dump' = dump
         /\ k.type \notin Headerless =>
              /\ DOMAIN dump' = 1 .. L + 4
              /\ \A l \in 1 .. 4 : dump'[L + l] = head[l]
         /\ \A x \in DOMAIN dump : x \in DOMAIN dump' /\ dump'[x] = dump[x]
    <2>1. CASE k.type \in Headerless
      BY <1>4, <2>1
    <2>2. CASE k.type \notin Headerless
      <3> DEFINE e == dump \o head
      <3>1. /\ e \in Seq(Lines) /\ Len(e) = L + 4
            /\ \A y \in DOMAIN dump : y \in DOMAIN e /\ e[y] = dump[y]
            /\ \A y \in DOMAIN head : e[L + y] = head[y]
        <4>1. /\ e \in Seq(Lines) /\ Len(e) = Len(dump) + Len(head)
              /\ \A y \in DOMAIN dump : y \in DOMAIN e /\ e[y] = dump[y]
              /\ \A y \in DOMAIN head : Len(dump) + y \in DOMAIN e /\ e[Len(dump) + y] = head[y]
          BY <1>3, <1>5c, ConcatLines, Zenon
        <4> HIDE DEF e
        <4> QED BY <1>b, <1>5c, <4>1
      <3> HIDE DEF e
      <3>2. DOMAIN e = 1 .. L + 4
        BY <3>1
      <3>3. dump' = e
        BY <1>4, <2>2 DEF e
      <3> QED BY <1>5a, <2>2, <3>1, <3>2, <3>3
    <2> QED BY <2>1, <2>2
  <1>10. \A r \in DOMAIN runs : Unwritten(r)' <=> Unwritten(r)
    BY <1>1, <1>2 DEF Unwritten
  <1>11. Unwritten(n)'
    BY <1>1, <1>2 DEF Unwritten
  <1>12. WrittenInv'
    <2>0. /\ \A r : Headed(r) => Headed(r)'
          /\ \A r, m : Labelled(r, m) => Labelled(r, m)'
      BY <1>8a DEF Headed, Labelled
    <2> SUFFICES ASSUME NEW r \in DOMAIN runs'
                 PROVE  /\ runs'[r].type \notin Headerless => Headed(r)'
                        /\ runs'[r].type = "A_MEASUREMENT" /\ ~ Unwritten(r)' =>
                             \A m \in 1 .. 3 : Labelled(r, m)'
      BY DEF WrittenInv
    <2>1. CASE r \in DOMAIN runs
      BY <1>2, <1>10, <2>0, <2>1 DEF FileInv, WrittenInv
    <2>2. CASE r = n
      <3>1. k.type \notin Headerless =>
              L + 1 \in DOMAIN dump' /\ dump'[L + 1].is = "TEST RUN" /\ dump'[L + 1].run = n
        <4>1. 1 \in 1 .. 4 /\ L + 1 \in 1 .. L + 4
          BY <1>3
        <4> QED BY <1>5b, <1>5d, <1>8a, <4>1
      <3>2. k.type \notin Headerless => Headed(n)'
        BY <3>1 DEF Headed
      <3> QED BY <1>2, <1>11, <2>2, <3>2 DEF Headerless
    <2>3. r \in DOMAIN runs \/ r = n
      BY <1>2, <1>a
    <2> QED BY <2>1, <2>2, <2>3
  <1>13. ASSUME NoFlush, NEW x \in DOMAIN dump', dump'[x].is = "TEST RUN"
         PROVE  FollowedInv(x, dump[x].run)'
    <2>1. CASE x \in DOMAIN dump
      <3>0. PICK h : h = dump[x].run
        OBVIOUS
      <3>1. h \in DOMAIN runs /\ HeaderAt(dump, x) /\ dump'[x].run = h /\ dump[x].is = "TEST RUN"
        BY <1>1, <1>8a, <1>13, <2>1, <3>0 DEF Complete, LineInv
      <3>2. FollowedInv(x, h)
        BY <1>13, <2>1, <3>0, <3>1 DEF FileInv, FirstBlockInv
      <3>3. Subject(h)' = Subject(h)
        BY <1>2, <3>1 DEF Subject
      <3>4. /\ x + 3 \in DOMAIN dump /\ x \in Nat /\ h \in 1 .. Len(runs) /\ h # Len(runs')
            /\ Unwritten(h)' <=> Unwritten(h)
        <4>1. x + 3 \in DOMAIN dump
          BY <3>1 DEF HeaderAt
        <4>2. x \in Nat
          BY <1>3, <2>1
        <4> QED BY <1>2, <1>10, <3>1, <4>1, <4>2
      <3>5. CASE x + 4 \in DOMAIN dump
        <4>0. PICK r : r = dump[x + 4].run
          OBVIOUS
        <4>1. x + 4 \in DOMAIN dump' /\ dump'[x + 4] = dump[x + 4] /\ r \in DOMAIN runs
          BY <1>1, <1>8a, <3>5, <4>0 DEF Complete, LineInv
        <4>2. Strayed(h, r) => Strayed(h, r)'
          BY <1>1, <3>1, <4>1, StrayedKeeps
        <4>3. Strayed(h, dump[x + 4].run)' <=> Strayed(h, r)'
          BY <4>0, <4>1 DEF Strayed
        <4>4. FollowedInv(x, h)'
          BY <3>2, <3>3, <3>4, <3>5, <4>0, <4>1, <4>2, <4>3 DEF FollowedInv
        <4> QED BY <3>0, <3>1, <4>4 DEF FollowedInv
      <3>6. CASE x + 4 \notin DOMAIN dump
        <4>1. x + 4 = L + 1
          BY <1>3, <3>4, <3>6
        <4>2. \A g \in h .. Len(runs) : Unwritten(g) /\ (g > h => runs[g].type \in Headerless)
          BY <3>2, <3>6 DEF FollowedInv
        <4>3. Unwritten(h)'
          <5>1. h \in h .. Len(runs)
            BY <1>2, <3>4
          <5> QED BY <3>4, <4>2, <5>1
        <4>4. x + 4 \in DOMAIN dump' => dump'[x + 4].is = "TEST RUN"
          <5>1. x + 4 \in DOMAIN dump' => k.type \notin Headerless
            BY <1>8a, <3>6
          <5>2. 1 \in 1 .. 4
            OBVIOUS
          <5> QED BY <1>5d, <1>8a, <4>1, <5>1, <5>2
        <4>5. x + 4 \notin DOMAIN dump' => k.type \in Headerless
          BY <1>3, <1>8a, <4>1
        <4>6. ASSUME k.type \in Headerless, NEW g \in h .. n
              PROVE  Unwritten(g)' /\ (g > h => runs'[g].type \in Headerless)
          <5>1. CASE g = n
            BY <1>2, <1>11, <4>6, <5>1
          <5>2. CASE g # n
            <6>1. g \in h .. Len(runs) /\ g \in DOMAIN runs
              BY <1>2, <1>a, <3>4, <5>2
            <6> QED BY <1>2, <1>10, <4>2, <6>1
          <5> QED BY <5>1, <5>2
        <4>7. FollowedInv(x, h)'
          BY <1>2, <3>1, <3>4, <4>3, <4>4, <4>5, <4>6 DEF FollowedInv
        <4> QED BY <3>0, <3>1, <4>7 DEF FollowedInv
      <3> QED BY <3>5, <3>6
    <2>2. CASE x \notin DOMAIN dump
      <3>1. k.type \notin Headerless /\ x \in L + 1 .. L + 4
        <4>1. k.type \notin Headerless
          BY <1>8a, <1>13, <2>2
        <4>2. x \in 1 .. L + 4 /\ ~ x \in 1 .. L
          BY <1>3, <1>8a, <1>13, <2>2, <4>1
        <4> QED BY <1>3, <4>1, <4>2
      <3>2. x = L + 1
        <4>1. PICK l \in 1 .. 4 : x = L + l
          <5>1. x - L \in 1 .. 4 /\ x = L + (x - L)
            BY <1>3, <3>1
          <5> QED BY <5>1
        <4>2. head[l].is = "TEST RUN"
          BY <1>8a, <1>13, <3>1, <4>1
        <4>3. l = 1 \/ l = 2 \/ l = 3 \/ l = 4
          OBVIOUS
        <4> QED BY <1>5d, <4>1, <4>2, <4>3
      <3>3. dump'[x].run = n /\ x + 4 \notin DOMAIN dump'
        <4>1. dump'[L + 1] = head[1]
          BY <1>8a, <3>1
        <4>2. x + 4 \notin 1 .. L + 4
          BY <1>3, <3>2
        <4>3. head[1].run = n
          BY <1>5b
        <4>4. DOMAIN dump' = 1 .. L + 4
          BY <1>8a, <3>1
        <4> QED BY <3>2, <4>1, <4>2, <4>3, <4>4
      <3>4. \A g \in n .. Len(runs') : g = n
        BY <1>2
      <3> QED BY <1>2, <1>11, <3>3, <3>4 DEF FollowedInv
    <2> QED BY <2>1, <2>2
  <1>14. FirstBlockInv'
    BY <1>13 DEF FirstBlockInv
  <1> QED BY <1>8, <1>12, <1>14 DEF FileInv

\* An aborted run is as little written as it was before.
LEMMA AbortWrites ==
  ASSUME FileInv, Abort
  PROVE  FileInv'
  <1> USE DEF parserVars
  <1>1. /\ runs \in Seq(Keys) /\ aborted \subseteq DOMAIN runs /\ Complete(runs, dump)
        /\ runs # <<>> /\ state = "running" /\ state' = "idle"
        /\ runs' = runs /\ dump' = dump /\ aborted' = aborted \cup {Len(runs)}
    BY DEF FileInv, RunsInv, Abort
  <1>2. Len(runs) \in DOMAIN runs
    BY <1>1
  <1>3. RunsInv'
    BY <1>1, <1>2 DEF RunsInv
  <1>4. \A r : Unwritten(r)' <=> Unwritten(r)
    BY <1>1 DEF Unwritten
  <1>5. \A r, n : /\ Headed(r)' <=> Headed(r)
                  /\ Labelled(r, n)' <=> Labelled(r, n)
                  /\ Subject(r)' = Subject(r)
    BY <1>1 DEF Headed, Labelled, Subject
  <1>6. WrittenInv'
    BY <1>1, <1>4, <1>5 DEF FileInv, WrittenInv
  <1>7. \A h, r : Strayed(h, r) => Strayed(h, r)'
    BY <1>1 DEF Strayed
  <1>8. \A x, h : FollowedInv(x, h) => FollowedInv(x, h)'
    BY <1>1, <1>4, <1>5, <1>7 DEF FollowedInv
  <1>9. FirstBlockInv'
    BY <1>1, <1>8 DEF FileInv, FirstBlockInv
  <1> QED BY <1>3, <1>6, <1>9 DEF FileInv

\* A run that ends is the first to print behind its header, or behind one whose run was
\* aborted.
LEMMA PrintsWritten ==
  ASSUME FileInv, WriteBlocks
  PROVE  FileInv'
  <1> USE DEF runVars, parserVars
  <1>1. /\ runs \in Seq(Keys) /\ aborted \subseteq DOMAIN runs /\ Complete(runs, dump)
        /\ runs # <<>> /\ Len(runs) \notin aborted /\ state = "running" /\ state' = "idle"
        /\ runs' = runs /\ aborted' = aborted /\ dump' = dump \o Prints
    BY DEF FileInv, RunsInv, WriteBlocks
  <1>2. PICK n : n = Len(runs)
    OBVIOUS
  <1>3. PICK t : t = runs[n].type
    OBVIOUS
  <1>4. n \in DOMAIN runs /\ n \in Nat /\ DOMAIN runs = 1 .. n /\ t = Last(runs).type
    BY <1>1, <1>2, <1>3 DEF Last
  <1> DEFINE W == Prints
  <1>5. /\ Blocks(W) /\ W \in Seq(Lines)
        /\ t # "FLUSH" => Len(W) >= 1
        /\ t \notin Headerless \cup {"FLUSH"} => W[1] = Line("event", Subject(n), 1)
        /\ t = "READER_WRITER" => W[1] = Line("event", 1, 1)
        /\ t = "A_MEASUREMENT" =>
             /\ W[1] = Line("label", 1, 1)
             /\ \A c \in 1 .. 3 : \E y \in DOMAIN W : W[y] = Line("label", c, 1)
    BY <1>1, <1>2, <1>4, PrintsShape
  <1> HIDE DEF W
  <1>6. PICK L : L = Len(dump)
    OBVIOUS
  <1>7. dump \in Seq(Lines) /\ L \in Nat /\ DOMAIN dump = 1 .. L
    BY <1>1, <1>6 DEF Complete
  <1>8. PICK e : e = dump \o W
    OBVIOUS
  <1>9. dump' = e /\ Complete(runs, e)
    <2>1. Complete(runs, W) /\ Complete(runs, dump)
      BY <1>1, <1>5 DEF Blocks
    <2>2. Complete(runs, dump \o W)
      BY <2>1, CompleteConcat
    <2> QED BY <1>1, <1>8, <2>2 DEF W
  <1>10. /\ \A y \in DOMAIN dump : y \in DOMAIN e /\ e[y] = dump[y]
         /\ \A y \in DOMAIN W : L + y \in DOMAIN e /\ e[L + y] = W[y]
    BY <1>5, <1>6, <1>7, <1>8, ConcatLines
  <1>11. \A c, p, w : /\ Line(w, c, p).is = w /\ Line(w, c, p).run = n
                      /\ Line(w, c, p).counter = c /\ Line(w, c, p).print = p
    BY <1>2 DEF Line
  <1>12. RunsInv'
    BY <1>1, <1>9 DEF RunsInv
  <1>13. \A r : Unwritten(r)' <=> r \in aborted
    BY <1>1 DEF Unwritten
  <1>14. \A r : Unwritten(r) <=> r \in aborted \/ r = n
    BY <1>1, <1>2 DEF Unwritten
  <1>15. \A r : Subject(r)' = Subject(r)
    BY <1>1 DEF Subject
  <1>16. \A h, r : Strayed(h, r)' <=> Strayed(h, r)
    BY <1>1 DEF Strayed
  <1>17. WrittenInv'
    <2>1. /\ \A r : Headed(r) => Headed(r)'
          /\ \A r, m : Labelled(r, m) => Labelled(r, m)'
      BY <1>9, <1>10 DEF Headed, Labelled
    <2>2. ASSUME t = "A_MEASUREMENT", NEW c \in 1 .. 3 PROVE Labelled(n, c)'
      <3>1. PICK y \in DOMAIN W : W[y] = Line("label", c, 1)
        BY <1>5, <2>2
      <3>2. L + y \in DOMAIN dump' /\ dump'[L + y] = Line("label", c, 1)
        BY <1>9, <1>10, <3>1
      <3> QED BY <1>11, <3>2 DEF Labelled
    <2>3. ASSUME NEW r \in DOMAIN runs
          PROVE  /\ runs[r].type \notin Headerless => Headed(r)'
                 /\ runs[r].type = "A_MEASUREMENT" /\ r \notin aborted =>
                      \A c \in 1 .. 3 : Labelled(r, c)'
      BY <1>3, <1>14, <2>1, <2>2 DEF FileInv, WrittenInv
    <2> QED BY <1>1, <1>13, <2>3 DEF WrittenInv
  <1>18. ASSUME NoFlush, NEW x \in DOMAIN dump', dump'[x].is = "TEST RUN"
         PROVE  FollowedInv(x, dump[x].run)' /\ dump'[x].run = dump[x].run
    <2>1. x \in DOMAIN dump /\ dump'[x] = dump[x]
      <3>1. SUFFICES x \in DOMAIN dump
        BY <1>9, <1>10
      <3>2. SUFFICES ASSUME x \notin DOMAIN dump PROVE FALSE
        OBVIOUS
      <3>3. DOMAIN e = 1 .. L + Len(W) /\ DOMAIN W = 1 .. Len(W) /\ Len(W) \in Nat
        <4>1. e \in Seq(Lines) /\ Len(e) = L + Len(W)
          BY <1>5, <1>6, <1>7, <1>8, ConcatLines
        <4> QED BY <1>5, <4>1
      <3>4. x - L \in DOMAIN W /\ L + (x - L) = x
        <4>1. x \in 1 .. L + Len(W)
          BY <1>9, <1>18, <3>3
        <4>2. x \notin 1 .. L
          BY <1>7, <3>2
        <4> QED BY <1>7, <3>3, <4>1, <4>2
      <3>5. W[x - L].is = "TEST RUN"
        BY <1>9, <1>10, <1>18, <3>4
      <3> QED BY <1>5, <3>4, <3>5 DEF Blocks
    <2>2. PICK h : h = dump[x].run
      OBVIOUS
    <2>3. /\ h \in DOMAIN runs /\ x + 3 \in DOMAIN dump /\ runs[h].type \notin Headerless
          /\ dump[x].is = "TEST RUN" /\ x \in Nat
      <3>1. LineInv(runs, dump, x) /\ dump[x].is = "TEST RUN"
        BY <1>1, <1>18, <2>1 DEF Complete
      <3>2. x \in Nat
        BY <1>7, <2>1
      <3> QED BY <2>2, <3>1, <3>2 DEF LineInv, HeaderAt
    <2>4. FollowedInv(x, h)
      BY <1>18, <2>1, <2>2, <2>3 DEF FileInv, FirstBlockInv
    <2>5. t # "FLUSH" /\ Len(W) >= 1 /\ 1 \in DOMAIN W
      <3>1. runs[n] \in Keys
        BY <1>1, <1>4
      <3>2. t # "FLUSH"
        BY <1>3, <1>18, <3>1 DEF NoFlush
      <3> QED BY <1>5, <3>2
    <2>6. CASE x + 4 \in DOMAIN dump
      <3>1. x + 4 \in DOMAIN dump' /\ dump'[x + 4] = dump[x + 4] /\ h # n
        BY <1>1, <1>2, <1>9, <1>10, <2>4, <2>6 DEF FollowedInv
      <3>2. FollowedInv(x, h)'
        BY <1>1, <1>13, <1>14, <1>15, <1>16, <2>4, <2>6, <3>1 DEF FollowedInv
      <3> QED BY <2>1, <2>2, <3>2 DEF FollowedInv
    <2>7. CASE x + 4 \notin DOMAIN dump
      <3>1. x + 4 = L + 1
        <4>1. x \in Nat /\ x + 3 \in 1 .. L /\ x + 4 \notin 1 .. L
          BY <1>7, <2>3, <2>7
        <4> QED BY <1>7, <4>1
      <3>2. x + 4 \in DOMAIN dump' /\ dump'[x + 4] = W[1]
        BY <1>9, <1>10, <2>5, <3>1
      <3>3. \A g \in h .. n : Unwritten(g) /\ (g > h => runs[g].type \in Headerless)
        BY <1>2, <2>4, <2>7 DEF FollowedInv
      <3>4. CASE h = n
        <4>1. W[1] = Line("event", Subject(n), 1)
          BY <1>3, <1>5, <2>3, <2>5, <3>4
        <4>2. dump'[x + 4].is = "event" /\ dump'[x + 4].run = h /\ dump'[x + 4].print = 1
              /\ dump'[x + 4].counter = Subject(h)'
          BY <1>11, <1>15, <3>2, <3>4, <4>1
        <4>3. FollowedInv(x, h)'
          BY <1>1, <3>2, <4>2 DEF FollowedInv
        <4> QED BY <2>1, <2>2, <4>3 DEF FollowedInv
      <3>5. CASE h # n
        <4>1. h \in h .. n /\ n \in h .. n /\ h < n /\ h \in Nat
          <5>1. h \in 1 .. n
            BY <1>4, <2>3
          <5> QED BY <1>4, <3>5, <5>1
        <4>2. h \in aborted /\ t \in Headerless
          BY <1>3, <1>14, <3>3, <3>5, <4>1
        <4>3. \A g \in h + 1 .. n - 1 : g \in aborted /\ runs[g].type \in Headerless
          <5> TAKE g \in h + 1 .. n - 1
          <5>1. g \in h .. n /\ g > h /\ g # n
            BY <1>4, <4>1
          <5> QED BY <1>14, <3>3, <5>1
        <4>4. CASE t = "A_MEASUREMENT"
          <5>1. dump'[x + 4].is = "label"
            BY <1>5, <1>11, <3>2, <4>4
          <5>2. FollowedInv(x, h)'
            BY <1>1, <1>13, <3>2, <4>2, <5>1 DEF FollowedInv
          <5> QED BY <2>1, <2>2, <5>2 DEF FollowedInv
        <4>5. CASE t = "READER_WRITER"
          <5>1. dump'[x + 4].is = "event" /\ dump'[x + 4].run = n
                /\ dump'[x + 4].print = 1 /\ dump'[x + 4].counter = 1
            BY <1>5, <1>11, <3>2, <4>5
          <5>2. Strayed(h, n)
            BY <1>3, <2>3, <4>1, <4>2, <4>3, <4>5 DEF Strayed
          <5>3. Strayed(h, dump[x + 4].run)'
            BY <1>1, <5>1, <5>2 DEF Strayed
          <5>4. FollowedInv(x, h)'
            BY <1>1, <1>13, <3>2, <4>2, <5>1, <5>3 DEF FollowedInv
          <5> QED BY <2>1, <2>2, <5>4 DEF FollowedInv
        <4> QED BY <4>2, <4>4, <4>5 DEF Headerless
      <3> QED BY <3>4, <3>5
    <2> QED BY <2>1, <2>6, <2>7
  <1>19. FirstBlockInv'
    BY <1>18 DEF FirstBlockInv
  <1> QED BY <1>12, <1>17, <1>19 DEF FileInv

\* The invariant of the file.
LEMMA InitFile == Init => FileInv
  <1> SUFFICES ASSUME Init PROVE FileInv
    OBVIOUS
  <1>1. DOMAIN runs = {} /\ DOMAIN dump = {} /\ runs \in Seq(Keys)
    BY DEF Init
  <1>2. Complete(runs, dump)
    BY CompleteNothing DEF Init
  <1> QED BY <1>1, <1>2 DEF Init, FileInv, RunsInv, WrittenInv, FirstBlockInv

LEMMA FileStep == FileInv /\ [Next]_vars => FileInv'
  <1> SUFFICES ASSUME FileInv, [Next]_vars PROVE FileInv'
    OBVIOUS
  <1> USE DEF runVars, parserVars
  <1>1. ASSUME UNCHANGED <<dump, runs, aborted, state>> PROVE FileInv'
    BY <1>1, FileKeeps DEF FileInv, RunsInv
  <1>2. CASE UNCHANGED vars
    BY <1>1, <1>2 DEF vars
  <1>3. ASSUME NEW k \in Keys, Begin(k) PROVE FileInv'
    BY <1>3, BeginWrites
  <1>4. CASE Abort
    BY <1>4, AbortWrites
  <1>5. CASE WriteBlocks
    BY <1>5, PrintsWritten
  <1>6. ASSUME NEW s \in {"parser", "a_parser"}, OpenDump(s) PROVE FileInv'
    BY <1>6, FileKeeps DEF OpenDump
  <1>7. CASE Seek
    BY <1>7, FileKeeps DEF Seek
  <1>8. CASE NotANumber
    BY <1>8, FileKeeps DEF NotANumber, Errors
  <1>9. CASE ReadValue
    BY <1>9, <1>1 DEF ReadValue
  <1>10. CASE EndOfBlock
    BY <1>10, FileKeeps DEF EndOfBlock, BlockOver
  <1>11. CASE Tabulate
    BY <1>11, FileKeeps DEF Tabulate, Errors
  <1>12. CASE Stopped
    BY <1>1, <1>12 DEF Stopped, vars
  <1> QED BY <1>2, <1>3, <1>4, <1>5, <1>6, <1>7, <1>8, <1>9, <1>10, <1>11, <1>12 DEF Next

\* The file consists of complete headers and blocks at all times.
THEOREM FileInvariance == Spec => []FileInv
  <1> QED BY InitFile, FileStep, PTL DEF Spec

-----------------------------------------------------------------------------

(***************************************************************************)
(* Reading the file.                                                       *)
(***************************************************************************)

\* What stands behind a header or a label.
Behind(x) ==
  /\ x + HeadLines - 1 \in DOMAIN dump
  /\ dump[x + HeadLines - 1].is = IF script = "parser" THEN "place" ELSE "label"
  /\ \A y \in x + 1 .. x + HeadLines - 1 : dump[y].is \in {"size", "type", "place"}
  /\ x + HeadLines \in DOMAIN dump => dump[x + HeadLines].is \notin {"cycles", "blank"}
  /\ x + HeadLines \in DOMAIN dump /\ dump[x + HeadLines].is = "event" =>
       /\ x + HeadLines + 2 \in DOMAIN dump
       /\ dump[x + HeadLines + 1].is = "cycles" /\ dump[x + HeadLines + 2].is = "blank"
       /\ SameBlock(dump[x + HeadLines], dump[x + HeadLines + 1])
  /\ script = "a_parser" =>
       /\ x + 1 \in DOMAIN dump /\ dump[x + 1].is = "event"
       /\ SameBlock(dump[x], dump[x + 1])

LEMMA OpenedBehind ==
  ASSUME FileInv, script \in {"parser", "a_parser"},
         NEW x \in DOMAIN dump, dump[x].is = Opener
  PROVE  Behind(x)
  <1>1. Complete(runs, dump)
    BY DEF FileInv, RunsInv
  <1>2. \A y \in DOMAIN dump : LineInv(runs, dump, y)
    BY <1>1 DEF Complete
  <1>3. PICK L : L \in Nat /\ DOMAIN dump = 1 .. L
    <2>1. dump \in Seq(Lines)
      BY <1>1 DEF Complete
    <2>2. Len(dump) \in Nat /\ DOMAIN dump = 1 .. Len(dump)
      BY <2>1
    <2> QED BY <2>2
  <1>4. x \in Nat /\ x >= 1
    BY <1>3
  <1>5. PICK H : H = HeadLines /\ H \in {1, 4}
    BY DEF HeadLines
  <1>6. PICK z : z = x + H
    OBVIOUS
  <1>7. PICK l : l = x + H - 1
    OBVIOUS
  <1>8. z \in Nat /\ z > 1 /\ z - 1 = l /\ l \in Nat
    BY <1>4, <1>5, <1>6, <1>7
  <1>9. /\ l \in DOMAIN dump
        /\ dump[l].is = IF script = "parser" THEN "place" ELSE "label"
        /\ \A y \in x + 1 .. l : dump[y].is \in {"size", "type", "place"}
    <2>1. CASE script = "parser"
      <3>0. H = 4
        BY <1>5, <2>1 DEF HeadLines
      <3>1. dump[x].is = "TEST RUN"
        BY <2>1 DEF Opener
      <3>2. HeaderAt(dump, x)
        BY <1>2, <3>1 DEF LineInv
      <3>3. l = x + 3
        BY <1>4, <1>7, <3>0
      <3>4. \A y \in x + 1 .. l : y = x + 1 \/ y = x + 2 \/ y = x + 3
        BY <1>4, <3>3
      <3> QED BY <2>1, <3>2, <3>3, <3>4 DEF HeaderAt
    <2>2. CASE script = "a_parser"
      <3>1. H = 1 /\ dump[x].is = "label"
        BY <1>5, <2>2 DEF HeadLines, Opener
      <3>2. l = x /\ \A y \in x + 1 .. x : FALSE
        BY <1>4, <1>7, <3>1
      <3> QED BY <2>2, <3>1, <3>2
    <2> QED BY <2>1, <2>2
  <1>10. z \in DOMAIN dump => dump[z].is \notin {"cycles", "blank"}
    <2> SUFFICES ASSUME z \in DOMAIN dump PROVE dump[z].is \notin {"cycles", "blank"}
      OBVIOUS
    <2>1. /\ dump[z].is = "cycles" => dump[z - 1].is = "event"
          /\ dump[z].is = "blank" => dump[z - 1].is = "cycles"
      BY <1>2 DEF LineInv
    <2> QED BY <1>8, <1>9, <2>1
  <1>11. z \in DOMAIN dump /\ dump[z].is = "event" => ValuesAt(dump, z)
    BY <1>2 DEF LineInv
  <1>12. script = "a_parser" => /\ x + 1 \in DOMAIN dump /\ dump[x + 1].is = "event"
                                /\ SameBlock(dump[x], dump[x + 1])
    <2> SUFFICES ASSUME script = "a_parser"
                 PROVE  /\ x + 1 \in DOMAIN dump /\ dump[x + 1].is = "event"
                        /\ SameBlock(dump[x], dump[x + 1])
      OBVIOUS
    <2>1. ValuesAt(dump, x + 1) /\ SameBlock(dump[x], dump[x + 1])
      BY <1>2 DEF LineInv, Opener
    <2>2. (x + 1) + 2 \in DOMAIN dump /\ dump[x + 1].is = "event"
      BY <2>1 DEF ValuesAt
    <2> QED BY <1>3, <1>4, <2>1, <2>2
  <1> QED BY <1>5, <1>6, <1>7, <1>9, <1>10, <1>11, <1>12 DEF Behind, ValuesAt

\* Nothing has been read.
LEMMA NothingRead ==
  FileInv /\ pos = 0 /\ test_res = <<>>
    /\ (state \in {"idle", "running"} \/ (state = "seek" /\ script \in {"parser", "a_parser"}))
    => ReadInv
  <1> SUFFICES ASSUME FileInv, pos = 0, test_res = <<>>,
                      \/ state \in {"idle", "running"}
                      \/ state = "seek" /\ script \in {"parser", "a_parser"}
               PROVE  ReadInv
    OBVIOUS
  <1>1. Len(dump) \in Nat
    BY DEF FileInv, RunsInv, Complete
  <1>2. 1 .. pos = {} /\ DOMAIN test_res = {}
    OBVIOUS
  <1>3. test_res \in Seq([key : Keys, values : SUBSET Lines])
    OBVIOUS
  <1>4. ParserInv
    BY <1>1, <1>2, <1>3 DEF ParserInv
  <1>5. BlockInv
    BY <1>2 DEF BlockInv
  <1> QED BY <1>2, <1>4, <1>5 DEF ReadInv, AllFiledInv, OnlyFiledInv, HolesInv

\* What has been read stays read.
LEMMA ReadOn ==
  ASSUME UNCHANGED <<dump, runs, script>>, pos \in Nat, pos' \in Nat, pos <= pos'
  PROVE  /\ HeadLines' = HeadLines /\ Opener' = Opener
         /\ HeadLines \in {1, 4}
         /\ \A x : Opened(x) => Opened(x)'
         /\ \A x \in 1 .. pos : Passed(x) => Passed(x)'
         /\ \A k, x : KeyAt(k, x) => KeyAt(k, x)'
         /\ \A v, x : ValueAt(v, x)' <=> ValueAt(v, x)
  <1>1. HeadLines' = HeadLines /\ Opener' = Opener /\ HeadLines \in {1, 4}
    BY DEF HeadLines, Opener
  <1>2. \A x : Opened(x) => Opened(x)'
    BY <1>1 DEF Opened
  <1>3. \A x \in 1 .. pos : Passed(x) => Passed(x)'
    <2> TAKE x \in 1 .. pos
    <2>1. x + HeadLines \in Nat
      BY <1>1
    <2> QED BY <1>1, <2>1 DEF Passed
  <1>4. \A k, x : KeyAt(k, x) => KeyAt(k, x)'
    BY <1>2 DEF KeyAt
  <1>5. \A v, x : ValueAt(v, x)' <=> ValueAt(v, x)
    BY <1>1 DEF ValueAt
  <1> QED BY <1>1, <1>2, <1>3, <1>4, <1>5

\* Where the parser is in a block: behind its head, or behind its first value, or behind
\* its second value, which is its last.
LEMMA BlockPosition ==
  ASSUME FileInv, ReadInv, state = "block"
  PROVE  \E x \in 1 .. pos :
           /\ x \in DOMAIN dump /\ InBlock(x) /\ OthersPassed(x) /\ Behind(x)
           /\ \/ pos = x + HeadLines - 1
              \/ /\ pos = x + HeadLines /\ dump[x + HeadLines].is = "event"
                 /\ More /\ Current = dump[x + HeadLines + 1]
              \/ /\ pos = x + HeadLines + 1 /\ dump[x + HeadLines].is = "event"
                 /\ More /\ Current.is = "blank"
  <1>1. PICK x \in 1 .. pos : InBlock(x) /\ OthersPassed(x)
    BY DEF ReadInv, BlockInv
  <1>2. PICK L : L = Len(dump) /\ L \in Nat /\ DOMAIN dump = 1 .. L
    <2>1. dump \in Seq(Lines)
      BY DEF FileInv, RunsInv, Complete
    <2>2. Len(dump) \in Nat /\ DOMAIN dump = 1 .. Len(dump)
      BY <2>1
    <2> QED BY <2>2
  <1>3. pos \in 0 .. L /\ script \in {"parser", "a_parser"}
    BY <1>2 DEF ReadInv, ParserInv
  <1>4. x \in DOMAIN dump /\ x \in Nat /\ pos \in Nat
    BY <1>2, <1>3
  <1>5. dump[x].is = Opener
    BY <1>1 DEF InBlock, Opened
  <1>6. Behind(x)
    BY <1>3, <1>4, <1>5, OpenedBehind
  <1>7. PICK H : H = HeadLines /\ H \in {1, 4}
    BY DEF HeadLines
  <1>8. PICK z : z = x + H
    OBVIOUS
  <1>9. z \in Nat /\ z >= 1
    BY <1>4, <1>7, <1>8
  <1>10. \/ pos = x + H - 1
         \/ pos \in {z, z + 1} /\ dump[z].is = "event"
    BY <1>1, <1>7, <1>8 DEF InBlock
  <1>11. CASE pos = x + H - 1
    BY <1>1, <1>4, <1>6, <1>7, <1>11
  <1>12. CASE pos \in {z, z + 1} /\ dump[z].is = "event"
    <2>1. z \in DOMAIN dump
      BY <1>2, <1>3, <1>9, <1>12
    <2>2. z + 2 \in DOMAIN dump /\ dump[z + 2].is = "blank"
      BY <1>6, <1>7, <1>8, <1>12, <2>1 DEF Behind
    <2>3. z + 2 <= L
      BY <1>2, <1>9, <2>2
    <2>4. CASE pos = z
      <3>1. pos < L
        BY <1>2, <1>9, <2>3, <2>4
      <3> QED BY <1>1, <1>2, <1>4, <1>6, <1>7, <1>8, <1>12, <2>4, <3>1 DEF More, Current
    <2>5. CASE pos = z + 1
      <3>1. pos < L /\ pos + 1 = z + 2
        BY <1>2, <1>9, <2>3, <2>5
      <3> QED BY <1>1, <1>2, <1>4, <1>6, <1>7, <1>8, <1>12, <2>2, <2>5, <3>1 DEF More, Current
    <2> QED BY <1>12, <2>4, <2>5
  <1> QED BY <1>10, <1>11, <1>12

\* The types of what a parser works on.
LEMMA ReadingTypes ==
  ASSUME FileInv, ReadInv
  PROVE  /\ Len(dump) \in Nat /\ DOMAIN dump = 1 .. Len(dump)
         /\ pos \in 0 .. Len(dump)
         /\ \A x \in DOMAIN dump : dump[x] \in Lines /\ runs[dump[x].run] \in Keys
         /\ test_res \in Seq([key : Keys, values : SUBSET Lines])
  <1>1. dump \in Seq(Lines) /\ \A x \in DOMAIN dump : LineInv(runs, dump, x)
    BY DEF FileInv, RunsInv, Complete
  <1>2. Len(dump) \in Nat /\ DOMAIN dump = 1 .. Len(dump) /\ \A x \in DOMAIN dump : dump[x] \in Lines
    BY <1>1
  <1>3. \A x \in DOMAIN dump : runs[dump[x].run] \in Keys
    <2>1. runs \in Seq(Keys)
      BY DEF FileInv, RunsInv
    <2>2. \A r \in DOMAIN runs : runs[r] \in Keys
      BY <2>1
    <2>3. \A x \in DOMAIN dump : dump[x].run \in DOMAIN runs
      BY <1>1 DEF LineInv
    <2> QED BY <2>2, <2>3
  <1>4. pos \in 0 .. Len(dump) /\ test_res \in Seq([key : Keys, values : SUBSET Lines])
    BY DEF ReadInv, ParserInv
  <1> QED BY <1>2, <1>3, <1>4

\* The values behind a header that has been passed are all filed, and stay so.
LEMMA StaysFiled ==
  ASSUME FileInv, ReadInv, UNCHANGED <<dump, runs, script>>, pos' \in 0 .. Len(dump), pos <= pos',
         \A k : KeyFiled(k) => KeyFiled(k)', \A k, v : Filed(k, v) => Filed(k, v)',
         NEW x \in 1 .. pos, Opened(x), Passed(x)
  PROVE  FiledBehind(x)'
  <1>1. /\ Len(dump) \in Nat /\ DOMAIN dump = 1 .. Len(dump) /\ pos \in 0 .. Len(dump)
    BY ReadingTypes
  <1>2. PICK H : H = HeadLines /\ H \in {1, 4}
    BY DEF HeadLines
  <1>3. HeadLines' = H
    BY <1>2 DEF HeadLines
  <1>4. PICK z : z = x + H
    OBVIOUS
  <1>5. z \in Nat /\ z >= 1 /\ x \in Nat
    BY <1>1, <1>2, <1>4
  <1>6. PICK k : k = runs[dump[x].run]
    OBVIOUS
  <1>7. /\ x + H - 1 <= pos /\ KeyFiled(k)
        /\ \A y \in {z, z + 1} : y <= pos /\ dump[z].is = "event" => Filed(k, dump[y])
    BY <1>2, <1>4, <1>6 DEF ReadInv, AllFiledInv, FiledBehind
  <1>8. x + H - 1 <= pos'
    BY <1>1, <1>2, <1>5, <1>7
  <1>9. ASSUME NEW y \in {z, z + 1}, y <= pos', dump[z].is = "event"
        PROVE  Filed(k, dump[y])'
    <2>1. z \in DOMAIN dump
      BY <1>1, <1>5, <1>9
    <2>2. z < pos
      BY <1>2, <1>4, <1>9, <2>1 DEF Passed
    <2>3. y <= pos
      BY <1>1, <1>5, <2>2
    <2>4. Filed(k, dump[y])
      BY <1>7, <1>9, <2>3
    <2>5. PICK v : v = dump[y]
      OBVIOUS
    <2>6. Filed(k, v)'
      BY <2>4, <2>5
    <2> QED BY <2>5, <2>6 DEF Filed
  <1>10. KeyFiled(k)'
    BY <1>7
  <1>11. FiledBehind(x)' <=>
           /\ x + H - 1 <= pos' /\ KeyFiled(k)'
           /\ \A y \in {z, z + 1} : y <= pos' /\ dump[z].is = "event" => Filed(k, dump[y])'
    BY <1>3, <1>4, <1>6 DEF FiledBehind, KeyFiled, Filed
  <1> QED BY <1>8, <1>9, <1>10, <1>11

\* The parser stops.
LEMMA StopsReading ==
  ASSUME FileInv, ReadInv, UNCHANGED <<dump, runs, script, pos, ttype, test_res>>,
         state \in {"seek", "block"}, state' \in Errors \cup {"done"},
         state' = "done" => ~ More /\ \A e \in DOMAIN test_res : test_res[e].values # {}
  PROVE  ReadInv'
  <1>1. /\ Len(dump) \in Nat /\ pos \in 0 .. Len(dump)
    BY ReadingTypes
  <1>2. state' \notin {"idle", "running", "seek", "block"}
    BY DEF Errors
  <1>3. ParserInv'
    <2>1. state' = "done" => pos = Len(dump)
      BY <1>1 DEF More
    <2> QED BY <1>2, <2>1 DEF ReadInv, ParserInv
  <1>4. BlockInv'
    BY <1>2 DEF BlockInv
  <1>5. /\ HeadLines' = HeadLines /\ Opener' = Opener
    BY DEF HeadLines, Opener
  <1>6. /\ \A x : Opened(x)' <=> Opened(x)
        /\ \A x : FiledBehind(x)' <=> FiledBehind(x)
        /\ \A k, x : KeyAt(k, x)' <=> KeyAt(k, x)
        /\ \A v, x : ValueAt(v, x)' <=> ValueAt(v, x)
    BY <1>5 DEF Opened, FiledBehind, KeyFiled, Filed, KeyAt, ValueAt
  <1>7. AllFiledInv'
    BY <1>6 DEF ReadInv, AllFiledInv
  <1>8. OnlyFiledInv'
    BY <1>6 DEF ReadInv, OnlyFiledInv, FromFile
  <1>9. HolesInv'
    BY <1>2 DEF ReadInv, HolesInv
  <1> QED BY <1>3, <1>4, <1>7, <1>8, <1>9 DEF ReadInv

\* Outside a block, a line that opens none is skipped.
LEMMA SkipsLine ==
  ASSUME FileInv, ReadInv, Seek, Current.is # Opener
  PROVE  ReadInv'
  <1> USE DEF runVars
  <1>1. /\ Len(dump) \in Nat /\ DOMAIN dump = 1 .. Len(dump) /\ pos \in 0 .. Len(dump)
    BY ReadingTypes
  <1>2. /\ UNCHANGED <<dump, runs, script, ttype, test_res>> /\ state = "seek" /\ state' = "seek"
        /\ pos' = pos + 1 /\ More
    BY DEF Seek
  <1>3. pos \in Nat /\ pos' \in Nat /\ pos <= pos' /\ pos' \in 0 .. Len(dump) /\ pos' \in DOMAIN dump
    BY <1>1, <1>2 DEF More
  <1>4. /\ HeadLines' = HeadLines /\ Opener' = Opener
        /\ \A x \in 1 .. pos : Passed(x) => Passed(x)'
        /\ \A k, x : KeyAt(k, x) => KeyAt(k, x)'
        /\ \A v, x : ValueAt(v, x)' <=> ValueAt(v, x)
    BY <1>2, <1>3, ReadOn
  <1>5. ASSUME NEW x \in 1 .. pos', Opened(x)' PROVE x \in 1 .. pos /\ Opened(x)
    <2>1. dump[x].is = Opener
      BY <1>2, <1>4, <1>5 DEF Opened
    <2>2. x # pos + 1
      BY <2>1 DEF Current
    <2>3. x \in 1 .. pos
      BY <1>2, <1>3, <2>2
    <2> QED BY <2>1, <2>3 DEF Opened
  <1>6. \A x \in 1 .. pos : Opened(x) => Passed(x)
    BY <1>2 DEF ReadInv, BlockInv
  <1>7. ParserInv'
    BY <1>2, <1>3 DEF ReadInv, ParserInv
  <1>8. BlockInv'
    BY <1>2, <1>4, <1>5, <1>6 DEF BlockInv
  <1>9. AllFiledInv'
    <2>1. /\ \A k : KeyFiled(k) => KeyFiled(k)'
          /\ \A k, v : Filed(k, v) => Filed(k, v)'
      BY <1>2 DEF KeyFiled, Filed
    <2>2. ASSUME NEW x \in 1 .. pos', Opened(x)' PROVE FiledBehind(x)'
      <3>1. x \in 1 .. pos /\ Opened(x) /\ Passed(x)
        BY <1>5, <1>6, <2>2
      <3> QED BY <1>2, <1>3, <2>1, <3>1, StaysFiled
    <2> QED BY <2>2 DEF AllFiledInv
  <1>10. OnlyFiledInv'
    <2>1. 1 .. pos \subseteq 1 .. pos'
      BY <1>3
    <2>2. OnlyFiledInv
      BY DEF ReadInv
    <2>3. \A q, vs : FromFile(q, vs) => FromFile(q, vs)'
      BY <1>4, <2>1 DEF FromFile
    <2>4. ASSUME NEW e \in DOMAIN test_res'
          PROVE  \E q, vs : q = test_res'[e].key /\ vs = test_res'[e].values /\ FromFile(q, vs)'
      <3>1. PICK q, vs : q = test_res[e].key /\ vs = test_res[e].values
        OBVIOUS
      <3>2. FromFile(q, vs)
        BY <1>2, <2>2, <2>4, <3>1 DEF OnlyFiledInv
      <3> QED BY <1>2, <2>3, <3>1, <3>2
    <2> QED BY <2>4 DEF OnlyFiledInv, FromFile, KeyAt
  <1>11. HolesInv'
    BY <1>2 DEF ReadInv, HolesInv, Errors
  <1> QED BY <1>7, <1>8, <1>9, <1>10, <1>11 DEF ReadInv

\* Outside a block, a header or label is read, and its key filed unless it has been.
LEMMA OpensBlock ==
  ASSUME FileInv, ReadInv, Seek, Current.is = Opener
  PROVE  ReadInv'
  <1> USE DEF runVars
  <1>1. /\ Len(dump) \in Nat /\ DOMAIN dump = 1 .. Len(dump) /\ pos \in 0 .. Len(dump)
        /\ test_res \in Seq([key : Keys, values : SUBSET Lines])
    BY ReadingTypes
  <1>2. /\ UNCHANGED <<dump, runs, script>> /\ state = "seek" /\ state' = "block"
        /\ pos' = pos + HeadLines /\ More /\ ttype' = runs[Current.run]
        /\ test_res' = IF \E e \in ToSet(test_res) : e.key = ttype'
                       THEN test_res
                       ELSE Append(test_res, [key |-> ttype', values |-> {}])
    BY DEF Seek
  <1>3. PICK x : x = pos + 1
    OBVIOUS
  <1>4. PICK H : H = HeadLines /\ H \in {1, 4}
    BY DEF HeadLines
  <1>5. x \in DOMAIN dump /\ x \in Nat /\ x >= 1 /\ pos \in Nat /\ pos' = x + H - 1
    <2>1. pos' = pos + H
      BY <1>2, <1>4
    <2> QED BY <1>1, <1>2, <1>3, <1>4, <2>1 DEF More
  <1>6. dump[x].is = Opener /\ script \in {"parser", "a_parser"}
    BY <1>2, <1>3 DEF Current, ReadInv, ParserInv
  <1>7. Behind(x)
    BY <1>5, <1>6, OpenedBehind
  <1>8. /\ pos' \in DOMAIN dump
        /\ dump[pos'].is = IF script = "parser" THEN "place" ELSE "label"
        /\ \A y \in x + 1 .. pos' : dump[y].is \in {"size", "type", "place"}
    BY <1>4, <1>5, <1>7 DEF Behind
  <1>9. pos' \in Nat /\ pos <= pos' /\ pos' \in 0 .. Len(dump) /\ x \in 1 .. pos'
    BY <1>1, <1>3, <1>4, <1>5, <1>8
  <1>10. /\ HeadLines' = HeadLines /\ Opener' = Opener
         /\ \A y : Opened(y) => Opened(y)'
         /\ \A y \in 1 .. pos : Passed(y) => Passed(y)'
         /\ \A k, y : KeyAt(k, y) => KeyAt(k, y)'
         /\ \A v, y : ValueAt(v, y)' <=> ValueAt(v, y)
    BY <1>2, <1>5, <1>9, ReadOn
  <1>11. Opened(x)'
    BY <1>2, <1>6, <1>9, <1>10 DEF Opened
  <1>12. ASSUME NEW y \in 1 .. pos', Opened(y)' PROVE y = x \/ (y \in 1 .. pos /\ Opened(y))
    <2>1. dump[y].is = Opener
      BY <1>2, <1>10, <1>12 DEF Opened
    <2>2. Opener \notin {"size", "type", "place"}
      BY DEF Opener
    <2>3. y \notin x + 1 .. pos'
      BY <1>8, <2>1, <2>2
    <2>4. y = x \/ y \in 1 .. pos
      BY <1>3, <1>5, <1>9, <2>3
    <2> QED BY <2>1, <2>4 DEF Opened
  <1>13. \A y \in 1 .. pos : Opened(y) => Passed(y)
    BY <1>2 DEF ReadInv, BlockInv
  <1>14. PICK k : k = ttype'
    OBVIOUS
  <1>15. k = runs[dump[x].run] /\ k \in Keys
    BY <1>2, <1>3, <1>5, <1>14, ReadingTypes DEF Current
  <1>16. PICK n : n = Len(test_res)
    OBVIOUS
  <1>17. /\ n \in Nat /\ DOMAIN test_res = 1 .. n
         /\ \A e \in DOMAIN test_res : test_res[e].values # {}
         /\ \A e, f \in DOMAIN test_res : test_res[e].key = test_res[f].key => e = f
    BY <1>1, <1>2, <1>16 DEF ReadInv, ParserInv, HolesInv, Errors
  <1>18. \/ /\ test_res' = test_res /\ KeyFiled(k)
         \/ /\ ~ KeyFiled(k) /\ DOMAIN test_res' = 1 .. n + 1 /\ Len(test_res') = n + 1
            /\ \A e \in DOMAIN test_res : test_res'[e] = test_res[e]
            /\ test_res'[n + 1].key = k /\ test_res'[n + 1].values = {}
            /\ test_res' \in Seq([key : Keys, values : SUBSET Lines])
    <2>1. (\E e \in ToSet(test_res) : e.key = k) <=> KeyFiled(k)
      BY DEF ToSet, KeyFiled
    <2>2. CASE KeyFiled(k)
      BY <1>2, <1>14, <2>1, <2>2
    <2>3. CASE ~ KeyFiled(k)
      <3> DEFINE new == [key |-> k, values |-> {}]
      <3>1. new \in [key : Keys, values : SUBSET Lines] /\ new.key = k /\ new.values = {}
        BY <1>15
      <3>2. test_res' = Append(test_res, new)
        BY <1>2, <1>14, <2>1, <2>3
      <3> HIDE DEF new
      <3>3. /\ Append(test_res, new) \in Seq([key : Keys, values : SUBSET Lines])
            /\ Len(Append(test_res, new)) = n + 1
            /\ Append(test_res, new)[n + 1] = new
            /\ \A e \in 1 .. n : Append(test_res, new)[e] = test_res[e]
        BY <1>1, <1>16, <1>17, <3>1, AppendProperties
      <3>4. DOMAIN test_res' = 1 .. n + 1
        BY <3>2, <3>3
      <3> QED BY <1>17, <2>3, <3>1, <3>2, <3>3, <3>4
    <2> QED BY <2>2, <2>3
  <1>19. /\ \A e \in DOMAIN test_res : e \in DOMAIN test_res' /\ test_res'[e] = test_res[e]
         /\ \A e \in DOMAIN test_res' : e \in DOMAIN test_res
              \/ (e = Len(test_res') /\ test_res'[e].key = k /\ test_res'[e].values = {})
    BY <1>17, <1>18
  <1>20. /\ \A q : KeyFiled(q) => KeyFiled(q)'
         /\ \A q, v : Filed(q, v) => Filed(q, v)'
         /\ KeyFiled(k)'
    <2>1. /\ \A q : KeyFiled(q) => KeyFiled(q)'
          /\ \A q, v : Filed(q, v) => Filed(q, v)'
      BY <1>19 DEF KeyFiled, Filed
    <2>2. CASE KeyFiled(k)
      BY <2>1, <2>2
    <2>3. CASE ~ KeyFiled(k)
      <3>1. n + 1 \in DOMAIN test_res' /\ test_res'[n + 1].key = k
        BY <1>17, <1>18, <2>3
      <3> QED BY <2>1, <3>1 DEF KeyFiled
    <2> QED BY <2>1, <2>2, <2>3
  <1>21. ParserInv'
    <2>1. test_res' \in Seq([key : Keys, values : SUBSET Lines])
      BY <1>1, <1>18
    <2>2. \A e, f \in DOMAIN test_res' : test_res'[e].key = test_res'[f].key => e = f
      <3>1. CASE test_res' = test_res
        BY <1>17, <3>1
      <3>2. CASE ~ KeyFiled(k) /\ DOMAIN test_res' = 1 .. n + 1 /\ test_res'[n + 1].key = k
        <4>1. \A e \in DOMAIN test_res : test_res'[e].key # k /\ test_res'[e] = test_res[e]
          BY <1>19, <3>2 DEF KeyFiled
        <4>2. \A e \in 1 .. n + 1 : e = n + 1 \/ e \in DOMAIN test_res
          BY <1>17
        <4> QED BY <1>17, <3>2, <4>1, <4>2
      <3> QED BY <1>18, <3>1, <3>2
    <2> QED BY <1>2, <1>6, <1>9, <2>1, <2>2 DEF ParserInv
  <1>22. BlockInv'
    <2>1. InBlock(x)'
      BY <1>2, <1>4, <1>5, <1>10, <1>11, <1>14, <1>15 DEF InBlock
    <2>2. OthersPassed(x)'
      BY <1>10, <1>12, <1>13 DEF OthersPassed
    <2> QED BY <1>2, <1>9, <2>1, <2>2 DEF BlockInv
  <1>23. AllFiledInv'
    <2>1. FiledBehind(x)'
      <3>1. \A y \in {x + H, x + H + 1} : ~ y <= pos'
        BY <1>4, <1>5, <1>9
      <3>2. x + H - 1 <= pos'
        BY <1>4, <1>5
      <3>3. KeyFiled(runs[dump[x].run])'
        BY <1>2, <1>15, <1>20 DEF KeyFiled
      <3> QED BY <1>2, <1>4, <1>10, <3>1, <3>2, <3>3 DEF FiledBehind
    <2>2. ASSUME NEW y \in 1 .. pos, Opened(y) PROVE FiledBehind(y)'
      <3>1. Passed(y)
        BY <1>13, <2>2
      <3> QED BY <1>2, <1>9, <1>20, <2>2, <3>1, StaysFiled
    <2> QED BY <1>12, <2>1, <2>2 DEF AllFiledInv
  <1>24. OnlyFiledInv'
    <2>1. 1 .. pos \subseteq 1 .. pos'
      BY <1>5, <1>9
    <2>2. KeyAt(k, x)'
      BY <1>2, <1>11, <1>15 DEF KeyAt
    <2>3. \A q, vs : FromFile(q, vs) => FromFile(q, vs)'
      BY <1>10, <2>1 DEF FromFile
    <2>4. FromFile(k, {})'
      BY <1>9, <2>2 DEF FromFile
    <2>5. ASSUME NEW e \in DOMAIN test_res'
          PROVE  \E q, vs : q = test_res'[e].key /\ vs = test_res'[e].values /\ FromFile(q, vs)'
      <3>1. CASE e \in DOMAIN test_res
        <4>1. PICK q, vs : q = test_res[e].key /\ vs = test_res[e].values
          OBVIOUS
        <4>2. FromFile(q, vs)
          BY <3>1, <4>1 DEF ReadInv, OnlyFiledInv
        <4> QED BY <1>19, <2>3, <3>1, <4>1, <4>2
      <3>2. CASE test_res'[e].key = k /\ test_res'[e].values = {}
        BY <2>4, <3>2
      <3> QED BY <1>19, <3>1, <3>2
    <2> QED BY <2>5 DEF OnlyFiledInv, FromFile, KeyAt
  <1>25. HolesInv'
    <2>1. ASSUME NEW e \in DOMAIN test_res', test_res'[e].values = {}
          PROVE  e = Len(test_res') /\ test_res'[e].key = k
      BY <1>17, <1>19, <2>1
    <2>2. pos' # 0
      BY <1>9
    <2> QED BY <1>2, <1>8, <1>14, <2>1, <2>2 DEF HolesInv
  <1> QED BY <1>21, <1>22, <1>23, <1>24, <1>25 DEF ReadInv

\* In a block, a value is filed under the key of the header or label.
LEMMA ReadsValue ==
  ASSUME FileInv, ReadInv, ReadValue
  PROVE  ReadInv'
  <1> USE DEF runVars
  <1>1. /\ Len(dump) \in Nat /\ DOMAIN dump = 1 .. Len(dump) /\ pos \in 0 .. Len(dump)
        /\ test_res \in Seq([key : Keys, values : SUBSET Lines])
        /\ \A y \in DOMAIN dump : dump[y] \in Lines
    BY ReadingTypes
  <1>2. /\ UNCHANGED <<dump, runs, script, ttype>> /\ state = "block" /\ state' = "block"
        /\ pos' = pos + 1 /\ More /\ Current.is \in {"event", "cycles"}
        /\ test_res' = [e \in DOMAIN test_res |->
                          IF test_res[e].key = ttype
                          THEN [test_res[e] EXCEPT !.values = @ \cup {Current}]
                          ELSE test_res[e]]
    BY DEF ReadValue
  <1>3. PICK x \in 1 .. pos :
          /\ x \in DOMAIN dump /\ InBlock(x) /\ OthersPassed(x) /\ Behind(x)
          /\ \/ pos = x + HeadLines - 1
             \/ /\ pos = x + HeadLines /\ dump[x + HeadLines].is = "event"
                /\ More /\ Current = dump[x + HeadLines + 1]
             \/ /\ pos = x + HeadLines + 1 /\ dump[x + HeadLines].is = "event"
                /\ More /\ Current.is = "blank"
    BY <1>2, BlockPosition
  <1>4. PICK H : H = HeadLines /\ H \in {1, 4}
    BY DEF HeadLines
  <1>5. PICK z : z = x + H
    OBVIOUS
  <1>6. x \in Nat /\ z \in Nat /\ pos \in Nat /\ pos' \in Nat /\ pos' = pos + 1 /\ pos < Len(dump)
    BY <1>1, <1>2, <1>3, <1>4, <1>5 DEF More
  <1>7. pos <= pos' /\ pos' \in 0 .. Len(dump) /\ pos' \in DOMAIN dump /\ pos' \in 1 .. pos'
    BY <1>1, <1>6
  <1>8. Current = dump[pos'] /\ Current \in Lines
    BY <1>1, <1>6, <1>7 DEF Current
  <1>9. pos' \in {z, z + 1} /\ dump[z].is = "event" /\ z \in DOMAIN dump
    <2>1. CASE pos = x + H - 1
      <3>1. pos' = z
        BY <1>4, <1>5, <1>6, <2>1
      <3>2. z \in DOMAIN dump => dump[z].is \notin {"cycles", "blank"}
        BY <1>3, <1>4, <1>5 DEF Behind
      <3> QED BY <1>2, <1>7, <1>8, <3>1, <3>2
    <2>2. CASE pos = z /\ dump[z].is = "event"
      BY <1>1, <1>6, <1>7, <2>2
    <2>3. Current.is # "blank"
      BY <1>2
    <2> QED BY <1>3, <1>4, <1>5, <2>1, <2>2, <2>3
  <1>10. /\ HeadLines' = HeadLines /\ Opener' = Opener
         /\ \A y : Opened(y) => Opened(y)'
         /\ \A y \in 1 .. pos : Passed(y) => Passed(y)'
         /\ \A k, y : KeyAt(k, y) => KeyAt(k, y)'
         /\ \A v, y : ValueAt(v, y)' <=> ValueAt(v, y)
    BY <1>2, <1>6, <1>7, ReadOn
  <1>11. ASSUME NEW y \in 1 .. pos', Opened(y)' PROVE y \in 1 .. pos /\ Opened(y)
    <2>1. dump[y].is = Opener
      BY <1>2, <1>10, <1>11 DEF Opened
    <2>2. y # pos'
      BY <1>2, <1>8, <2>1 DEF Opener
    <2>3. y \in 1 .. pos
      BY <1>6, <2>2
    <2> QED BY <2>1, <2>3 DEF Opened
  <1>12. PICK k : k = ttype
    OBVIOUS
  <1>13. k = runs[dump[x].run] /\ KeyAt(k, x) /\ Opened(x)
    BY <1>3, <1>12 DEF InBlock, KeyAt
  <1>14. PICK c : c = Current
    OBVIOUS
  <1>15. /\ DOMAIN test_res' = DOMAIN test_res
         /\ \A e \in DOMAIN test_res :
              /\ test_res'[e].key = test_res[e].key
              /\ test_res'[e].values = IF test_res[e].key = k THEN test_res[e].values \cup {c}
                                       ELSE test_res[e].values
              /\ test_res'[e] \in [key : Keys, values : SUBSET Lines]
    <2>1. \A e \in DOMAIN test_res : test_res[e] \in [key : Keys, values : SUBSET Lines]
      <3> DEFINE S == [key : Keys, values : SUBSET Lines]
      <3>1. test_res \in Seq(S)
        BY <1>1, Zenon
      <3> HIDE DEF S
      <3>2. \A e \in DOMAIN test_res : test_res[e] \in S
        BY <3>1
      <3> QED BY <3>2 DEF S
    <2>2. c \in Lines
      BY <1>8, <1>14
    <2> HIDE DEF Lines
    <2> QED BY <1>2, <1>12, <1>14, <2>1, <2>2
  <1>16. test_res' \in Seq([key : Keys, values : SUBSET Lines])
    <2> DEFINE S == [key : Keys, values : SUBSET Lines]
               f == test_res'
    <2>1. test_res \in Seq(S)
      BY <1>1, Zenon
    <2>2. \A i \in DOMAIN test_res : f[i] \in S
      BY <1>15
    <2>3. f = [i \in DOMAIN test_res |-> f[i]]
      BY <1>2
    <2> HIDE DEF S, f
    <2>4. PICK n \in Nat : DOMAIN test_res = 1 .. n
      BY <2>1
    <2>5. f \in [1 .. n -> S]
      BY <2>2, <2>3, <2>4
    <2>6. f \in Seq(S)
      BY <2>5, SMT
    <2> QED BY <2>6 DEF S, f
  <1>17. ParserInv'
    <2>1. ParserInv
      BY DEF ReadInv
    <2>2. \A e, f \in DOMAIN test_res' : test_res'[e].key = test_res'[f].key => e = f
      BY <1>15, <2>1 DEF ParserInv
    <2> QED BY <1>2, <1>7, <1>16, <2>1, <2>2 DEF ParserInv
  <1>18. BlockInv'
    <2>1. pos' \in {x + HeadLines, x + HeadLines + 1} /\ dump[x + HeadLines].is = "event"
      BY <1>4, <1>5, <1>9
    <2>2. InBlock(x)'
      BY <1>2, <1>10, <1>12, <1>13, <2>1 DEF InBlock
    <2>3. OthersPassed(x)'
      BY <1>3, <1>10, <1>11 DEF OthersPassed
    <2>4. x \in 1 .. pos'
      BY <1>6
    <2> QED BY <1>2, <2>2, <2>3, <2>4 DEF BlockInv
  <1>19. /\ \A q : KeyFiled(q) => KeyFiled(q)'
         /\ \A q, v : Filed(q, v) => Filed(q, v)'
    BY <1>15 DEF KeyFiled, Filed
  <1>20. FiledBehind(x)
    BY <1>13 DEF ReadInv, AllFiledInv
  <1>21. Filed(k, c)'
    <2>1. KeyFiled(k)
      BY <1>13, <1>20 DEF FiledBehind
    <2> QED BY <1>15, <2>1 DEF KeyFiled, Filed
  <1>22. FiledBehind(x)'
    <2>1. /\ x + H - 1 <= pos /\ KeyFiled(k)
          /\ \A y \in {z, z + 1} : y <= pos => Filed(k, dump[y])
      BY <1>4, <1>5, <1>9, <1>13, <1>20 DEF FiledBehind
    <2>2. ASSUME NEW y \in {z, z + 1}, y <= pos' PROVE Filed(k, dump[y])'
      <3>0. PICK v : v = dump[y]
        OBVIOUS
      <3>1. CASE y = pos'
        <4>1. v = c
          BY <1>8, <1>14, <3>0, <3>1
        <4> QED BY <1>2, <1>21, <3>0, <4>1 DEF Filed
      <3>2. CASE y # pos'
        <4>1. y <= pos
          BY <1>6, <2>2, <3>2
        <4>2. Filed(k, v)'
          BY <1>19, <2>1, <3>0, <4>1
        <4> QED BY <1>2, <3>0, <4>2 DEF Filed
      <3> QED BY <3>1, <3>2
    <2>3. x + H - 1 <= pos' /\ KeyFiled(k)'
      BY <1>4, <1>6, <1>19, <2>1
    <2>4. FiledBehind(x)' <=>
            /\ x + H - 1 <= pos' /\ KeyFiled(k)'
            /\ \A y \in {z, z + 1} : y <= pos' /\ dump[z].is = "event" => Filed(k, dump[y])'
      BY <1>2, <1>4, <1>5, <1>10, <1>13 DEF FiledBehind, KeyFiled, Filed
    <2> QED BY <2>2, <2>3, <2>4
  <1>23. AllFiledInv'
    <2>1. ASSUME NEW y \in 1 .. pos', Opened(y)' PROVE FiledBehind(y)'
      <3>1. y \in 1 .. pos /\ Opened(y)
        BY <1>11, <2>1
      <3>2. CASE y = x
        BY <1>22, <3>2
      <3>3. CASE y # x
        <4>1. Passed(y)
          BY <1>3, <3>1, <3>3 DEF OthersPassed
        <4> QED BY <1>2, <1>7, <1>19, <3>1, <4>1, StaysFiled
      <3> QED BY <3>2, <3>3
    <2> QED BY <2>1 DEF AllFiledInv
  <1>24. OnlyFiledInv'
    <2>1. 1 .. pos \subseteq 1 .. pos'
      BY <1>6
    <2>2. \A q, vs : FromFile(q, vs) => FromFile(q, vs)'
      BY <1>10, <2>1 DEF FromFile
    <2>3. x \in 1 .. pos' /\ KeyAt(k, x)' /\ ValueAt(c, x)'
      <3>1. ValueAt(c, x)
        BY <1>4, <1>5, <1>8, <1>9, <1>14 DEF ValueAt
      <3> QED BY <1>10, <1>13, <2>1, <3>1
    <2>4. \A vs : FromFile(k, vs) => FromFile(k, vs \cup {c})'
      BY <1>10, <2>1, <2>3 DEF FromFile
    <2>5. ASSUME NEW e \in DOMAIN test_res'
          PROVE  \E q, vs : q = test_res'[e].key /\ vs = test_res'[e].values /\ FromFile(q, vs)'
      <3>1. PICK q, vs : q = test_res[e].key /\ vs = test_res[e].values
        OBVIOUS
      <3>2. FromFile(q, vs)
        BY <1>15, <2>5, <3>1 DEF ReadInv, OnlyFiledInv
      <3>3. CASE q = k
        BY <1>15, <2>4, <2>5, <3>1, <3>2, <3>3
      <3>4. CASE q # k
        BY <1>15, <2>2, <2>5, <3>1, <3>2, <3>4
      <3> QED BY <3>3, <3>4
    <2> QED BY <2>5 DEF OnlyFiledInv, FromFile, KeyAt
  <1>25. HolesInv'
    <2>1. \A e \in DOMAIN test_res : test_res[e].values = {} => test_res[e].key = k
      BY <1>12 DEF ReadInv, HolesInv
    <2>2. \A e \in DOMAIN test_res' : test_res'[e].values # {}
      BY <1>15, <2>1
    <2> QED BY <2>2 DEF HolesInv
  <1> QED BY <1>17, <1>18, <1>23, <1>24, <1>25 DEF ReadInv

\* A block ends behind its second value.
LEMMA EndsBlock ==
  ASSUME FileInv, ReadInv, EndOfBlock
  PROVE  ReadInv'
  <1> USE DEF runVars
  <1>1. /\ Len(dump) \in Nat /\ DOMAIN dump = 1 .. Len(dump) /\ pos \in 0 .. Len(dump)
    BY ReadingTypes
  <1>2. /\ UNCHANGED <<dump, runs, script, ttype, test_res>> /\ state = "block"
        /\ state' = "seek" /\ pos' = pos + 1 /\ More /\ Current.is = "blank"
    BY DEF EndOfBlock, BlockOver
  <1>3. PICK x \in 1 .. pos :
          /\ x \in DOMAIN dump /\ InBlock(x) /\ OthersPassed(x) /\ Behind(x)
          /\ \/ pos = x + HeadLines - 1
             \/ /\ pos = x + HeadLines /\ dump[x + HeadLines].is = "event"
                /\ More /\ Current = dump[x + HeadLines + 1]
             \/ /\ pos = x + HeadLines + 1 /\ dump[x + HeadLines].is = "event"
                /\ More /\ Current.is = "blank"
    BY <1>2, BlockPosition
  <1>4. PICK H : H = HeadLines /\ H \in {1, 4}
    BY DEF HeadLines
  <1>5. PICK z : z = x + H
    OBVIOUS
  <1>6. x \in Nat /\ z \in Nat /\ pos \in Nat /\ pos' \in Nat /\ pos' = pos + 1 /\ pos < Len(dump)
    BY <1>1, <1>2, <1>3, <1>4, <1>5 DEF More
  <1>7. pos <= pos' /\ pos' \in 0 .. Len(dump) /\ pos' \in DOMAIN dump
    BY <1>1, <1>6
  <1>8. pos = z + 1 /\ dump[z].is = "event" /\ dump[pos].is = "cycles"
    <2>1. pos # x + H - 1
      <3>1. SUFFICES ASSUME pos = x + H - 1 PROVE FALSE
        OBVIOUS
      <3>2. pos + 1 = z
        BY <1>4, <1>5, <1>6, <3>1
      <3>3. z \in DOMAIN dump => dump[z].is \notin {"cycles", "blank"}
        BY <1>3, <1>4, <1>5 DEF Behind
      <3> QED BY <1>2, <1>6, <1>7, <3>2, <3>3 DEF Current
    <2>2. z \in DOMAIN dump /\ dump[z].is = "event" => dump[z + 1].is = "cycles"
      BY <1>3, <1>4, <1>5 DEF Behind
    <2>3. (pos = z \/ pos = z + 1) /\ dump[z].is = "event"
      BY <1>3, <1>4, <1>5, <2>1
    <2>4. z \in DOMAIN dump
      <3>1. z >= 1
        BY <1>4, <1>5, <1>6
      <3> QED BY <1>1, <1>6, <2>3, <3>1
    <2>5. pos # z
      BY <1>2, <1>3, <1>4, <1>5, <1>6, <2>1, <2>2, <2>3, <2>4
    <2> QED BY <2>2, <2>3, <2>4, <2>5
  <1>9. /\ HeadLines' = HeadLines /\ Opener' = Opener
        /\ \A y \in 1 .. pos : Passed(y) => Passed(y)'
        /\ \A k, y : KeyAt(k, y) => KeyAt(k, y)'
        /\ \A v, y : ValueAt(v, y)' <=> ValueAt(v, y)
    BY <1>2, <1>6, <1>7, ReadOn
  <1>10. ASSUME NEW y \in 1 .. pos', Opened(y)' PROVE y \in 1 .. pos /\ Opened(y)
    <2>1. dump[y].is = Opener
      BY <1>2, <1>9, <1>10 DEF Opened
    <2>2. y # pos + 1
      BY <1>2, <2>1 DEF Opener, Current
    <2>3. y \in 1 .. pos
      BY <1>6, <2>2
    <2> QED BY <2>1, <2>3 DEF Opened
  <1>11. Passed(x)'
    BY <1>2, <1>4, <1>5, <1>6, <1>8, <1>9 DEF Passed
  <1>12. ParserInv'
    BY <1>2, <1>7 DEF ReadInv, ParserInv
  <1>13. BlockInv'
    <2>1. \A y \in 1 .. pos : y # x /\ Opened(y) => Passed(y)
      BY <1>3 DEF OthersPassed
    <2> QED BY <1>2, <1>9, <1>10, <1>11, <2>1 DEF BlockInv
  <1>14. /\ \A k : KeyFiled(k)' <=> KeyFiled(k)
         /\ \A k, v : Filed(k, v)' <=> Filed(k, v)
    BY <1>2 DEF KeyFiled, Filed
  <1>15. AllFiledInv'
    <2>1. ASSUME NEW y \in 1 .. pos', Opened(y)' PROVE FiledBehind(y)'
      <3>1. y \in 1 .. pos /\ Opened(y)
        BY <1>10, <2>1
      <3>2. CASE y = x
        <4>1. PICK k : k = runs[dump[x].run]
          OBVIOUS
        <4>2. /\ KeyFiled(k) /\ \A w \in {z, z + 1} : w <= pos => Filed(k, dump[w])
          BY <1>4, <1>5, <1>8, <3>1, <3>2, <4>1 DEF ReadInv, AllFiledInv, FiledBehind
        <4>3. Filed(k, dump[z]) /\ Filed(k, dump[z + 1])
          BY <1>6, <1>8, <4>2
        <4>4. x + H - 1 <= pos'
          BY <1>4, <1>5, <1>6, <1>8
        <4>5. KeyFiled(k)' /\ Filed(k, dump[z])' /\ Filed(k, dump[z + 1])'
          BY <1>2, <4>2, <4>3 DEF KeyFiled, Filed
        <4>6. FiledBehind(x)' <=>
                /\ x + H - 1 <= pos' /\ KeyFiled(k)'
                /\ \A w \in {z, z + 1} : w <= pos' /\ dump[z].is = "event" => Filed(k, dump[w])'
          BY <1>2, <1>4, <1>5, <1>9, <4>1 DEF FiledBehind, KeyFiled, Filed
        <4> QED BY <3>2, <4>4, <4>5, <4>6
      <3>3. CASE y # x
        <4>1. Passed(y)
          BY <1>3, <3>1, <3>3 DEF OthersPassed
        <4> QED BY <1>2, <1>7, <1>14, <3>1, <4>1, StaysFiled
      <3> QED BY <3>2, <3>3
    <2> QED BY <2>1 DEF AllFiledInv
  <1>16. OnlyFiledInv'
    <2>1. 1 .. pos \subseteq 1 .. pos'
      BY <1>6
    <2>2. \A q, vs : FromFile(q, vs) => FromFile(q, vs)'
      BY <1>9, <2>1 DEF FromFile
    <2>3. ASSUME NEW e \in DOMAIN test_res'
          PROVE  \E q, vs : q = test_res'[e].key /\ vs = test_res'[e].values /\ FromFile(q, vs)'
      <3>1. PICK q, vs : q = test_res[e].key /\ vs = test_res[e].values
        OBVIOUS
      <3>2. FromFile(q, vs)
        BY <1>2, <2>3, <3>1 DEF ReadInv, OnlyFiledInv
      <3> QED BY <1>2, <2>2, <3>1, <3>2
    <2> QED BY <2>3 DEF OnlyFiledInv, FromFile, KeyAt
  <1>17. HolesInv'
    <2>1. \A e \in DOMAIN test_res : test_res[e].values # {}
      BY <1>8 DEF ReadInv, HolesInv
    <2> QED BY <1>2, <2>1 DEF HolesInv
  <1> QED BY <1>12, <1>13, <1>15, <1>16, <1>17 DEF ReadInv

\* At the end of the file, the table has results in all of its rows or the parser fails.
LEMMA FullTable ==
  ASSUME FileInv, ReadInv, Tabulate, state' = "done"
  PROVE  \A e \in DOMAIN test_res : test_res[e].values # {}
  <1>1. /\ state \in {"seek", "block"} /\ ~ More /\ test_res # <<>> /\ HasCycles(Last(test_res))
    BY DEF Tabulate
  <1>2. /\ Len(dump) \in Nat /\ DOMAIN dump = 1 .. Len(dump) /\ pos \in 0 .. Len(dump)
    BY ReadingTypes
  <1>3. script \in {"parser", "a_parser"}
    BY <1>1 DEF ReadInv, ParserInv
  <1> SUFFICES ASSUME NEW e \in DOMAIN test_res, test_res[e].values = {} PROVE FALSE
    OBVIOUS
  <1>4. /\ e = Len(test_res) /\ state = "block"
        /\ dump[pos].is = IF script = "parser" THEN "place" ELSE "label"
    BY <1>1 DEF ReadInv, HolesInv, Errors
  <1>5. script # "parser"
    <2>1. Last(test_res) = test_res[e]
      BY <1>4 DEF Last
    <2> QED BY <1>1, <2>1 DEF HasCycles
  <1>6. PICK x \in 1 .. pos : Behind(x) /\ (pos = x + HeadLines - 1 \/ More)
    BY <1>4, BlockPosition
  <1>7. x + 1 \in DOMAIN dump /\ pos = x + 1 - 1
    BY <1>1, <1>3, <1>5, <1>6 DEF Behind, HeadLines
  <1>8. pos < Len(dump)
    BY <1>2, <1>6, <1>7
  <1> QED BY <1>1, <1>8 DEF More

\* The invariant of the file and of the parser in it.
LEMMA InitReport == Init => ReportInv
  <1> SUFFICES ASSUME Init PROVE ReportInv
    OBVIOUS
  <1>1. FileInv
    BY InitFile
  <1>2. ReadInv
    BY <1>1, NothingRead DEF Init
  <1> QED BY <1>1, <1>2 DEF ReportInv

LEMMA ReportStep == ReportInv /\ [Next]_vars => ReportInv'
  <1> SUFFICES ASSUME ReportInv, [Next]_vars PROVE ReportInv'
    OBVIOUS
  <1> USE DEF runVars, parserVars
  <1>1. FileInv /\ ReadInv /\ FileInv'
    BY FileStep DEF ReportInv
  <1>2. SUFFICES ReadInv'
    BY <1>1 DEF ReportInv
  <1>3. ASSUME pos' = 0, test_res' = <<>>,
               \/ state' \in {"idle", "running"}
               \/ state' = "seek" /\ script' \in {"parser", "a_parser"}
        PROVE  ReadInv'
    <2>1. (FileInv /\ pos = 0 /\ test_res = <<>>
             /\ (state \in {"idle", "running"} \/ (state = "seek" /\ script \in {"parser", "a_parser"}))
             => ReadInv)'
      BY NothingRead, PTL
    <2> QED BY <1>1, <1>3, <2>1
  <1>4. state \in {"idle", "running"} => pos = 0 /\ test_res = <<>>
    BY <1>1 DEF ReadInv, ParserInv
  <1>5. ASSUME UNCHANGED vars PROVE ReadInv'
    <2>1. UNCHANGED <<dump, runs, state, script, pos, ttype, test_res>>
      BY <1>5 DEF vars
    <2>2. UNCHANGED <<Opener, HeadLines>>
      BY <2>1 DEF Opener, HeadLines
    <2>3. /\ \A x : Opened(x)' <=> Opened(x)
          /\ \A x : Passed(x)' <=> Passed(x)
          /\ \A k, v : Filed(k, v)' <=> Filed(k, v)
      BY <2>1, <2>2 DEF Opened, Passed, Filed
    <2>4. /\ \A x : InBlock(x)' <=> InBlock(x)
          /\ \A x : OthersPassed(x)' <=> OthersPassed(x)
      BY <2>1, <2>2, <2>3 DEF InBlock, OthersPassed
    <2>5. \A x : FiledBehind(x)' <=> FiledBehind(x)
      BY <2>1, <2>2 DEF FiledBehind, KeyFiled, Filed
    <2>6. ParserInv'
      BY <1>1, <2>1 DEF ReadInv, ParserInv
    <2>7. BlockInv'
      BY <1>1, <2>1, <2>3, <2>4 DEF ReadInv, BlockInv
    <2>8. AllFiledInv'
      BY <1>1, <2>1, <2>3, <2>5 DEF ReadInv, AllFiledInv
    <2>9. OnlyFiledInv'
      BY <1>1, <2>1, <2>2 DEF ReadInv, OnlyFiledInv, FromFile, KeyAt, ValueAt, Opened
    <2>10. HolesInv'
      BY <1>1, <2>1 DEF ReadInv, HolesInv
    <2> QED BY <2>6, <2>7, <2>8, <2>9, <2>10 DEF ReadInv
  <1>6. ASSUME NEW k \in Keys, Begin(k) PROVE ReadInv'
    BY <1>3, <1>4, <1>6 DEF Begin
  <1>7. CASE Abort
    BY <1>3, <1>4, <1>7 DEF Abort
  <1>8. CASE WriteBlocks
    BY <1>3, <1>4, <1>8 DEF WriteBlocks
  <1>9. ASSUME NEW s \in {"parser", "a_parser"}, OpenDump(s) PROVE ReadInv'
    BY <1>3, <1>4, <1>9 DEF OpenDump
  <1>10. CASE Seek
    BY <1>1, <1>10, SkipsLine, OpensBlock
  <1>11. CASE NotANumber
    <2>1. state' \in Errors /\ state' # "done"
      BY <1>11 DEF NotANumber, Errors
    <2> QED BY <1>1, <1>11, <2>1, StopsReading DEF NotANumber
  <1>12. CASE ReadValue
    BY <1>1, <1>12, ReadsValue
  <1>13. CASE EndOfBlock
    BY <1>1, <1>13, EndsBlock
  <1>14. CASE Tabulate
    <2>1. state' \in Errors \cup {"done"}
      BY <1>14 DEF Tabulate, Errors
    <2>2. state' = "done" => \A e \in DOMAIN test_res : test_res[e].values # {}
      BY <1>1, <1>14, FullTable
    <2> QED BY <1>1, <1>14, <2>1, <2>2, StopsReading DEF Tabulate
  <1>15. CASE Stopped
    BY <1>5, <1>15 DEF Stopped
  <1> QED BY <1>5, <1>6, <1>7, <1>8, <1>9, <1>10, <1>11, <1>12, <1>13, <1>14, <1>15 DEF Next

\* Between any two steps of the programs and of the parsers, the file is complete and the
\* parser has filed exactly what stands behind the headers or labels it has come past.
THEOREM ReportInvariance == Spec => []ReportInv
  <1> QED BY InitReport, ReportStep, PTL DEF Spec

-----------------------------------------------------------------------------

(***************************************************************************)
(* What the parsers tabulate.                                              *)
(***************************************************************************)

\* A table that is finished has results in all of its rows.
THEOREM NoHoles == Spec => []TableHasNoHoles
  <1>1. ReportInv => TableHasNoHoles
    <2> SUFFICES ASSUME ReportInv, state = "done", NEW e \in ToSet(test_res) PROVE e.values # {}
      BY DEF TableHasNoHoles
    <2>1. PICK i \in DOMAIN test_res : e = test_res[i]
      BY DEF ToSet
    <2> QED BY <2>1 DEF ReportInv, ReadInv, HolesInv, Errors
  <1> QED BY <1>1, ReportInvariance, PTL

\* A header of a run that was not aborted, and every label, is followed by two values of
\* the run, the first ones it printed.
LEMMA OwnBlock ==
  ASSUME NoFlush, ReportInv, script \in {"parser", "a_parser"},
         NEW x \in DOMAIN dump, dump[x].is = Opener,
         script = "a_parser" \/ ~ Unwritten(dump[x].run)
  PROVE  /\ x + HeadLines \in DOMAIN dump /\ x + HeadLines + 1 \in DOMAIN dump
         /\ dump[x + HeadLines].is = "event" /\ dump[x + HeadLines + 1].is = "cycles"
         /\ SameBlock(dump[x + HeadLines], dump[x + HeadLines + 1])
         /\ dump[x + HeadLines].run = dump[x].run
         /\ script = "parser" => dump[x + HeadLines].counter = Subject(dump[x].run)
         /\ script = "a_parser" => dump[x + HeadLines].counter = dump[x].counter
  <1>1. FileInv /\ ReadInv
    BY DEF ReportInv
  <1>2. Behind(x)
    BY <1>1, OpenedBehind
  <1>3. Len(dump) \in Nat /\ DOMAIN dump = 1 .. Len(dump)
    BY <1>1, ReadingTypes
  <1>4. PICK H : H = HeadLines /\ H \in {1, 4}
    BY DEF HeadLines
  <1>5. PICK z : z = x + H
    OBVIOUS
  <1>6. PICK h : h = dump[x].run
    OBVIOUS
  <1>7. /\ z \in DOMAIN dump /\ dump[z].is = "event" /\ dump[z].run = h
        /\ script = "parser" => dump[z].counter = Subject(h)
        /\ script = "a_parser" => dump[z].counter = dump[x].counter
    <2>1. CASE script = "parser"
      <3>1. H = 4 /\ dump[x].is = "TEST RUN"
        BY <1>4, <2>1 DEF HeadLines, Opener
      <3>2. FollowedInv(x, h) /\ ~ Unwritten(h)
        BY <1>1, <1>6, <2>1, <3>1 DEF FileInv, FirstBlockInv
      <3>3. h \in DOMAIN runs /\ ~ Strayed(h, h)
        <4>1. LineInv(runs, dump, x) /\ runs \in Seq(Keys)
          BY <1>1 DEF FileInv, RunsInv, Complete
        <4>2. h \in DOMAIN runs
          BY <1>6, <4>1 DEF LineInv
        <4>3. h \in Nat
          BY <4>1, <4>2
        <4>4. ~ h < h
          BY <4>3
        <4> QED BY <4>2, <4>4 DEF Strayed
      <3>4. x + 4 \in DOMAIN dump /\ dump[x + 4].is = "event" /\ dump[x + 4].run = h
        BY <3>2 DEF FollowedInv
      <3>5. dump[x + 4].counter = Subject(h)
        BY <3>2, <3>3, <3>4 DEF FollowedInv
      <3>6. z = x + 4
        BY <1>5, <3>1
      <3> QED BY <2>1, <3>4, <3>5, <3>6
    <2>2. CASE script = "a_parser"
      <3>1. z = x + 1
        BY <1>4, <1>5, <2>2 DEF HeadLines
      <3> QED BY <1>2, <1>6, <2>2, <3>1 DEF Behind, SameBlock
    <2> QED BY <2>1, <2>2
  <1>8. z + 2 \in DOMAIN dump /\ dump[z + 1].is = "cycles" /\ SameBlock(dump[z], dump[z + 1])
    BY <1>2, <1>4, <1>5, <1>7 DEF Behind
  <1>9. z + 1 \in DOMAIN dump
    <2>1. z \in Nat
      BY <1>3, <1>7
    <2> QED BY <1>3, <1>8, <2>1
  <1> QED BY <1>4, <1>5, <1>6, <1>7, <1>8, <1>9

\* At the end of the file, these two values have been filed.
LEMMA OwnBlockFiled ==
  ASSUME NoFlush, ReportInv, script \in {"parser", "a_parser"}, pos = Len(dump),
         NEW x \in DOMAIN dump, dump[x].is = Opener,
         script = "a_parser" \/ ~ Unwritten(dump[x].run)
  PROVE  /\ Filed(runs[dump[x].run], dump[x + HeadLines])
         /\ Filed(runs[dump[x].run], dump[x + HeadLines + 1])
  <1>1. FileInv /\ ReadInv
    BY DEF ReportInv
  <1>2. Len(dump) \in Nat /\ DOMAIN dump = 1 .. Len(dump)
    BY <1>1, ReadingTypes
  <1>3. PICK z : z = x + HeadLines
    OBVIOUS
  <1>4. z \in DOMAIN dump /\ z + 1 \in DOMAIN dump /\ dump[z].is = "event"
    BY <1>3, OwnBlock
  <1>5. x \in 1 .. pos /\ z <= pos /\ z + 1 <= pos
    BY <1>2, <1>4
  <1>6. FiledBehind(x)
    BY <1>1, <1>5 DEF ReadInv, AllFiledInv, Opened
  <1> QED BY <1>3, <1>4, <1>5, <1>6 DEF FiledBehind

\* If every test prints something, a value is filed under the test that was run, or the
\* run of the header it is filed under was aborted.
THEOREM ValuesFiledRight ==
  ASSUME NoFlush
  PROVE  Spec => []FiledRight
  <1>1. ReportInv => FiledRight
    <2> SUFFICES ASSUME ReportInv, NEW e \in ToSet(test_res), NEW v \in e.values
                 PROVE  /\ v.print = 1
                        /\ \/ runs[v.run] = e.key /\ v.counter \in AboutOf(v.run)
                           \/ /\ script = "parser" /\ v.counter = 1
                              /\ \E h \in DOMAIN runs : runs[h] = e.key /\ Strayed(h, v.run)
      BY DEF FiledRight
    <2>1. FileInv /\ ReadInv
      BY DEF ReportInv
    <2>2. PICK i \in DOMAIN test_res : e = test_res[i]
      BY DEF ToSet
    <2>3. FromFile(e.key, e.values)
      BY <2>1, <2>2 DEF ReadInv, OnlyFiledInv
    <2>4. PICK x \in 1 .. pos : KeyAt(e.key, x) /\ ValueAt(v, x)
      BY <2>3 DEF FromFile
    <2>5. script \in {"parser", "a_parser"}
      <3>1. test_res # <<>>
        BY <2>2
      <3> QED BY <2>1, <3>1 DEF ReadInv, ParserInv
    <2>6. /\ Len(dump) \in Nat /\ DOMAIN dump = 1 .. Len(dump) /\ pos \in 0 .. Len(dump)
      BY <2>1, ReadingTypes
    <2>7. x \in DOMAIN dump
      BY <2>6
    <2>8. dump[x].is = Opener
      BY <2>4 DEF KeyAt, Opened
    <2>9. PICK h : h = dump[x].run
      OBVIOUS
    <2>10. LineInv(runs, dump, x)
      BY <2>1, <2>7 DEF FileInv, RunsInv, Complete
    <2>11. h \in DOMAIN runs /\ e.key = runs[h]
      BY <2>4, <2>9, <2>10 DEF KeyAt, LineInv
    <2>12. Behind(x)
      BY <2>1, <2>5, <2>7, <2>8, OpenedBehind
    <2>13. PICK z : z = x + HeadLines
      OBVIOUS
    <2>14. z \in DOMAIN dump /\ dump[z].is = "event" /\ v \in {dump[z], dump[z + 1]}
      BY <2>4, <2>13 DEF ValueAt
    <2>15. SameBlock(dump[z], dump[z + 1])
      BY <2>12, <2>13, <2>14 DEF Behind
    <2>16. v.run = dump[z].run /\ v.counter = dump[z].counter /\ v.print = dump[z].print
      BY <2>14, <2>15 DEF SameBlock
    <2>17. CASE script = "parser"
      <3>1. z = x + 4 /\ dump[x].is = "TEST RUN"
        BY <2>8, <2>13, <2>17 DEF HeadLines, Opener
      <3>2. FollowedInv(x, h)
        BY <2>1, <2>7, <2>9, <3>1 DEF FileInv, FirstBlockInv
      <3>3. /\ dump[z].print = 1
            /\ \/ dump[z].run = h /\ dump[z].counter = Subject(h)
               \/ dump[z].counter = 1 /\ Strayed(h, dump[z].run)
        BY <2>14, <3>1, <3>2 DEF FollowedInv
      <3>4. AboutOf(h) = {Subject(h)}
        <4>1. runs[h].type \notin Headerless
          BY <2>9, <2>10, <3>1 DEF LineInv
        <4> QED BY <2>17, <4>1 DEF AboutOf
      <3> QED BY <2>11, <2>16, <2>17, <3>3, <3>4
    <2>18. CASE script = "a_parser"
      <3>1. z = x + 1 /\ dump[x].is = "label"
        BY <2>8, <2>13, <2>18 DEF HeadLines, Opener
      <3>2. /\ SameBlock(dump[x], dump[x + 1]) /\ runs[h].type = "A_MEASUREMENT"
            /\ dump[x].counter \in 1 .. 3 /\ dump[x].print = 1
        BY <2>9, <2>10, <3>1 DEF LineInv
      <3>3. AboutOf(h) = 1 .. 3
        BY <2>18, <3>2 DEF AboutOf
      <3> QED BY <2>9, <2>11, <2>16, <3>1, <3>2, <3>3 DEF SameBlock
    <2> QED BY <2>5, <2>17, <2>18
  <1> QED BY <1>1, ReportInvariance, PTL

\* If every test prints something, the events and the cycles of every run that was not
\* aborted get into the table.
THEOREM RunsNotLost ==
  ASSUME NoFlush
  PROVE  Spec => []NothingLost
  <1>1. ReportInv => NothingLost
    <2> SUFFICES ASSUME ReportInv, state = "done", NEW r \in DOMAIN runs \ aborted,
                        NEW n \in AboutOf(r), NEW is \in {"event", "cycles"}
                 PROVE  \E e \in ToSet(test_res) : \E v \in e.values :
                          e.key = runs[r] /\ v.run = r /\ v.counter = n /\ v.is = is
      BY DEF NothingLost
    <2>1. FileInv /\ ReadInv
      BY DEF ReportInv
    <2>2. pos = Len(dump) /\ script \in {"parser", "a_parser"}
      BY <2>1 DEF ReadInv, ParserInv
    <2>3. ~ Unwritten(r)
      BY DEF Unwritten
    <2>4. PICK x \in DOMAIN dump :
            /\ dump[x].is = Opener /\ dump[x].run = r
            /\ script = "parser" => n = Subject(r)
            /\ script = "a_parser" => n = dump[x].counter
      <3>1. CASE script = "parser"
        <4>1. runs[r].type \notin Headerless /\ n = Subject(r)
          BY <3>1 DEF AboutOf
        <4>2. Headed(r)
          BY <2>1, <4>1 DEF FileInv, WrittenInv
        <4> QED BY <3>1, <4>1, <4>2 DEF Headed, Opener
      <3>2. CASE script = "a_parser"
        <4>1. runs[r].type = "A_MEASUREMENT" /\ n \in 1 .. 3
          BY <3>2 DEF AboutOf
        <4>2. Labelled(r, n)
          BY <2>1, <2>3, <4>1 DEF FileInv, WrittenInv
        <4> QED BY <3>2, <4>2 DEF Labelled, Opener
      <3> QED BY <2>2, <3>1, <3>2
    <2>5. PICK z : z = x + HeadLines
      OBVIOUS
    <2>6. /\ dump[z].is = "event" /\ dump[z + 1].is = "cycles" /\ SameBlock(dump[z], dump[z + 1])
          /\ dump[z].run = r /\ dump[z].counter = n
      BY <2>2, <2>3, <2>4, <2>5, OwnBlock
    <2>7. Filed(runs[r], dump[z]) /\ Filed(runs[r], dump[z + 1])
      BY <2>2, <2>3, <2>4, <2>5, OwnBlockFiled
    <2>8. PICK v : Filed(runs[r], v) /\ v.run = r /\ v.counter = n /\ v.is = is
      <3>1. CASE is = "event"
        BY <2>6, <2>7, <3>1
      <3>2. CASE is = "cycles"
        BY <2>6, <2>7, <3>2 DEF SameBlock
      <3> QED BY <3>1, <3>2
    <2>9. PICK i \in DOMAIN test_res : test_res[i].key = runs[r] /\ v \in test_res[i].values
      BY <2>8 DEF Filed
    <2>10. test_res[i] \in ToSet(test_res)
      BY DEF ToSet
    <2> QED BY <2>8, <2>9, <2>10
  <1> QED BY <1>1, ReportInvariance, PTL

\* If no run was aborted, no header or label comes where a value should be.
LEMMA NoWordForANumber ==
  ASSUME NoFlush, ReportInv, aborted = {}, NotANumber
  PROVE  FALSE
  <1>1. FileInv /\ ReadInv
    BY DEF ReportInv
  <1>2. /\ state = "block" /\ More /\ Current.is \in {"TEST RUN", "size", "type", "place", "label"}
    BY HeaderWords DEF NotANumber
  <1>3. PICK x \in 1 .. pos :
          /\ x \in DOMAIN dump /\ InBlock(x) /\ Behind(x)
          /\ \/ pos = x + HeadLines - 1
             \/ /\ pos = x + HeadLines /\ dump[x + HeadLines].is = "event"
                /\ Current = dump[x + HeadLines + 1]
             \/ Current.is = "blank"
    BY <1>1, <1>2, BlockPosition
  <1>4. script \in {"parser", "a_parser"}
    BY <1>1, <1>2 DEF ReadInv, ParserInv
  <1>5. dump[x].is = Opener
    BY <1>3 DEF InBlock, Opened
  <1>6. ~ Unwritten(dump[x].run)
    BY <1>2 DEF Unwritten
  <1>7. PICK H : H = HeadLines /\ H \in {1, 4}
    BY DEF HeadLines
  <1>8. PICK z : z = x + H
    OBVIOUS
  <1>9. z \in DOMAIN dump /\ dump[z].is = "event" /\ dump[z + 1].is = "cycles"
    BY <1>3, <1>4, <1>5, <1>6, <1>7, <1>8, OwnBlock
  <1>10. Current = dump[z] \/ Current = dump[z + 1] \/ Current.is = "blank"
    <2>1. CASE pos = x + H - 1
      <3>1. pos + 1 = z
        <4>1. /\ Len(dump) \in Nat /\ DOMAIN dump = 1 .. Len(dump) /\ pos \in 0 .. Len(dump)
          BY <1>1, ReadingTypes
        <4> QED BY <1>3, <1>7, <1>8, <2>1, <4>1
      <3> QED BY <3>1 DEF Current
    <2> QED BY <1>3, <1>7, <1>8, <2>1
  <1> QED BY <1>2, <1>9, <1>10

\* If no run was aborted and there is one the parser is for, the table has columns.
LEMMA HasColumns ==
  ASSUME NoFlush, ReportInv, aborted = {}, NEW r \in DOMAIN runs, AboutOf(r) # {}, Tabulate
  PROVE  test_res # <<>> /\ HasCycles(Last(test_res))
  <1>1. FileInv /\ ReadInv
    BY DEF ReportInv
  <1>2. state \in {"seek", "block"} /\ ~ More
    BY DEF Tabulate
  <1>3. script \in {"parser", "a_parser"}
    BY <1>1, <1>2 DEF ReadInv, ParserInv
  <1>4. /\ Len(dump) \in Nat /\ DOMAIN dump = 1 .. Len(dump) /\ pos = Len(dump)
    <2>1. Len(dump) \in Nat /\ DOMAIN dump = 1 .. Len(dump) /\ pos \in 0 .. Len(dump)
      BY <1>1, ReadingTypes
    <2>2. ~ pos < Len(dump)
      BY <1>2 DEF More
    <2>3. PICK L : L = Len(dump)
      OBVIOUS
    <2>4. L \in Nat /\ pos \in 0 .. L /\ ~ pos < L
      BY <2>1, <2>2, <2>3
    <2>5. pos = L
      BY <2>4
    <2> QED BY <2>1, <2>3, <2>5
  <1>5. \A h : ~ Unwritten(h)
    BY <1>2 DEF Unwritten
  <1>6. PICK x \in DOMAIN dump : dump[x].is = Opener
    <2>1. CASE script = "parser"
      <3>1. runs[r].type \notin Headerless
        BY <2>1 DEF AboutOf
      <3>2. Headed(r)
        BY <1>1, <3>1 DEF FileInv, WrittenInv
      <3> QED BY <2>1, <3>2 DEF Headed, Opener
    <2>2. CASE script = "a_parser"
      <3>1. runs[r].type = "A_MEASUREMENT"
        BY <2>2 DEF AboutOf
      <3>2. 1 \in 1 .. 3
        OBVIOUS
      <3>3. Labelled(r, 1)
        BY <1>1, <1>5, <3>1, <3>2 DEF FileInv, WrittenInv
      <3> QED BY <2>2, <3>3 DEF Labelled, Opener
    <2> QED BY <1>3, <2>1, <2>2
  <1>7. PICK k : Filed(k, dump[x + HeadLines])
    BY <1>3, <1>4, <1>5, <1>6, OwnBlockFiled
  <1>8. test_res # <<>>
    BY <1>7 DEF Filed
  <1>9. PICK n : n = Len(test_res)
    OBVIOUS
  <1>10. n \in DOMAIN test_res /\ Last(test_res) = test_res[n]
    <2>1. test_res \in Seq([key : Keys, values : SUBSET Lines])
      BY <1>1, ReadingTypes
    <2> DEFINE S == [key : Keys, values : SUBSET Lines]
    <2>2. test_res \in Seq(S)
      BY <2>1, Zenon
    <2> HIDE DEF S
    <2> QED BY <1>8, <1>9, <2>2 DEF Last
  <1>11. PICK y \in 1 .. pos : KeyAt(test_res[n].key, y)
    BY <1>1, <1>10 DEF ReadInv, OnlyFiledInv, FromFile
  <1>12. y \in DOMAIN dump /\ dump[y].is = Opener /\ test_res[n].key = runs[dump[y].run]
    BY <1>4, <1>11 DEF KeyAt, Opened
  <1>13. PICK v : v = dump[y + HeadLines + 1]
    OBVIOUS
  <1>14. v.is = "cycles" /\ Filed(test_res[n].key, v)
    BY <1>3, <1>4, <1>5, <1>12, <1>13, OwnBlock, OwnBlockFiled
  <1>15. PICK i \in DOMAIN test_res : test_res[i].key = test_res[n].key /\ v \in test_res[i].values
    BY <1>14 DEF Filed
  <1>16. i = n
    BY <1>1, <1>10, <1>15 DEF ReadInv, ParserInv
  <1> QED BY <1>8, <1>10, <1>14, <1>15, <1>16 DEF HasCycles

\* If every test prints something, a parser reads every file of complete runs, one of which
\* at least has results for it.
THEOREM CompleteRunsParsed ==
  ASSUME NoFlush
  PROVE  Spec => []ParsesCompleteRuns
  <1>1. Init => ParsesCompleteRuns
    BY DEF Init, ParsesCompleteRuns, Errors
  <1>2. ReportInv /\ ParsesCompleteRuns /\ [Next]_vars => ParsesCompleteRuns'
    <2> SUFFICES ASSUME ReportInv, ParsesCompleteRuns, [Next]_vars, aborted' = {},
                        NEW r \in DOMAIN runs', HasResults(r)'
                 PROVE  state' \notin Errors
      BY DEF ParsesCompleteRuns, Errors
    <2> USE DEF runVars, parserVars
    <2>1. ASSUME UNCHANGED <<runs, aborted, script, state>> PROVE state' \notin Errors
      <3>1. HasResults(r) /\ r \in DOMAIN runs /\ aborted = {}
        BY <2>1 DEF HasResults, AboutOf, Subject
      <3> QED BY <2>1, <3>1 DEF ParsesCompleteRuns
    <2>2. CASE UNCHANGED vars
      BY <2>1, <2>2 DEF vars
    <2>3. ASSUME state' \in {"idle", "running", "seek", "block", "done"} PROVE state' \notin Errors
      BY <2>3 DEF Errors
    <2>4. ASSUME NEW k \in Keys, Begin(k) PROVE state' \notin Errors
      BY <2>3, <2>4 DEF Begin
    <2>5. CASE Abort
      BY <2>3, <2>5 DEF Abort
    <2>6. CASE WriteBlocks
      BY <2>3, <2>6 DEF WriteBlocks
    <2>7. ASSUME NEW s \in {"parser", "a_parser"}, OpenDump(s) PROVE state' \notin Errors
      BY <2>3, <2>7 DEF OpenDump
    <2>8. CASE Seek
      BY <2>3, <2>8 DEF Seek
    <2>9. CASE NotANumber
      <3>1. aborted = {}
        BY <2>9 DEF NotANumber
      <3> QED BY <2>9, <3>1, NoWordForANumber
    <2>10. CASE ReadValue
      BY <2>1, <2>10 DEF ReadValue, ParsesCompleteRuns
    <2>11. CASE EndOfBlock
      BY <2>3, <2>11 DEF EndOfBlock, BlockOver
    <2>12. CASE Tabulate
      <3>1. AboutOf(r) # {} /\ r \in DOMAIN runs /\ aborted = {}
        BY <2>12 DEF Tabulate, HasResults, AboutOf, Subject
      <3>2. test_res # <<>> /\ HasCycles(Last(test_res))
        BY <2>12, <3>1, HasColumns
      <3>3. state' = "done"
        BY <2>12, <3>2 DEF Tabulate
      <3> QED BY <2>3, <3>3
    <2>13. CASE Stopped
      BY <2>1, <2>13 DEF Stopped, vars
    <2> QED BY <2>2, <2>4, <2>5, <2>6, <2>7, <2>8, <2>9, <2>10, <2>11, <2>12, <2>13 DEF Next
  <1> QED BY <1>1, <1>2, ReportInvariance, PTL DEF Spec

=============================================================================
