-------------------------------- MODULE Report --------------------------------
(***************************************************************************)
(* The results of the tests on their way to result.dat.  dump.dat holds    *)
(* what all runs of all programs have appended:                            *)
(*   run_test        a header, and after the test the counters' blocks     *)
(*   a_measurement   one labelled block for each counter                   *)
(*   reader_writer   blocks with neither, since it calls                   *)
(*                   counters_with_schedule, which prints                  *)
(* scripts/parser.py files the values under the headers, a_parser.py under *)
(* the labels.                                                             *)
(*                                                                         *)
(* A key is what a parser takes for the identity of a test: its type,      *)
(* placement and size, or the label.  A line says what it holds and, for   *)
(* the properties, which run wrote it.  All tests measure one event.       *)
(***************************************************************************)
EXTENDS Naturals, Sequences, SequencesExt, FiniteSets, FiniteSetsExt

CONSTANTS
  Keys,       \* the tests programs run, [type, variant]
  MaxRuns,    \* bound: tests that are run
  MaxAborts   \* bound: runs that end the process

ASSUME ReportAssumption ==
  /\ \A k \in Keys : k.type \in STRING
  /\ MaxRuns \in Nat /\ MaxAborts \in Nat

VARIABLES
  dump,       \* the lines of dump.dat
  runs,       \* history: the keys of all runs, in order
  aborted,    \* history: the runs that ended the process
  state,      \* of the program, then of the parser
  script,     \* the parser
  pos,        \* lines it has read
  ttype,      \* the key of the header or label it is at
  test_res    \* for each key in the order of its first header, what was filed

runVars == <<runs, aborted>>
parserVars == <<script, pos, ttype, test_res>>
vars == <<dump, runVars, state, parserVars>>

\* The lines of run_test's header.
Header == <<"TEST RUN", "size", "type", "place">>

\* The programs that do not use run_test.
Headerless == {"A_MEASUREMENT", "READER_WRITER"}

\* A counter prints values of its events, if it has some, and of its cycles, if
\* its benchmark has taken any.
Eventless == [events |-> FALSE, cycles |-> FALSE]
Recipe    == [events |-> FALSE, cycles |-> TRUE]
Measured  == [events |-> TRUE,  cycles |-> TRUE]

\* The counters run_test gets back: of the flushers, which take no time, the
\* recipe, and the measured benchmark, the only one that has been given events.
\* a_measurement.cpp has three schedules with events, reader_writer.cpp two.
Counters(t) ==
  CASE t \in {"PRODUCER_CONSUMER", "READER_WRITER"} -> <<Measured, Measured>>
    [] t = "A_MEASUREMENT" -> <<Measured, Measured, Measured>>
    [] t = "FLUSH" -> <<Eventless, Eventless, Eventless, Eventless>>
    [] OTHER -> <<Eventless, Eventless, Eventless, Recipe, Measured>>

Init ==
  /\ dump = <<>> /\ runs = <<>> /\ aborted = {}
  /\ state = "idle" /\ script = "none"
  /\ pos = 0 /\ ttype = <<>> /\ test_res = <<>>

\* A test begins: run_test opens dump.dat to append and writes the header.
Begin(k) ==
  /\ state = "idle" /\ Len(runs) < MaxRuns
  /\ runs' = Append(runs, k)
  /\ dump' = IF k.type \in Headerless THEN dump
             ELSE dump \o [l \in 1 .. 4 |->
                             [is |-> Header[l], run |-> Len(runs'), counter |-> 0, print |-> 0]]
  /\ state' = "running"
  /\ UNCHANGED <<aborted, parserVars>>

\* An affinity or PAPI call fails in the test: the process ends.
Abort ==
  /\ state = "running" /\ Cardinality(aborted) < MaxAborts
  /\ aborted' = aborted \cup {Len(runs)}
  /\ state' = "idle"
  /\ UNCHANGED <<dump, runs, parserVars>>

\* Mistake: a block has no blank line at its end.
NoBlank == <<>>

\* os << std::endl
Blank == <<"blank">>

\* stats_to_stream: what a counter of a test of type t prints.
Block(t, c) ==
  IF ~ c.events /\ ~ c.cycles THEN <<>>
  ELSE (IF t = "A_MEASUREMENT" THEN <<"label">> ELSE <<>>)
         \o (IF c.events THEN <<"event">> ELSE <<>>) \o <<"cycles">> \o Blank

\* The p-th print of the n-th counter.
BlockOf(n, p) ==
  LET t == Last(runs).type
      lines == Block(t, Counters(t)[n])
  IN  [l \in DOMAIN lines |->
         [is |-> lines[l], run |-> Len(runs), counter |-> n, print |-> p]]

\* counters_with_schedule prints all counters, and so does a_measurement.cpp.
PrintedAll(p) == FlattenSeq([n \in DOMAIN Counters(Last(runs).type) |-> BlockOf(n, p)])

\* run_test prints the counters with events.
Printed(p) ==
  FlattenSeq([n \in DOMAIN Counters(Last(runs).type) |->
                IF Counters(Last(runs).type)[n].events THEN BlockOf(n, p) ELSE <<>>])

\* Mistake: run_test prints its results before it runs the schedule.
PrintsBefore ==
  IF Last(runs).type = "PRODUCER_CONSUMER" THEN Printed(2) \o PrintedAll(1)
  ELSE IF Last(runs).type \in Headerless THEN PrintedAll(1) ELSE Printed(1)

\* counters_with_schedule prints the counters, then run_test.
Prints ==
  CASE Last(runs).type = "PRODUCER_CONSUMER" -> PrintedAll(1) \o Printed(2)
    [] Last(runs).type \in Headerless        -> PrintedAll(1)
    [] OTHER                                 -> Printed(1)

\* The test is over.
WriteBlocks ==
  /\ state = "running"
  /\ dump' = dump \o Prints
  /\ state' = "idle"
  /\ UNCHANGED <<runVars, parserVars>>

\* Somebody starts a parser.
OpenDump(s) ==
  /\ state = "idle"
  /\ state' = "seek" /\ script' = s
  /\ UNCHANGED <<dump, runVars, pos, ttype, test_res>>

More == pos < Len(dump)
Current == dump[pos + 1]

\* The line a block of results is looked for after, and how many lines it heads.
Opener == IF script = "parser" THEN "TEST RUN" ELSE "label"
HeadLines == IF script = "parser" THEN 4 ELSE 1

\* Outside a block: skip lines up to a header, and read all lines of it.
Seek ==
  /\ state = "seek" /\ More
  /\ IF Current.is = Opener
     THEN /\ pos' = pos + HeadLines
          /\ ttype' = runs[Current.run]
          /\ test_res' = IF \E e \in ToSet(test_res) : e.key = ttype'
                         THEN test_res
                         ELSE Append(test_res, [key |-> ttype', values |-> {}])
          /\ state' = "block"
     ELSE /\ pos' = pos + 1
          /\ UNCHANGED <<ttype, test_res, state>>
  /\ UNCHANGED <<dump, runVars, script>>

\* A line whose second word is no number, where float() raises a ValueError, or
\* that has one word only.
NotANumber ==
  /\ state = "block" /\ More
  /\ Current.is \in ToSet(Header) \cup {"label"}
  /\ state' = IF Current.is = "label" THEN "IndexError" ELSE "ValueError"
  /\ UNCHANGED <<dump, runVars, parserVars>>

\* A line of a block: its value is added to what the key has.
ReadValue ==
  /\ state = "block" /\ More
  /\ Current.is \in {"event", "cycles"}
  /\ test_res' = [e \in DOMAIN test_res |->
                    IF test_res[e].key = ttype
                    THEN [test_res[e] EXCEPT !.values = @ \cup {Current}]
                    ELSE test_res[e]]
  /\ pos' = pos + 1
  /\ UNCHANGED <<dump, runVars, state, script, ttype>>

\* Mistake: a blank line does not end the block.
StillInBlock == "block"

\* while rline.strip() != ""
BlockOver == "seek"

\* A blank line ends the block.
EndOfBlock ==
  /\ state = "block" /\ More
  /\ Current.is = "blank"
  /\ pos' = pos + 1
  /\ state' = BlockOver
  /\ UNCHANGED <<dump, runVars, script, ttype, test_res>>

\* Mistake: nobody looks whether the table has a column of cycles.
AnyColumns(e) == TRUE

\* list(df.columns).index("Cycles"), which a_parser.py does without
HasCycles(e) == script = "parser" => \E v \in e.values : v.is = "cycles"

\* End of the file.  The columns of the table are those of the test that was
\* filed first most recently, and for parser.py "Cycles" has to be one of them;
\* a file without any test leaves the name of the columns undefined.
Tabulate ==
  /\ state \in {"seek", "block"} /\ ~ More
  /\ state' = IF test_res = <<>> THEN "NameError"
              ELSE IF HasCycles(Last(test_res)) THEN "done" ELSE "ValueError"
  /\ UNCHANGED <<dump, runVars, parserVars>>

Errors == {"NameError", "ValueError", "IndexError"}

Stopped == state \in Errors \cup {"done"} /\ UNCHANGED vars

Next ==
  \/ \E k \in Keys : Begin(k)
  \/ Abort \/ WriteBlocks
  \/ \E s \in {"parser", "a_parser"} : OpenDump(s)
  \/ Seek \/ NotANumber \/ ReadValue \/ EndOfBlock
  \/ Tabulate
  \/ Stopped

Spec == Init /\ [][Next]_vars

-----------------------------------------------------------------------------

\* The counter a test of run_test is about, which is also the first it prints.
Subject(r) ==
  IF runs[r].type = "PRODUCER_CONSUMER" THEN 1 ELSE Len(Counters(runs[r].type))

\* The counters of run r that a parser is to file: all that are labelled, or the
\* one the test is about.
AboutOf(r) ==
  CASE script = "a_parser" /\ runs[r].type = "A_MEASUREMENT" -> 1 .. 3
    [] script = "parser" /\ runs[r].type \notin Headerless -> {Subject(r)}
    [] OTHER -> {}

\* Run h wrote a header and no block, and the first block behind it is that of a
\* program without headers, in run r.
Strayed(h, r) ==
  /\ h \in aborted /\ h < r /\ runs[h].type \notin Headerless
  /\ runs[r].type = "READER_WRITER"
  /\ \A g \in h + 1 .. r - 1 : g \in aborted /\ runs[g].type \in Headerless

\* A value is filed under the test that was run, and comes from the first print of
\* a counter that test is about, though the file also holds the second print,
\* whose cycles are doubled, the counter of the consumer, and what other programs
\* have printed.  There is one way to go wrong among tests that print something: a
\* block without a header or label is filed under a header whose own run was aborted
\* right before.  FLUSH, which prints nothing, opens a second way, without any abort:
\* its header followed by such a block.
FiledRight ==
  \A e \in ToSet(test_res) : \A v \in e.values :
    /\ v.print = 1
    /\ \/ runs[v.run] = e.key /\ v.counter \in AboutOf(v.run)
       \/ /\ script = "parser" /\ v.counter = 1
          /\ \E h \in DOMAIN runs : runs[h] = e.key /\ Strayed(h, v.run)

\* When a parser gets to its end, every run it is for that was not aborted has been
\* filed, with events and cycles.
NothingLost ==
  state = "done" =>
    \A r \in DOMAIN runs \ aborted :
      \A n \in AboutOf(r), is \in {"event", "cycles"} :
        \E e \in ToSet(test_res) : \E v \in e.values :
          e.key = runs[r] /\ v.run = r /\ v.counter = n /\ v.is = is

\* Run r is one the parser files results of, which FLUSH is not: it has none.
HasResults(r) == \E n \in AboutOf(r) : Counters(runs[r].type)[n].events

\* A parser reads every file of complete runs, one of which at least has results for it.
ParsesCompleteRuns ==
  aborted = {} /\ (\E r \in DOMAIN runs : HasResults(r)) => state \notin Errors

\* A table that is finished has results in all of its rows: a test whose only run
\* was aborted never gets there as an empty row, because the parser stops at the
\* next header or label, or misses the cycles in its columns.
TableHasNoHoles == state = "done" => \A e \in ToSet(test_res) : e.values # {}

-----------------------------------------------------------------------------

(***************************************************************************)
(* Why it works: which lines follow which in dump.dat, and where a parser  *)
(* is among them.                                                          *)
(***************************************************************************)

Lines == [is : ToSet(Header) \cup {"label", "event", "cycles", "blank"},
          run : Nat, counter : Nat, print : Nat]

\* l and m are of the same print of the same counter.
SameBlock(l, m) == l.run = m.run /\ l.counter = m.counter /\ l.print = m.print

\* A header begins at line x of d, values at line x.
HeaderAt(d, x) ==
  /\ x + 3 \in DOMAIN d
  /\ d[x + 1].is = "size" /\ d[x + 2].is = "type" /\ d[x + 3].is = "place"
ValuesAt(d, x) ==
  /\ x + 2 \in DOMAIN d
  /\ d[x].is = "event" /\ d[x + 1].is = "cycles" /\ d[x + 2].is = "blank"
  /\ SameBlock(d[x], d[x + 1])

LineInv(rs, d, x) ==
  /\ d[x].run \in DOMAIN rs
  /\ d[x].is = "TEST RUN" => HeaderAt(d, x) /\ rs[d[x].run].type \notin Headerless
  /\ d[x].is = "label" => /\ ValuesAt(d, x + 1) /\ SameBlock(d[x], d[x + 1])
                          /\ rs[d[x].run].type = "A_MEASUREMENT"
                          /\ d[x].counter \in 1 .. 3 /\ d[x].print = 1
  /\ d[x].is = "event" => ValuesAt(d, x)
  /\ d[x].is = "cycles" => x > 1 /\ d[x - 1].is = "event"
  /\ d[x].is = "blank" => x > 1 /\ d[x - 1].is = "cycles"

\* d consists of complete headers and blocks of runs rs; a block has no other
\* beginning or end.
Complete(rs, d) == d \in Seq(Lines) /\ \A x \in DOMAIN d : LineInv(rs, d, x)

RunsInv ==
  /\ runs \in Seq(Keys) /\ aborted \subseteq DOMAIN runs
  /\ state \in {"idle", "running", "seek", "block", "done"} \cup Errors
  /\ state = "running" => runs # <<>> /\ Len(runs) \notin aborted
  /\ Complete(runs, dump)

\* The current run has not been written yet, and neither have those that were aborted.
Unwritten(r) == r \in aborted \/ (state = "running" /\ r = Len(runs))

\* What a test of run_test or a_measurement.cpp leaves in the file.
Headed(r) == \E x \in DOMAIN dump : dump[x].is = "TEST RUN" /\ dump[x].run = r
Labelled(r, n) ==
  \E x \in DOMAIN dump : dump[x].is = "label" /\ dump[x].run = r /\ dump[x].counter = n

WrittenInv ==
  \A r \in DOMAIN runs :
    /\ runs[r].type \notin Headerless => Headed(r)
    /\ runs[r].type = "A_MEASUREMENT" /\ ~ Unwritten(r) => \A n \in 1 .. 3 : Labelled(r, n)

\* Every test prints something.
NoFlush == \A k \in Keys : k.type # "FLUSH"

\* Then the header of run h, at line x, is followed by the first block of that run, if
\* that was written, and else by whatever comes next.
FollowedInv(x, h) ==
  /\ ~ Unwritten(h) => x + 4 \in DOMAIN dump /\ dump[x + 4].is = "event" /\ dump[x + 4].run = h
  /\ x + 4 \in DOMAIN dump =>
       /\ ~ (state = "running" /\ h = Len(runs))
       /\ dump[x + 4].is = "event" =>
            /\ dump[x + 4].print = 1
            /\ \/ dump[x + 4].run = h /\ dump[x + 4].counter = Subject(h)
               \/ dump[x + 4].counter = 1 /\ Strayed(h, dump[x + 4].run)
  /\ x + 4 \notin DOMAIN dump =>
       \A g \in h .. Len(runs) : Unwritten(g) /\ (g > h => runs[g].type \in Headerless)

FirstBlockInv ==
  NoFlush =>
    \A x \in DOMAIN dump : dump[x].is = "TEST RUN" => FollowedInv(x, dump[x].run)

\* No parser is started before the file is complete.
ParserInv ==
  /\ state \in {"idle", "running"} => pos = 0 /\ test_res = <<>>
  /\ state \notin {"idle", "running"} => script \in {"parser", "a_parser"}
  /\ pos \in 0 .. Len(dump)
  /\ state = "done" => pos = Len(dump)
  /\ test_res \in Seq([key : Keys, values : SUBSET Lines])
  /\ \A e, f \in DOMAIN test_res : test_res[e].key = test_res[f].key => e = f

\* Line x has been read, and opens a block.
Opened(x) == x \in 1 .. pos /\ dump[x].is = Opener

\* The values behind it, if there are any, have been read.
Passed(x) ==
  x + HeadLines \in DOMAIN dump /\ dump[x + HeadLines].is = "event" => x + HeadLines < pos

\* The parser is behind the header or label at line x, or behind a value that belongs
\* to it.
InBlock(x) ==
  /\ Opened(x) /\ ttype = runs[dump[x].run]
  /\ \/ pos = x + HeadLines - 1
     \/ pos \in {x + HeadLines, x + HeadLines + 1} /\ dump[x + HeadLines].is = "event"

\* All other blocks are behind it.
OthersPassed(x) == \A z \in 1 .. pos : z # x /\ Opened(z) => Passed(z)

BlockInv ==
  /\ state = "seek" => \A x \in 1 .. pos : Opened(x) => Passed(x)
  /\ state = "block" => \E x \in 1 .. pos : InBlock(x) /\ OthersPassed(x)

\* v was filed under key k.
KeyFiled(k) == \E e \in DOMAIN test_res : test_res[e].key = k
Filed(k, v) == \E e \in DOMAIN test_res : test_res[e].key = k /\ v \in test_res[e].values

\* Everything behind the header or label at line x that the parser has come past has been
\* filed under its key.
FiledBehind(x) ==
  /\ x + HeadLines - 1 <= pos
  /\ KeyFiled(runs[dump[x].run])
  /\ \A y \in {x + HeadLines, x + HeadLines + 1} :
       y <= pos /\ dump[x + HeadLines].is = "event" => Filed(runs[dump[x].run], dump[y])

AllFiledInv == \A x \in 1 .. pos : Opened(x) => FiledBehind(x)

\* Line x is a header or label for key k; v is one of the values behind it.
KeyAt(k, x) == Opened(x) /\ k = runs[dump[x].run]
ValueAt(v, x) ==
  /\ x + HeadLines \in DOMAIN dump /\ dump[x + HeadLines].is = "event"
  /\ v \in {dump[x + HeadLines], dump[x + HeadLines + 1]}

\* Values vs of key k are in the file.
FromFile(k, vs) ==
  /\ \E x \in 1 .. pos : KeyAt(k, x)
  /\ \A v \in vs : \E x \in 1 .. pos : KeyAt(k, x) /\ ValueAt(v, x)

\* Nothing else has been filed.
OnlyFiledInv == \A e \in DOMAIN test_res : FromFile(test_res[e].key, test_res[e].values)

\* Only the key filed last can be without values, before the first line of its block.
HolesInv ==
  \A e \in DOMAIN test_res : test_res[e].values = {} =>
    /\ e = Len(test_res) /\ test_res[e].key = ttype
    /\ state \in {"block"} \cup Errors
    /\ pos # 0 /\ dump[pos].is = IF script = "parser" THEN "place" ELSE "label"

FileInv == RunsInv /\ WrittenInv /\ FirstBlockInv

ReadInv == ParserInv /\ BlockInv /\ AllFiledInv /\ OnlyFiledInv /\ HolesInv

ReportInv == FileInv /\ ReadInv

=============================================================================
