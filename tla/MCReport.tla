------------------------------ MODULE MCReport ------------------------------
(***************************************************************************)
(* Small instances of Report.                                              *)
(***************************************************************************)
EXTENDS Report

Key(t, v) == [type |-> t, variant |-> v]

\* Two sizes of a test of protocols.cpp, producers and consumers, two labels of
\* a_measurement.cpp, and reader_writer.cpp.
AllKeys == {Key("LOAD_FROM_MODIFIED", 1), Key("LOAD_FROM_MODIFIED", 2),
            Key("PRODUCER_CONSUMER", 1), Key("A_MEASUREMENT", 1),
            Key("A_MEASUREMENT", 2), Key("READER_WRITER", 1)}

\* The tests of producer_consumer.cpp.
ProducerConsumerKeys == {Key("FLUSH", 1), Key("PRODUCER_CONSUMER", 1),
                         Key("FLUSH", 2), Key("PRODUCER_CONSUMER", 2)}

=============================================================================
