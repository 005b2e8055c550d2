-------------------------- MODULE MCAvgNoOverflow --------------------------
(***************************************************************************)
(* Vectors of up to five numbers of five bits, as results of flush.cpp.    *)
(***************************************************************************)
EXTENDS FlushSweep

Vectors(len, S) == UNION {[1 .. n -> S] : n \in 0 .. len}

\* Small numbers, and numbers that are the size of a vector below MaxSigned.  It
\* takes five of them for the accumulator to become negative before the end.
SmallOrRoomy == {0, 1, 2, 5, 9, 10}
RoomForSize == Vectors(5, SmallOrRoomy)
UpToFive == 0 .. 5

\* Numbers of the signed type.
SmallOrLargest == 0 .. 2 \cup 13 .. 15
SignedRange == Vectors(4, SmallOrLargest)

=============================================================================
