------------------------- MODULE MCClockFeedRing ---------------------------
(* Instantiates ClockFeedRing for TLC.                                     *)
EXTENDS ClockFeedRing

CONSTANTS r1, r2

\* One subscriber thread: readers never interact with one another, so a
\* second one only multiplies the interleavings of the first.
OneReader == {r1}
TwoReaders == {r1, r2}
=============================================================================
