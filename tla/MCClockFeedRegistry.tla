------------------------ MODULE MCClockFeedRegistry ------------------------
(* Two clocks, three source records (so a clock can be added twice or     *)
(* re-added after removal) and three subscriptions.                       *)
EXTENDS ClockFeedRegistry

CONSTANTS c1, c2, s1, s2, s3, u1, u2, u3

MCClocks == {c1, c2}
MCSrcIds == {s1, s2, s3}
MCSubIds == {u1, u2, u3}
=============================================================================
