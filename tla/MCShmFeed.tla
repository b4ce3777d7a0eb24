------------------------------ MODULE MCShmFeed ------------------------------
(* Two SHM instances over two clocks (so both may name the same one), two   *)
(* source records and three subscriptions shared by the SHM module and the  *)
(* other threads.                                                           *)
EXTENDS ShmFeed

CONSTANTS c1, c2, s1, s2, u1, u2, u3

MCClocks == {c1, c2}
MCSrcIds == {s1, s2}
MCSubIds == {u1, u2, u3}
=============================================================================
