------------------------- MODULE ClockFeedCompare -------------------------
(***************************************************************************)
(* sfptpd_clockfeed_compare (src/src/sfptpd_clockfeed.c): the two-leg     *)
(* comparison of clocks A and B through the system clock, with the         *)
(* stricter max_age_diff of the two subscriptions enforced on the          *)
(* difference between the legs' monotonic sample times.                    *)
(*                                                                         *)
(* The function is sequential, so it is modelled as an operator from its   *)
(* inputs to its outputs, checked against a reference definition over      *)
(* every input of a bounded domain.  What one leg (clockfeed_compare_to_sys,*)
(* whose ring protocol is the subject of ClockFeedRing) hands back is an   *)
(* input: an error, a sample whose compare failed (rc 0, zero diff and no  *)
(* sample time written), or a good sample with its diff and mono time.    *)
(* An rc of 0 is written "OK".                                             *)
(* Timespecs are scaled to NsPerSec nanoseconds a second.  Storage the     *)
(* code reads without having written it (the local mono1 and mono2, or the *)
(* caller's *mono) holds a free value from a small set.                    *)
(***************************************************************************)
EXTENDS Integers

CONSTANTS
  NsPerSec,  \* nanoseconds in a second, scaled down
  MaxSec     \* largest tv_sec of a monotonic time

VARIABLE in   \* the arguments and what the two legs return

Timespecs == [tv_sec : 0 .. MaxSec, tv_nsec : 0 .. NsPerSec - 1]
ZeroTs == [tv_sec |-> 0, tv_nsec |-> 0]
Ns(t) == t.tv_sec * NsPerSec + t.tv_nsec

\* sfptpd_time_is_greater_or_equal.
TimeGeq(a, b) == Ns(a) >= Ns(b)

NoMax == [tv_sec |-> -1, tv_nsec |-> -1]
MaxAges == {t \in Timespecs : Ns(t) \in 1 .. 2}
Diffs == -1 .. 1
Junk == {ZeroTs, [tv_sec |-> MaxSec, tv_nsec |-> NsPerSec - 1]}

Absent == [present |-> FALSE, outcome |-> "ok", diff |-> 0, mono |-> ZeroTs,
           haveMax |-> FALSE, maxAge |-> NoMax]
Present ==
  LET limits == {[haveMax |-> FALSE, maxAge |-> NoMax]}
                \cup [haveMax : {TRUE}, maxAge : MaxAges]
      samples == [outcome : {"ok"}, diff : Diffs, mono : Timespecs]
                 \cup [outcome : {"sample_failed", "error"}, diff : {0}, mono : {ZeroTs}]
  IN {[present |-> TRUE, outcome |-> s.outcome, diff |-> s.diff, mono |-> s.mono,
       haveMax |-> l.haveMax, maxAge |-> l.maxAge] : s \in samples, l \in limits}
Legs == {Absent} \cup Present

Inputs == [leg1 : Legs, leg2 : Legs, monoWanted : BOOLEAN,
           junkCaller : Junk, junkMono1 : Junk, junkMono2 : Junk]

-----------------------------------------------------------------------------
(* The code.                                                               *)

\* Mutant: a failed clock compare returns the sample's own rc.
ToSysSampleRc(leg, monoPtr, monoBefore) ==
  [rc |-> CASE leg.outcome = "error" -> "ERR"
            [] leg.outcome = "sample_failed" -> "EIO"
            [] OTHER -> "OK",
   diff |-> IF leg.outcome = "ok" THEN leg.diff ELSE 0,
   mono |-> IF leg.outcome = "ok" /\ monoPtr THEN leg.mono ELSE monoBefore]

\* clockfeed_compare_to_sys as seen by its caller: an error rc, or rc 0
\* with the sample's diff and, when asked for, its mono time; a sample whose
\* clock compare failed returns 0 before anything but the zeroed diff is
\* written.
ToSys(leg, monoPtr, monoBefore) ==
  [rc |-> IF leg.outcome = "error" THEN "ERR" ELSE "OK",
   diff |-> IF leg.outcome = "ok" THEN leg.diff ELSE 0,
   mono |-> IF leg.outcome = "ok" /\ monoPtr THEN leg.mono ELSE monoBefore]

\* The stricter of the two subscriptions' max_age_diff, or NoMax.
MaxAgeDiff(s1, s2) ==
  LET m1 == IF s1.haveMax THEN s1.maxAge ELSE NoMax IN
  IF s2.haveMax /\ (m1 = NoMax \/ TimeGeq(m1, s2.maxAge)) THEN s2.maxAge ELSE m1

\* Mutant: the legs subtracted the wrong way round.
LegDiffSwapped(r1, r2) == r2.diff - r1.diff

\* sfptpd_time_subtract(diff, diff, &diff2).
LegDiff(r1, r2) == r1.diff - r2.diff

\* The test before *mono = mono2, as written.
MonoEarlier(m2, m) ==
  \/ m2.tv_sec < m.tv_sec
  \/ m2.tv_sec = m.tv_nsec /\ m2.tv_nsec < m.tv_nsec

\* The age-difference test, on mono2 and the (possibly overwritten) *mono.
AgeDiffTooBig(m2, m, maxAge) ==
  LET age == IF TimeGeq(m2, m) THEN Ns(m2) - Ns(m) ELSE Ns(m) - Ns(m2) IN
  age >= Ns(maxAge)

\* sfptpd_clockfeed_compare(sub1, sub2, diff, t1, t2, mono).
Compare(i) ==
  LET s1 == i.leg1
      s2 == i.leg2
      maxAge == IF s1.present /\ s2.present THEN MaxAgeDiff(s1, s2) ELSE NoMax
      monoPtr == i.monoWanted \/ maxAge # NoMax
      monoInit == IF i.monoWanted THEN i.junkCaller ELSE i.junkMono1
      r1 == IF s1.present THEN ToSys(s1, monoPtr, monoInit)
            ELSE [rc |-> "OK", diff |-> 0, mono |-> monoInit]
      read2 == r1.rc = "OK" /\ s2.present
      r2 == ToSys(s2, monoPtr, i.junkMono2)
      ok2 == read2 /\ r2.rc = "OK"
      rc == IF read2 THEN r2.rc ELSE r1.rc
      mono == IF ok2 /\ monoPtr /\ MonoEarlier(r2.mono, r1.mono) THEN r2.mono ELSE r1.mono
      mono2 == IF read2 THEN r2.mono ELSE i.junkMono2
  IN [rc |-> IF rc = "OK" /\ maxAge # NoMax /\ AgeDiffTooBig(mono2, mono, maxAge)
             THEN "ESTALE" ELSE rc,
      diff |-> IF ok2 THEN LegDiff(r1, r2) ELSE r1.diff,
      mono |-> mono]

-----------------------------------------------------------------------------
(* The reference: what the spec's compare algorithm returns.               *)

LegDiffRef(s) == IF s.present /\ s.outcome = "ok" THEN s.diff ELSE 0
LegRcRef(s) == IF s.present /\ s.outcome = "error" THEN "ERR" ELSE "OK"
Stricter(s1, s2) ==
  IF ~s1.haveMax THEN s2.maxAge
  ELSE IF ~s2.haveMax THEN s1.maxAge
  ELSE IF Ns(s1.maxAge) <= Ns(s2.maxAge) THEN s1.maxAge ELSE s2.maxAge
BothSampled(i) ==
  /\ i.leg1.present /\ i.leg1.outcome = "ok"
  /\ i.leg2.present /\ i.leg2.outcome = "ok"
LegsTooFarApart(i) ==
  /\ BothSampled(i) /\ (i.leg1.haveMax \/ i.leg2.haveMax)
  /\ LET d == Ns(i.leg1.mono) - Ns(i.leg2.mono)
         age == IF d >= 0 THEN d ELSE -d
     IN age >= Ns(Stricter(i.leg1, i.leg2))

Init == in \in Inputs
Next == UNCHANGED in
Spec == Init /\ [][Next]_in

-----------------------------------------------------------------------------
(* Properties.                                                             *)

TypeOK == in \in Inputs /\ Compare(in).rc \in {"OK", "ERR", "ESTALE"}

\* Error precedence and the offset (spec: compare): unless the age test
\* rejects the pair, the rc is the first failing leg's, and a successful
\* compare returns diff_A - diff_B with zero for an absent leg or a leg
\* whose clock compare failed.
ResultMatchesLegs ==
  LET c == Compare(in)
      ref == IF LegRcRef(in.leg1) # "OK" THEN LegRcRef(in.leg1) ELSE LegRcRef(in.leg2)
  IN /\ c.rc # "ESTALE" => c.rc = ref
     /\ c.rc = "OK" => c.diff = LegDiffRef(in.leg1) - LegDiffRef(in.leg2)

\* Spec: with max_age_diff set, the stricter limit is enforced on
\* |mono_A - mono_B|: two good samples too far apart are rejected with
\* ESTALE, and a pair close enough is not.
StaleLegsRejected ==
  BothSampled(in) /\ LegRcRef(in.leg1) = "OK" =>
    ((Compare(in).rc = "ESTALE") = LegsTooFarApart(in))

=============================================================================
