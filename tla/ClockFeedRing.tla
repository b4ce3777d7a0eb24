--------------------------- MODULE ClockFeedRing ---------------------------
(***************************************************************************)
(* The sample ring of one clock-feed source (struct clockfeed_shm in       *)
(* src/src/sfptpd_clockfeed.c) with its single writer, the clock-feed      *)
(* thread running clockfeed_on_timer, and any number of readers running    *)
(* clockfeed_compare_to_sys on their own threads without a lock.           *)
(*                                                                         *)
(* The writer's stores to one record and its increment of write_counter    *)
(* are separate steps, and so are the reader's loads, so that every        *)
(* interleaving of the two is explored.  Memory is sequentially            *)
(* consistent in program order (x86 TSO; the stores are separated by       *)
(* calls into other translation units).                                    *)
(*                                                                         *)
(* Data is abstracted to provenance: every field a write stores holds the  *)
(* number of that write (its seq), so a reader that loads fields of two    *)
(* different writes is seen to have torn the record.  Zero is the value of *)
(* a calloc'd field and of the snapshot of a failed compare.               *)
(***************************************************************************)
EXTENDS Integers, Sequences

CONSTANTS
  MAX_CLOCK_SAMPLES, \* ring capacity, 1 << MAX_CLOCK_SAMPLES_LOG2
  Readers,           \* threads holding a subscription to this source
  MaxWrites,         \* bound on the number of samples written
  MaxAge             \* sub->max_age, in poll periods, once set

ASSUME MAX_CLOCK_SAMPLES \in Nat \ {0} /\ MaxWrites \in Nat /\ MaxAge \in Nat

VARIABLES
  write_counter, \* shm.write_counter
  samples,       \* shm.samples: slot -> record of provenance tags
  wrc,           \* rc of the compare of the write in progress
  wpc,           \* where the feed thread is in the per-source body of on_timer
  inactive,      \* source->inactive
  rpc,           \* where each reader is in clockfeed_compare_to_sys
  w1,            \* reader's writer1
  seen,          \* fields the reader has loaded so far (provenance tags)
  result,        \* return code of each reader's last completed compare
  out,           \* diff, t1, t2 and mono_time of the last successful compare
  read_counter,  \* sub->read_counter
  min_counter,   \* sub->min_counter
  have_max_age   \* sub->have_max_age

vars == <<write_counter, samples, wrc, wpc, inactive, rpc, w1, seen,
          result, out, read_counter, min_counter, have_max_age>>

Zero == -1
Slots == 0 .. MAX_CLOCK_SAMPLES - 1
Tags == {Zero} \cup (0 .. MaxWrites)
Record == [rc : Tags, rcv : {0, 1}, mono : Tags, system : Tags, snapshot : Tags]
NoOut == [diff |-> <<Zero, Zero>>, t1 |-> Zero, t2 |-> Zero, mono |-> Zero,
          seq |-> Zero, rc |-> Zero]
Results == {"none", "OK", "SAMPLE_FAILED", "EOWNERDEAD", "ENOENT", "EAGAIN",
            "ENODATA", "ESTALE"}

\* A calloc'd record.
Blank == [rc |-> Zero, rcv |-> 0, mono |-> Zero, system |-> Zero, snapshot |-> Zero]

\* index = write_counter & index_mask
Index(c) == c % MAX_CLOCK_SAMPLES

\* sfptpd_time_subtract(diff, &sample->snapshot, &sample->system), kept as
\* the pair of writes the two operands came from.
Diff(snap, sys) == <<snap, sys>>

\* Mutant: the lap test one sample too lenient (writer1 + MAX_CLOCK_SAMPLES).
OverrunLenient(writer1, writer2) == writer2 >= writer1 + MAX_CLOCK_SAMPLES

\* The overrun test of clockfeed_compare_to_sys.
Overrun(writer1, writer2) == writer2 >= writer1 + MAX_CLOCK_SAMPLES - 1

\* Mutant: the fresh-sample test one sample too lenient.
OldSampleLenient(writer1, min) == writer1 < min - 1

\* The fresh-sample test: writer1 < sub->min_counter.
OldSample(writer1, min) == writer1 < min

\* Age test: now_mono - sample->mono > max_age, with now the poll count.
TooOld(mono) == write_counter - mono > MaxAge

-----------------------------------------------------------------------------
(* The writer: one sample of clockfeed_on_timer for this source.           *)

\* record->seq = write_counter; record->rc = sfptpd_clock_compare(...)
WriteRc ==
  /\ wpc = "idle" /\ ~inactive /\ write_counter < MaxWrites
  /\ \E rc \in {0, 1} :
       /\ wrc' = rc
       /\ samples' = [samples EXCEPT ![Index(write_counter)].rc = write_counter,
                                     ![Index(write_counter)].rcv = rc]
  /\ wpc' = "mono"
  /\ UNCHANGED <<write_counter, inactive, rpc, w1, seen, result, out,
                 read_counter, min_counter, have_max_age>>

\* clock_gettime(CLOCK_MONOTONIC, &record->mono)
WriteMono ==
  /\ wpc = "mono"
  /\ samples' = [samples EXCEPT ![Index(write_counter)].mono = write_counter]
  /\ wpc' = "system"
  /\ UNCHANGED <<write_counter, wrc, inactive, rpc, w1, seen, result, out,
                 read_counter, min_counter, have_max_age>>

\* clock_gettime(CLOCK_REALTIME, &record->system)
WriteSystem ==
  /\ wpc = "system"
  /\ samples' = [samples EXCEPT ![Index(write_counter)].system = write_counter]
  /\ wpc' = "snapshot"
  /\ UNCHANGED <<write_counter, wrc, inactive, rpc, w1, seen, result, out,
                 read_counter, min_counter, have_max_age>>

\* snapshot = system + diff when the compare succeeded, zero otherwise
WriteSnapshot ==
  /\ wpc = "snapshot"
  /\ samples' = [samples EXCEPT ![Index(write_counter)].snapshot =
                   IF wrc = 0 THEN write_counter ELSE Zero]
  /\ wpc' = "publish"
  /\ UNCHANGED <<write_counter, wrc, inactive, rpc, w1, seen, result, out,
                 read_counter, min_counter, have_max_age>>

\* source->shm.write_counter++
Publish ==
  /\ wpc = "publish"
  /\ write_counter' = write_counter + 1
  /\ wpc' = "idle"
  /\ wrc' = 0
  /\ UNCHANGED <<samples, inactive, rpc, w1, seen, result, out,
                 read_counter, min_counter, have_max_age>>

\* clockfeed_on_remove_clock, on the same thread as the writer: the source
\* moves to the inactive list and on_timer stops sampling it.
RemoveClock ==
  /\ wpc = "idle" /\ ~inactive
  /\ inactive' = TRUE
  /\ UNCHANGED <<write_counter, samples, wrc, wpc, rpc, w1, seen, result,
                 out, read_counter, min_counter, have_max_age>>

-----------------------------------------------------------------------------
(* A reader: clockfeed_compare_to_sys(sub, ...) on the subscriber's thread. *)

Rest == <<write_counter, samples, wrc, wpc, inactive>>

\* Leave the function with return code rc.
Return(r, rc) ==
  /\ rpc' = [rpc EXCEPT ![r] = "idle"]
  /\ result' = [result EXCEPT ![r] = rc]
  /\ w1' = [w1 EXCEPT ![r] = Zero]
  /\ seen' = [seen EXCEPT ![r] = Blank]

\* writer1 = shm->write_counter, then the early returns for an inactive
\* source, a clock that is not active (decided by the clock module, hence a
\* free choice) and an empty ring.
CompareStart(r) ==
  /\ rpc[r] = "idle"
  /\ \/ /\ inactive
        /\ Return(r, "EOWNERDEAD")
     \/ /\ ~inactive
        /\ Return(r, "ENOENT")
     \/ /\ ~inactive /\ write_counter = 0
        /\ Return(r, "EAGAIN")
     \/ /\ ~inactive /\ write_counter > 0
        /\ w1' = [w1 EXCEPT ![r] = write_counter]
        /\ rpc' = [rpc EXCEPT ![r] = "rc"]
        /\ UNCHANGED <<seen, result>>
  /\ UNCHANGED <<Rest, out, read_counter, min_counter, have_max_age>>

\* sample = &shm->samples[(writer1 - 1) & index_mask]; if (sample->rc != 0)
\* return rc: a failed sample returns 0 with a zero diff and leaves
\* read_counter alone.
LoadRc(r) ==
  LET s == samples[Index(w1[r] - 1)] IN
  /\ rpc[r] = "rc"
  /\ \/ /\ s.rcv # 0
        /\ Return(r, "SAMPLE_FAILED")
     \/ /\ s.rcv = 0
        /\ seen' = [seen EXCEPT ![r].rc = s.rc]
        /\ rpc' = [rpc EXCEPT ![r] = "snapshot"]
        /\ UNCHANGED <<w1, result>>
  /\ UNCHANGED <<Rest, out, read_counter, min_counter, have_max_age>>

\* First operand of sfptpd_time_subtract(diff, &sample->snapshot, ...)
LoadSnapshot(r) ==
  /\ rpc[r] = "snapshot"
  /\ seen' = [seen EXCEPT ![r].snapshot = samples[Index(w1[r] - 1)].snapshot]
  /\ rpc' = [rpc EXCEPT ![r] = "system"]
  /\ UNCHANGED <<Rest, w1, result, out, read_counter, min_counter, have_max_age>>

\* Second operand: &sample->system
LoadSystem(r) ==
  /\ rpc[r] = "system"
  /\ seen' = [seen EXCEPT ![r].system = samples[Index(w1[r] - 1)].system]
  /\ rpc' = [rpc EXCEPT ![r] = "check"]
  /\ UNCHANGED <<Rest, w1, result, out, read_counter, min_counter, have_max_age>>

\* writer2 = shm->write_counter; the overrun test, then the fresh-sample test.
Check(r) ==
  /\ rpc[r] = "check"
  /\ \/ /\ Overrun(w1[r], write_counter)
        /\ Return(r, "ENODATA")
     \/ /\ ~Overrun(w1[r], write_counter) /\ OldSample(w1[r], min_counter[r])
        /\ Return(r, "ESTALE")
     \/ /\ ~Overrun(w1[r], write_counter) /\ ~OldSample(w1[r], min_counter[r])
        /\ rpc' = [rpc EXCEPT ![r] = IF have_max_age[r] THEN "age" ELSE "copy"]
        /\ UNCHANGED <<w1, seen, result>>
  /\ UNCHANGED <<Rest, out, read_counter, min_counter, have_max_age>>

\* if (sub->have_max_age): age = now_mono - sample->mono, loaded only now.
AgeCheck(r) ==
  LET mono == samples[Index(w1[r] - 1)].mono IN
  /\ rpc[r] = "age"
  /\ \/ /\ TooOld(mono)
        /\ Return(r, "ESTALE")
     \/ /\ ~TooOld(mono)
        /\ rpc' = [rpc EXCEPT ![r] = "copy"]
        /\ UNCHANGED <<w1, seen, result>>
  /\ UNCHANGED <<Rest, out, read_counter, min_counter, have_max_age>>

\* Copy snapshot, system and mono to t1, t2 and mono_time, set
\* sub->read_counter = writer1 and return 0.
CopyOut(r) ==
  LET s == samples[Index(w1[r] - 1)] IN
  /\ rpc[r] = "copy"
  /\ out' = [out EXCEPT ![r] = [diff |-> Diff(seen[r].snapshot, seen[r].system),
                                t1 |-> s.snapshot, t2 |-> s.system,
                                mono |-> s.mono, seq |-> w1[r] - 1,
                                rc |-> seen[r].rc]]
  /\ read_counter' = [read_counter EXCEPT ![r] = w1[r]]
  /\ Return(r, "OK")
  /\ UNCHANGED <<Rest, min_counter, have_max_age>>

\* Mutant: demand a sample two past the last one read.
RequireFreshPlusTwo(r) ==
  /\ rpc[r] = "idle" /\ min_counter[r] # read_counter[r] + 2
  /\ min_counter' = [min_counter EXCEPT ![r] = read_counter[r] + 2]
  /\ UNCHANGED <<Rest, rpc, w1, seen, result, out, read_counter, have_max_age>>

\* sfptpd_clockfeed_require_fresh(sub), called between compares.
RequireFresh(r) ==
  /\ rpc[r] = "idle" /\ min_counter[r] # read_counter[r] + 1
  /\ min_counter' = [min_counter EXCEPT ![r] = read_counter[r] + 1]
  /\ UNCHANGED <<Rest, rpc, w1, seen, result, out, read_counter, have_max_age>>

\* sfptpd_clockfeed_set_max_age(sub, max_age)
SetMaxAge(r) ==
  /\ rpc[r] = "idle" /\ ~have_max_age[r]
  /\ have_max_age' = [have_max_age EXCEPT ![r] = TRUE]
  /\ UNCHANGED <<Rest, rpc, w1, seen, result, out, read_counter, min_counter>>

-----------------------------------------------------------------------------

\* The source was just added by clockfeed_on_add_clock (calloc'd ring) and
\* each reader was just subscribed by clockfeed_on_subscribe.
Init ==
  /\ write_counter = 0
  /\ samples = [i \in Slots |-> Blank]
  /\ wrc = 0
  /\ wpc = "idle"
  /\ inactive = FALSE
  /\ rpc = [r \in Readers |-> "idle"]
  /\ w1 = [r \in Readers |-> Zero]
  /\ seen = [r \in Readers |-> Blank]
  /\ result = [r \in Readers |-> "none"]
  /\ out = [r \in Readers |-> NoOut]
  /\ read_counter = [r \in Readers |-> -1]
  /\ min_counter = [r \in Readers |-> -1]
  /\ have_max_age = [r \in Readers |-> FALSE]

Writer == WriteRc \/ WriteMono \/ WriteSystem \/ WriteSnapshot \/ Publish

Reader(r) ==
  \/ CompareStart(r) \/ LoadRc(r) \/ LoadSnapshot(r) \/ LoadSystem(r)
  \/ Check(r) \/ AgeCheck(r) \/ CopyOut(r) \/ RequireFresh(r) \/ SetMaxAge(r)

Next == Writer \/ RemoveClock \/ \E r \in Readers : Reader(r)

Spec == Init /\ [][Next]_vars

-----------------------------------------------------------------------------
(* Properties                                                              *)

\* The refinement mapping: the published count is write_counter, and a
\* compare's outputs are its rc, diff and seq; the record stores, the
\* reader's loads and its program counter are hidden.
Atomic == INSTANCE ClockFeedAtomic
            WITH written <- write_counter,
                 out <- [r \in Readers |-> [diff |-> out[r].diff, seq |-> out[r].seq,
                                             rc |-> out[r].rc]]

TypeOK ==
  /\ write_counter \in 0 .. MaxWrites
  /\ samples \in [Slots -> Record]
  /\ wpc \in {"idle", "mono", "system", "snapshot", "publish"}
  /\ inactive \in BOOLEAN
  /\ rpc \in [Readers -> {"idle", "rc", "snapshot", "system", "check", "age", "copy"}]
  /\ w1 \in [Readers -> Tags]
  /\ seen \in [Readers -> Record]
  /\ result \in [Readers -> Results]
  /\ read_counter \in [Readers -> -1 .. MaxWrites]
  /\ min_counter \in [Readers -> -1 .. MaxWrites + 1]

\* The overrun re-check of clockfeed_compare_to_sys (writer2 >= writer1 +
\* MAX_CLOCK_SAMPLES - 1) is what makes the lock-free read safe: a compare
\* that returns 0 with a sample delivers an rc and a diff whose fields were
\* all stored by the one write the reader chose, seq writer1 - 1, however
\* far the feed thread ran ahead meanwhile.
DiffFromOneSample ==
  \A r \in Readers :
    result[r] = "OK" =>
      /\ out[r].rc = out[r].seq
      /\ out[r].diff = <<out[r].seq, out[r].seq>>

\* The same guarantee for everything a successful compare hands back: the
\* timestamps t1, t2 and mono_time belong to sample writer1 - 1 as well.
OutputsFromOneSample ==
  \A r \in Readers :
    result[r] = "OK" =>
      /\ out[r].t1 = out[r].seq
      /\ out[r].t2 = out[r].seq
      /\ out[r].mono = out[r].seq

\* The lock-free ring implements the atomic one (ClockFeedAtomic): every
\* compare that clockfeed_compare_to_sys completes, interleaved however
\* with the field-by-field stores of clockfeed_on_timer, returns the rc and
\* diff of one whole published sample, never older than the sample the
\* subscription read last (the spec's non-decreasing seq) and newer than
\* it after sfptpd_clockfeed_require_fresh.
ImplementsAtomic == Atomic!Spec

=============================================================================
