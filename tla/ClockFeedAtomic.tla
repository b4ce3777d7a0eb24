--------------------------- MODULE ClockFeedAtomic --------------------------
(***************************************************************************)
(* What one clock-feed source's sample store promises its subscribers      *)
(* (spec section 4.1 and the ordering guarantee): the feed publishes       *)
(* samples one at a time, and a compare either fails or returns, in one    *)
(* indivisible step, a sample already published, whole, no older than the *)
(* one the subscription last read and newer than it after require_fresh.   *)
(*                                                                         *)
(* ClockFeedRing, whose writer stores field by field and whose readers     *)
(* load without a lock, implements this specification for the rc, the     *)
(* diff and the sequence number of what a compare returns (the property    *)
(* ImplementsAtomic of ClockFeedRing).  A sample is named by its sequence  *)
(* number; a field of it holds that number, as in ClockFeedRing.           *)
(***************************************************************************)
EXTENDS Integers

CONSTANTS
  Readers,    \* subscriptions to the source
  MaxWrites   \* bound on the number of samples published

VARIABLES
  written,       \* samples published so far (seq 0 .. written - 1)
  inactive,      \* the source has been removed
  result,        \* outcome of each subscription's last compare
  out,           \* rc, diff and seq of the last successful compare
  read_counter,  \* one past the seq last read
  min_counter,   \* the least read_counter a successful read must reach
  have_max_age   \* a maximum age has been set

avars == <<written, inactive, result, out, read_counter, min_counter, have_max_age>>

NoSample == -1
Failures == {"SAMPLE_FAILED", "EOWNERDEAD", "ENOENT", "EAGAIN", "ENODATA", "ESTALE"}

\* The whole of sample s: every field from the one write.
Whole(s) == [diff |-> <<s, s>>, seq |-> s, rc |-> s]

Publish ==
  /\ ~inactive /\ written < MaxWrites
  /\ written' = written + 1
  /\ UNCHANGED <<inactive, result, out, read_counter, min_counter, have_max_age>>

RemoveClock ==
  /\ ~inactive
  /\ inactive' = TRUE
  /\ UNCHANGED <<written, result, out, read_counter, min_counter, have_max_age>>

\* A compare that fails leaves the outputs and the read counter alone.
CompareFails(r) ==
  /\ \E rc \in Failures : result' = [result EXCEPT ![r] = rc]
  /\ UNCHANGED <<written, inactive, out, read_counter, min_counter, have_max_age>>

\* A compare that succeeds returns a published sample, not older than the
\* last one read and at least as new as require_fresh demanded.
CompareReturns(r) ==
  /\ \E s \in 0 .. written - 1 :
       /\ s + 1 >= read_counter[r]
       /\ s + 1 >= min_counter[r]
       /\ out' = [out EXCEPT ![r] = Whole(s)]
       /\ read_counter' = [read_counter EXCEPT ![r] = s + 1]
  /\ result' = [result EXCEPT ![r] = "OK"]
  /\ UNCHANGED <<written, inactive, min_counter, have_max_age>>

RequireFresh(r) ==
  /\ min_counter[r] # read_counter[r] + 1
  /\ min_counter' = [min_counter EXCEPT ![r] = read_counter[r] + 1]
  /\ UNCHANGED <<written, inactive, result, out, read_counter, have_max_age>>

SetMaxAge(r) ==
  /\ ~have_max_age[r]
  /\ have_max_age' = [have_max_age EXCEPT ![r] = TRUE]
  /\ UNCHANGED <<written, inactive, result, out, read_counter, min_counter>>

Init ==
  /\ written = 0
  /\ inactive = FALSE
  /\ result = [r \in Readers |-> "none"]
  /\ out = [r \in Readers |-> Whole(NoSample)]
  /\ read_counter = [r \in Readers |-> -1]
  /\ min_counter = [r \in Readers |-> -1]
  /\ have_max_age = [r \in Readers |-> FALSE]

Next ==
  \/ Publish \/ RemoveClock
  \/ \E r \in Readers :
       CompareFails(r) \/ CompareReturns(r) \/ RequireFresh(r) \/ SetMaxAge(r)

Spec == Init /\ [][Next]_avars

=============================================================================
