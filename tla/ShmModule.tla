----------------------------- MODULE ShmModule -----------------------------
(***************************************************************************)
(* The SHM sync module as a whole (src/src/shm/sfptpd_shm_module.c): the   *)
(* list of instances that one thread serves, and the time-of-day state    *)
(* that shm_module_t keeps ONCE for all of them (source, next_poll_time,  *)
(* status).  Each instance is a record of ShmInstance, stepped by          *)
(* ShmInstance's own operators; this module adds what they share:         *)
(*                                                                         *)
(*  - shm_on_timer visits the instances in list order (1 .. N): the pulse *)
(*    check, then the do { shm_do_poll } while (rc == 0) loop, or, for an *)
(*    instance with a descriptor, shm_on_no_shm_event alone;              *)
(*  - shm_on_user_fds runs shm_do_poll for an instance whose descriptor   *)
(*    is readable;                                                         *)
(*  - every shm_do_poll calls shm_time_of_day_poll, which polls only when *)
(*    the module-level next_poll_time has passed and then moves it on one *)
(*    second, fetches the module-level status, adds THIS instance's       *)
(*    system-to-NIC offset to it, and sets THIS instance's NO_TIME_OF_DAY; *)
(*  - shm_servo_reset, run by a clock step of any instance, zeroes the    *)
(*    module-level offset.                                                 *)
(*                                                                         *)
(* Abstractions.  Time is ShmInstance's: one unit is at least one second, *)
(* so it makes at least one time-of-day poll due; lag counts the polls    *)
(* due, saturating at MaxLag.  The status offset is zero or not, with the *)
(* list of instances whose system-to-NIC offset was added to it since it  *)
(* was fetched.  fresh[k] is TRUE when the feed has published a   *)
(* sample of instance k's clock since its subscription last read one: a  *)
(* compare after require_fresh succeeds exactly then (ClockFeedAtomic's   *)
(* CompareReturns).  The driver has at most one unread event, a source's *)
(* pulse being once a second; events carry the no-sequence value and pass *)
(* the notch filter, with a small offset.  The control flags are those    *)
(* the engine's CONTROL message set (Ctrl).                                *)
(***************************************************************************)
EXTENDS Integers, Sequences

CONSTANTS
  N,              \* number of instances, in list order 1 .. N
  FdInstances,    \* instances whose sfptpd_clock_shm_get_fd gave a descriptor
  MaxLag,         \* bound on the time-of-day polls due at once
  MaxSteps,       \* bound on the clock steps of each instance
  GetCanFail,     \* sfptpd_clock_shm_get may return an error
  Ctrl,           \* control flags the engine's CONTROL message has set
  StatusCanFail   \* sfptpd_sync_module_get_status may return an error

Instances == 1 .. N

ASSUME N \in Nat \ {0} /\ FdInstances \subseteq Instances
ASSUME GetCanFail \in BOOLEAN
ASSUME MaxLag \in Nat \ {0} /\ MaxSteps \in Nat /\ StatusCanFail \in BOOLEAN

VARIABLES
  insts,     \* struct sfptpd_shm_instance of each instance (ShmInstance's record)
  phase,     \* "startup" until SFPTPD_APP_MSG_RUN, then "running"
  timer,     \* the instance shm_on_timer is at, 0 outside the handler
  loop,      \* inside the do_poll loop of instance timer
  lag,       \* time-of-day polls due: how far next_poll_time is behind now
  tod,       \* shm->time_of_day: [found, state, off]
  ntp,       \* the engine has a time-of-day sync module to hand out
  srcState,  \* that module's state
  fresh,     \* the feed has a sample newer than each subscription's last read
  pending    \* the driver of each instance has an SHM event not yet read

vars == <<insts, phase, timer, loop, lag, tod, ntp, srcState, fresh, pending>>

SI == INSTANCE ShmInstance
        WITH UseFd <- FALSE, OutlierFilter <- FALSE, ClockCtrl <- "SLEW_AND_STEP",
             SeqMod <- 3, MaxSteps <- MaxSteps, CompareCanFail <- TRUE,
             inst <- insts[1], phase <- phase, loop <- loop, hwSeq <- 0,
             todState <- srcState

ASSUME Ctrl \subseteq SI!Flags

TodStates == {"LISTENING", "SLAVE"}
NO_TOD == "NO_TIME_OF_DAY"
Zero == [nonzero |-> FALSE, fixes |-> <<>>]

\* The instance after k in the list; 0 past the last one.
Succ(k) == IF k = N THEN 0 ELSE k + 1

-----------------------------------------------------------------------------
(* The code.                                                               *)

\* shm_time_of_day_init: the engine's module, or ENOENT; a found module
\* restarts the poll clock with the status LISTENING and a zero offset.
TodInit(t) ==
  IF ntp THEN [found |-> TRUE, state |-> "LISTENING", off |-> Zero] ELSE t

\* sfptpd_sync_module_get_status: on success the module's state and an
\* offset, zero or not; on failure the status is left as it was.
GetStatus(t, ok, nonzero) ==
  IF ok THEN [t EXCEPT !.state = srcState, !.off = [nonzero |-> nonzero, fixes |-> <<>>]]
  ELSE t

\* rc == 0 && the offset is not zero, and the compare after require_fresh
\* succeeds: only with a sample the subscription has not read yet.
Corrects(k, ok, t) == ok /\ t.off.nonzero /\ fresh[k]

\* shm_time_of_day_poll for instance k with record i: nothing unless a poll
\* is due; else next_poll_time += 1, a retry of shm_time_of_day_init when
\* no module was found, get_status, the system-to-NIC correction of the
\* shared status with k's clock, and k's NO_TIME_OF_DAY from that status.
TodPoll(k, i, ok, nonzero) ==
  LET retry == ~tod.found /\ ntp
      t0 == IF tod.found THEN tod ELSE TodInit(tod)
      t1 == IF t0.found THEN GetStatus(t0, ok, nonzero) ELSE t0
      fix == t0.found /\ Corrects(k, ok, t1)
      t2 == IF fix THEN [t1 EXCEPT !.off.fixes = Append(@, k)] ELSE t1
  IN IF lag = 0 THEN [inst |-> i, tod |-> tod, lag |-> lag, fresh |-> fresh]
     ELSE [inst |-> [i EXCEPT !.alarms = IF t2.state = "SLAVE" THEN @ \ {NO_TOD}
                                         ELSE @ \cup {NO_TOD}],
           tod |-> t2,
           lag |-> IF retry THEN 0 ELSE lag - 1,
           fresh |-> IF fix THEN [fresh EXCEPT ![k] = FALSE] ELSE fresh]

\* The SHM event handling at the top of shm_do_poll.
Handle(i, o) ==
  CASE o = "EAGAIN" -> SI!OnNoShmEvent(i)
    [] o = "error"  -> SI!OnShmError(i)
    [] o = "event"  -> SI!OnShmEvent(i, SI!Sentinel, TRUE, TRUE, "small_pos")

\* What sfptpd_clock_shm_get returns for instance k: its pending event, or
\* EAGAIN, or an error.
Results(k) ==
  (IF pending[k] THEN {"event"} ELSE {"EAGAIN"}) \cup (IF GetCanFail THEN {"error"} ELSE {})

\* shm_do_poll for instance k: event, time-of-day poll, convergence, report.
DoPoll(k, o) ==
  \E ok \in IF StatusCanFail THEN BOOLEAN ELSE {TRUE}, nonzero \in BOOLEAN,
     conv \in SI!ConvOutcomes :
    LET r == TodPoll(k, Handle(insts[k], o), ok, nonzero) IN
    /\ insts' = [insts EXCEPT ![k] = SI!Report(SI!ConvergenceUpdate(r.inst, conv))]
    /\ tod' = r.tod
    /\ lag' = r.lag
    /\ fresh' = r.fresh
    /\ pending' = IF o = "event" THEN [pending EXCEPT ![k] = FALSE] ELSE pending

\* shm_on_timer reaches instance k: the pulse check, then with a
\* descriptor shm_on_no_shm_event and on to the next instance, without one
\* the do_poll loop.
Visit(k) ==
  /\ phase = "running"
  /\ IF k = 1 THEN timer = 0 ELSE timer = k /\ ~loop
  /\ LET i == SI!PulseCheck(insts[k]) IN
       IF k \in FdInstances
       THEN /\ insts' = [insts EXCEPT ![k] = SI!OnNoShmEvent(i)]
            /\ timer' = Succ(k) /\ loop' = FALSE
       ELSE /\ insts' = [insts EXCEPT ![k] = i]
            /\ timer' = k /\ loop' = TRUE
  /\ UNCHANGED <<phase, lag, tod, ntp, srcState, fresh, pending>>

\* One iteration of instance k's do_poll loop; it repeats while rc == 0.
LoopPoll(k) ==
  /\ timer = k /\ loop
  /\ \E o \in Results(k) :
       /\ DoPoll(k, o)
       /\ IF o = "event" THEN UNCHANGED <<timer, loop>>
          ELSE timer' = Succ(k) /\ loop' = FALSE
  /\ UNCHANGED <<phase, ntp, srcState>>

\* shm_on_user_fds: instance k's descriptor is readable.
UserFd(k) ==
  /\ k \in FdInstances /\ phase = "running" /\ timer = 0
  /\ \E o \in Results(k) \ {"EAGAIN"} : DoPoll(k, o)
  /\ UNCHANGED <<phase, timer, loop, ntp, srcState>>

\* shm_on_step_clock through instance k: the step, and shm_servo_reset
\* zeroes the offset that every instance reads.
StepClockMsg(k) ==
  /\ timer = 0 /\ insts[k].epoch < MaxSteps
  /\ insts' = [insts EXCEPT ![k] = SI!StepClock(@)]
  /\ tod' = [tod EXCEPT !.off = Zero]
  /\ UNCHANGED <<phase, timer, loop, lag, ntp, srcState, fresh, pending>>

\* shm_on_run: the poll timer starts.
Run ==
  /\ phase = "startup"
  /\ phase' = "running"
  /\ UNCHANGED <<insts, timer, loop, lag, tod, ntp, srcState, fresh, pending>>

-----------------------------------------------------------------------------
(* The environment.                                                        *)

\* Monotonic time passes for every instance and for next_poll_time, and
\* each source may or may not emit its once-a-second pulse.  A handler runs
\* for far less than the 250 ms tick, so time passes between handlers.
Elapse ==
  /\ timer = 0
  /\ \E new \in SUBSET Instances :
       LET pending1 == [k \in Instances |-> pending[k] \/ k \in new] IN
       /\ \/ lag < MaxLag \/ pending1 # pending
          \/ \E k \in Instances : SI!Counting(insts[k]) \/ SI!Pulsing(insts[k])
       /\ pending' = pending1
  /\ insts' = [k \in Instances |-> SI!Aged(insts[k])]
  /\ lag' = IF lag < MaxLag THEN lag + 1 ELSE lag
  /\ UNCHANGED <<phase, timer, loop, tod, ntp, srcState, fresh>>

\* The clock feed publishes a sample of every clock.
FeedTick ==
  /\ \E k \in Instances : ~fresh[k]
  /\ fresh' = [k \in Instances |-> TRUE]
  /\ UNCHANGED <<insts, phase, timer, loop, lag, tod, ntp, srcState, pending>>

\* The time-of-day sync module changes state.
TodChange ==
  /\ srcState' = IF srcState = "SLAVE" THEN "LISTENING" ELSE "SLAVE"
  /\ UNCHANGED <<insts, phase, timer, loop, lag, tod, ntp, fresh, pending>>

\* A time-of-day sync module becomes available from the engine.
NtpAppears ==
  /\ ~ntp /\ ntp' = TRUE
  /\ UNCHANGED <<insts, phase, timer, loop, lag, tod, srcState, fresh, pending>>

-----------------------------------------------------------------------------

\* The module is calloc'ed, the instances started, then shm_on_startup
\* runs shm_time_of_day_init, tolerating ENOENT: with no module found the
\* status and next_poll_time keep calloc's zero, a LISTENING status and a
\* poll time long past.
Init ==
  /\ insts = [k \in Instances |-> [SI!InitialInstance EXCEPT !.ctrl = Ctrl]]
  /\ phase = "startup"
  /\ timer = 0
  /\ loop = FALSE
  /\ ntp \in BOOLEAN
  /\ srcState \in TodStates
  /\ tod = [found |-> ntp, state |-> "LISTENING", off |-> Zero]
  /\ lag = IF ntp THEN 0 ELSE MaxLag
  /\ fresh \in [Instances -> BOOLEAN]
  /\ pending = [k \in Instances |-> FALSE]

Next ==
  \/ Run \/ Elapse \/ FeedTick \/ TodChange \/ NtpAppears
  \/ \E k \in Instances : Visit(k) \/ LoopPoll(k) \/ UserFd(k) \/ StepClockMsg(k)

\* The poll timer fires every 250 ms and its handler runs to its end; the
\* feed thread ticks.  Monotonic time always advances: Elapse, enabled
\* between handlers only, is strongly fair.  Nothing forces a source to
\* pulse, the engine to step a clock, or the time-of-day module to change.
Fairness ==
  /\ WF_vars(Run) /\ SF_vars(Elapse) /\ WF_vars(FeedTick)
  /\ \A k \in Instances : WF_vars(Visit(k)) /\ WF_vars(LoopPoll(k))

Spec == Init /\ [][Next]_vars /\ Fairness

-----------------------------------------------------------------------------
(* Properties.                                                             *)

TypeOK ==
  /\ \A k \in Instances : /\ insts[k].state \in SI!States
                          /\ insts[k].alarms \subseteq SI!Alarms
  /\ phase \in {"startup", "running"}
  /\ timer \in 0 .. N /\ loop \in BOOLEAN
  /\ lag \in 0 .. MaxLag
  /\ tod.found \in BOOLEAN /\ tod.state \in TodStates
  /\ tod.off.nonzero \in BOOLEAN /\ tod.off.fixes \in Seq(Instances)
  /\ ntp \in BOOLEAN /\ srcState \in TodStates
  /\ fresh \in [Instances -> BOOLEAN]
  /\ pending \in [Instances -> BOOLEAN]

\* Spec 4.4 and scenario 6: every instance polls the time of day once a
\* second and raises NO_TIME_OF_DAY while the module is out of SLAVE.  So
\* an instance that shm_on_timer keeps reaching, while the time-of-day
\* module stays out of SLAVE, has NO_TIME_OF_DAY raised again and again
\* (a state-machine reset in between clears it).
PolledInstanceSeesTimeOfDayLoss ==
  \A k \in Instances :
    ([]<>(timer = k) /\ <>[](srcState # "SLAVE")) => []<>(NO_TOD \in insts[k].alarms)

====
