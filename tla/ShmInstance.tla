---------------------------- MODULE ShmInstance ----------------------------
(***************************************************************************)
(* One servo instance of the SHM sync module                               *)
(* (src/src/shm/sfptpd_shm_module.c) on the SHM module's thread: the       *)
(* LISTENING / SLAVE / FAULTY state machine, alarms, the per-event         *)
(* pipeline of shm_on_shm_event (sequence check, step skip, notch filter,  *)
(* good-period gate, outlier filter, step-or-slew decision), the           *)
(* time-of-day poll, the convergence measure and the state reports to the  *)
(* engine made by shm_do_poll, driven by the poll timer or by the driver's *)
(* file descriptor, interleaved with the engine's CONTROL and STEP_CLOCK   *)
(* messages.                                                               *)
(*                                                                         *)
(* The thread runs one handler at a time, so every handler is one step,    *)
(* except that the do { shm_do_poll } while (rc == 0) loop of shm_on_timer *)
(* takes one step per iteration with no message handled in between.        *)
(*                                                                         *)
(* Abstractions.  Floating-point filter outputs and driver results are     *)
(* free choices: the notch filter's verdict, the outlier filter's, the     *)
(* offset (small or beyond the 500 ms step threshold, and its sign), the   *)
(* convergence verdict, the time-of-day module's state.  Elapsed monotonic *)
(* time is counted in abstract units ordered like the code's intervals     *)
(* (1.1 s < 8 s < 60 s).  The clock's epoch counts the steps made to it,   *)
(* and a stored SHM timestamp carries the epoch it was taken in.  The      *)
(* uint32 sequence number is taken modulo SeqMod with SeqMod - 1 as its    *)
(* UINT32_MAX sentinel.                                                    *)
(***************************************************************************)
EXTENDS Integers

CONSTANTS
  UseFd,          \* sfptpd_clock_shm_get_fd returned a descriptor
  OutlierFilter,  \* config->outlier_filter.enabled
  ClockCtrl,      \* general_config->clocks.control
  SeqMod,         \* 2^32 for the uint32 sequence number
  MaxSteps,       \* bound on the clock steps a behaviour makes
  CompareCanFail  \* sfptpd_clockfeed_compare may fail in time_of_day_poll

ASSUME UseFd \in BOOLEAN /\ OutlierFilter \in BOOLEAN /\ CompareCanFail \in BOOLEAN
ASSUME ClockCtrl \in {"SLEW_AND_STEP", "STEP_AT_STARTUP", "STEP_FORWARD", "SLEW_ONLY"}
ASSUME SeqMod \in Nat /\ SeqMod >= 3 /\ MaxSteps \in Nat

REQUIRED_GOOD_PERIODS == 3   \* SHM_REQUIRED_GOOD_PERIODS
AlarmAfter == 1              \* shm_alarm_interval, 1.1 s
PulseAfter == 2              \* shm_pulse_timeout_interval, 8 s
TimeoutAfter == 3            \* shm_timeout_interval, 60 s
Sentinel == SeqMod - 1       \* UINT32_MAX

States == {"LISTENING", "SLAVE", "FAULTY"}
Alarms == {"NO_SIGNAL", "SEQ_NUM_ERROR", "BAD_SIGNAL", "NO_TIME_OF_DAY"}
Flags == {"TIMESTAMP_PROCESSING", "CLOCK_CTRL"}
Offsets == {"small_pos", "small_neg", "big_pos", "big_neg"}
TSP == "TIMESTAMP_PROCESSING"

VARIABLES
  inst,      \* struct sfptpd_shm_instance, as a record (fields below)
  phase,     \* "startup" until SFPTPD_APP_MSG_RUN, then "running"
  loop,      \* inside the do ... while (rc == 0) loop of shm_on_timer
  hwSeq,     \* the driver's sequence number of the last SHM event it made
  todState   \* state of the time-of-day sync module

vars == <<inst, phase, loop, hwSeq, todState>>

Cap(n, bound) == IF n > bound THEN bound ELSE n

-----------------------------------------------------------------------------
(* State machine helpers.                                                  *)

\* shm_state_machine_reset: back to LISTENING with everything cleared,
\* including the snapshot of the previous state.
Reset(i) ==
  [i EXCEPT !.state = "LISTENING", !.prevState = "LISTENING", !.alarms = {},
            !.prevClean = TRUE, !.good = 0, !.hasTs = FALSE, !.seq = 0]

\* shm_servo_step_clock with shm_servo_reset: the clock moves to a new epoch,
\* the stored timestamp and the time-of-day offset are zeroed and the next
\* sample is to be skipped.  Failures of the clock calls are only logged.
StepClock(i) ==
  [i EXCEPT !.epoch = @ + 1, !.hasTs = FALSE, !.todOffset = "zero",
            !.stepOccurred = TRUE]


\* (uint32_t)(instance->shm_seq_num + 1)
SeqNext(s) == (s + 1) % SeqMod

\* The discontinuity test of shm_on_shm_event.
SeqError(prev, seq) == seq # Sentinel /\ seq # SeqNext(prev)

\* Mutant: no sample is skipped after a step.
NeverSkip(i) == FALSE

\* The step-skip test of shm_on_shm_event.
SkipAfterStep(i) == i.stepOccurred

\* The step policy of shm_servo_update.
StepAllowed(i, offset) ==
  \/ ClockCtrl = "SLEW_AND_STEP"
  \/ ClockCtrl = "STEP_AT_STARTUP" /\ ~i.servoActive
  \/ ClockCtrl = "STEP_FORWARD" /\ offset \in {"small_neg", "big_neg"}

\* shm_servo_update: step when allowed and the offset is beyond the
\* threshold, otherwise slew (FIR, PID, saturation); the clock is touched
\* only with CLOCK_CTRL.
ServoUpdate(i, offset) ==
  IF "CLOCK_CTRL" \notin i.ctrl THEN i
  ELSE IF StepAllowed(i, offset) /\ offset \in {"big_pos", "big_neg"}
  THEN [StepClock(i) EXCEPT !.servoActive = TRUE]
  ELSE [i EXCEPT !.servoActive = TRUE]

\* The period and notch filter: only with a stored timestamp.  A bad period
\* raises BAD_SIGNAL and restarts the count.  The count is kept saturated
\* at REQUIRED_GOOD_PERIODS, beyond which the code does not tell counts
\* apart.  spanned records a period measured across a clock step.
Period(i, notchOk) ==
  IF ~i.hasTs THEN i
  ELSE LET j == [i EXCEPT !.spanned = @ \/ i.tsEpoch # i.epoch] IN
       IF notchOk THEN [j EXCEPT !.good = Cap(@ + 1, REQUIRED_GOOD_PERIODS)]
       ELSE [j EXCEPT !.alarms = @ \cup {"BAD_SIGNAL"}, !.good = 0]

\* Mutant: the gate opens without clearing BAD_SIGNAL.
GateKeepsBadSignal(i, outlierOk, offset) ==
  IF i.good < REQUIRED_GOOD_PERIODS THEN i
  ELSE IF OutlierFilter /\ ~outlierOk THEN i ELSE ServoUpdate(i, offset)

\* Enough good periods: clear BAD_SIGNAL, apply the outlier filter if
\* configured, run the servo on an accepted sample.
GoodPeriodGate(i, outlierOk, offset) ==
  IF i.good < REQUIRED_GOOD_PERIODS THEN i
  ELSE LET j == [i EXCEPT !.alarms = @ \ {"BAD_SIGNAL"}] IN
       IF OutlierFilter /\ ~outlierOk THEN j ELSE ServoUpdate(j, offset)

\* The SLAVE branch of shm_on_shm_event.
SlaveEvent(i, seq, notchOk, outlierOk, offset) ==
  LET a == i.alarms \ {"NO_SIGNAL"}
      j == [i EXCEPT !.alarms = IF SeqError(i.seq, seq)
                                THEN a \cup {"SEQ_NUM_ERROR"}
                                ELSE a \ {"SEQ_NUM_ERROR"}]
  IN IF TSP \notin i.ctrl THEN j
     ELSE IF SkipAfterStep(i) THEN [j EXCEPT !.stepOccurred = FALSE, !.hasTs = FALSE]
     ELSE GoodPeriodGate(Period(j, notchOk), outlierOk, offset)

\* shm_on_shm_event: LISTENING and FAULTY go to SLAVE; then, in all cases,
\* record the sequence number and the time of the event, and the
\* timestamp (taken before any step this event made) when timestamp
\* processing is enabled.
OnShmEvent(i, seq, notchOk, outlierOk, offset) ==
  LET h == IF i.state = "SLAVE"
           THEN SlaveEvent(i, seq, notchOk, outlierOk, offset)
           ELSE [i EXCEPT !.state = "SLAVE"]
  IN [h EXCEPT !.seq = seq, !.sinceEvent = 0,
               !.hasTs = IF TSP \in i.ctrl THEN TRUE ELSE @,
               !.tsEpoch = IF TSP \in i.ctrl THEN i.epoch ELSE @]

\* Mutant: the timeout test also requires NO_SIGNAL to be clear, as the
\* alarm test of the else branch does.
TimedOutUnlessAlarmed(i) ==
  i.sinceEvent >= TimeoutAfter /\ "NO_SIGNAL" \notin i.alarms

\* The long no-event test of shm_on_no_shm_event.
TimedOut(i) == i.sinceEvent >= TimeoutAfter

\* shm_on_no_shm_event.
OnNoShmEvent(i) ==
  CASE i.state = "LISTENING" -> i
    [] i.state = "SLAVE" ->
         IF TimedOut(i) THEN Reset(i)
         ELSE IF i.sinceEvent >= AlarmAfter /\ "NO_SIGNAL" \notin i.alarms
              THEN [i EXCEPT !.alarms = @ \cup {"NO_SIGNAL"}]
              ELSE i
    [] i.state = "FAULTY" -> Reset(i)

\* shm_on_shm_error: a driver error makes LISTENING or SLAVE FAULTY.
OnShmError(i) ==
  IF i.state = "FAULTY" THEN i ELSE [Reset(i) EXCEPT !.state = "FAULTY"]

\* shm_time_of_day_poll: nothing until the once-a-second poll is due; then
\* a zero offset stays zero, a non-zero one is corrected by the
\* system-to-NIC compare or left raw when the compare fails, and
\* NO_TIME_OF_DAY follows the module's state.
TodOutcomes == {"not_due", "zero", "corrected", "raw"}

TodPoll(i, tod) ==
  IF tod = "not_due" THEN i
  ELSE [i EXCEPT !.todOffset = tod,
                 !.alarms = IF todState = "SLAVE" THEN @ \ {"NO_TIME_OF_DAY"}
                            ELSE @ \cup {"NO_TIME_OF_DAY"}]

\* shm_convergence_update: reset outside SLAVE or when the monotonic clock
\* read fails; leave synchronized alone with alarms or timestamp
\* processing off; otherwise take the convergence measure's verdict.
ConvOutcomes == {"clock_fail", "converged", "not_converged"}

ConvergenceUpdate(i, conv) ==
  IF conv = "clock_fail" \/ i.state # "SLAVE" THEN [i EXCEPT !.synchronized = FALSE]
  ELSE IF i.alarms # {} \/ TSP \notin i.ctrl THEN i
  ELSE [i EXCEPT !.synchronized = conv = "converged"]

\* The end of shm_do_poll: report a change of state, or of alarms-or-none in
\* SLAVE, to the engine, and snapshot the state.
StateChanged(i) ==
  \/ i.state # i.prevState
  \/ i.state = "SLAVE" /\ (i.alarms = {}) # i.prevClean

Report(i) ==
  [i EXCEPT !.reported = IF StateChanged(i)
                         THEN [state |-> i.state, clean |-> i.alarms = {}]
                         ELSE @,
            !.prevState = i.state, !.prevClean = i.alarms = {}]

\* The SHM pulse check at the top of shm_on_timer.
PulseCheck(i) ==
  IF ~i.started THEN [i EXCEPT !.started = TRUE, !.sinceStart = 0]
  ELSE IF ~i.pulseExpired /\ i.sinceStart >= PulseAfter
       THEN [i EXCEPT !.pulseExpired = TRUE,
                      !.alarms = IF i.good < REQUIRED_GOOD_PERIODS
                                 THEN @ \cup {"NO_SIGNAL"} ELSE @]
       ELSE i

-----------------------------------------------------------------------------
(* Actions.                                                                *)

\* The filter verdicts and offset of an SHM event.  They are read only by
\* the SLAVE branch with timestamp processing on, the outlier verdict only
\* with the filter configured; a large offset is offered only while the
\* clock may still be stepped (MaxSteps), a negative one only where the
\* step policy reads the sign (STEP_FORWARD).
FilterInputs(i) ==
  IF i.state # "SLAVE" \/ TSP \notin i.ctrl
  THEN {[notchOk |-> TRUE, outlierOk |-> TRUE, offset |-> "small_pos"]}
  ELSE [notchOk : BOOLEAN,
        outlierOk : IF OutlierFilter THEN BOOLEAN ELSE {TRUE},
        offset : {o \in Offsets : /\ (i.epoch < MaxSteps \/ o \in {"small_pos", "small_neg"})
                                   /\ (ClockCtrl = "STEP_FORWARD" \/ o \in {"small_pos", "big_pos"})}]

\* shm_do_poll: fetch an event, handle it, poll the time of day, update
\* convergence and report.  In timer mode this is one iteration of the
\* on_timer loop, which ends when the driver has no event (or fails); in
\* descriptor mode it is shm_on_user_fds.
DoPoll ==
  /\ phase = "running"
  /\ IF UseFd THEN ~loop ELSE loop
  /\ \E tod \in TodOutcomes \ (IF CompareCanFail THEN {} ELSE {"raw"}), conv \in ConvOutcomes :
       LET Finish(i) == Report(ConvergenceUpdate(TodPoll(i, tod), conv)) IN
       \/ /\ inst' = Finish(OnNoShmEvent(inst))
          /\ loop' = FALSE
          /\ UNCHANGED hwSeq
       \/ /\ inst' = Finish(OnShmError(inst))
          /\ loop' = FALSE
          /\ UNCHANGED hwSeq
       \/ \E gap \in BOOLEAN, filt \in FilterInputs(inst) :
            LET seq == (hwSeq + IF gap THEN 2 ELSE 1) % SeqMod IN
            /\ inst' = Finish(OnShmEvent(inst, seq, filt.notchOk, filt.outlierOk, filt.offset))
            /\ loop' = ~UseFd
            /\ hwSeq' = seq
  /\ UNCHANGED <<phase, todState>>

\* shm_on_timer: the pulse check, then either the do_poll loop or, with a
\* descriptor, shm_on_no_shm_event alone.
Timer ==
  /\ phase = "running" /\ ~loop
  /\ LET i == PulseCheck(inst) IN
       IF UseFd THEN inst' = OnNoShmEvent(i) /\ loop' = FALSE
       ELSE inst' = i /\ loop' = TRUE
  /\ UNCHANGED <<phase, hwSeq, todState>>

\* shm_on_run: with a descriptor, drain (discard) the events queued so far;
\* start the poll timer.
Run ==
  /\ phase = "startup"
  /\ phase' = "running"
  /\ IF UseFd THEN hwSeq' \in 0 .. SeqMod - 1 ELSE UNCHANGED hwSeq
  /\ UNCHANGED <<inst, loop, todState>>

\* shm_on_control: new flags under the mask; turning timestamp processing
\* off zeroes the stored timestamp (turning clock control off resets the
\* PID filter, whose state is not modelled).
Control ==
  /\ ~loop
  /\ \E mask, flags \in SUBSET Flags :
       LET new == (inst.ctrl \ mask) \cup (flags \cap mask) IN
       inst' = [inst EXCEPT !.ctrl = new,
                            !.hasTs = IF TSP \in inst.ctrl /\ TSP \notin new
                                      THEN FALSE ELSE @]
  /\ UNCHANGED <<phase, loop, hwSeq, todState>>

\* shm_on_step_clock: the engine steps the clock through this instance.
StepClockMsg ==
  /\ ~loop /\ inst.epoch < MaxSteps
  /\ inst' = StepClock(inst)
  /\ UNCHANGED <<phase, loop, hwSeq, todState>>

\* Monotonic time passes.  Time since the last event is counted only in
\* SLAVE, and time since the start only until the pulse check has expired:
\* elsewhere the code never reads them before it overwrites them.
Counting(i) == i.state = "SLAVE" /\ i.sinceEvent < TimeoutAfter
Pulsing(i) == i.started /\ ~i.pulseExpired /\ i.sinceStart < PulseAfter

Aged(i) == [i EXCEPT !.sinceEvent = IF Counting(i) THEN @ + 1 ELSE @,
                     !.sinceStart = IF Pulsing(i) THEN @ + 1 ELSE @]

Elapse ==
  /\ Counting(inst) \/ Pulsing(inst)
  /\ inst' = Aged(inst)
  /\ UNCHANGED <<phase, loop, hwSeq, todState>>

\* The time-of-day sync module changes state.
TodChange ==
  /\ todState' = IF todState = "SLAVE" THEN "LISTENING" ELSE "SLAVE"
  /\ UNCHANGED <<inst, phase, loop, hwSeq>>

-----------------------------------------------------------------------------

\* An instance after shm_start_instance: default flags (timestamp
\* processing on, clock control off), state machine and servo reset,
\* convergence initialised.
InitialInstance ==
  [state |-> "LISTENING", prevState |-> "LISTENING",
   alarms |-> {}, prevClean |-> TRUE,
   ctrl |-> {TSP}, good |-> 0, seq |-> 0,
   hasTs |-> FALSE, tsEpoch |-> 0, epoch |-> 0,
   stepOccurred |-> FALSE, servoActive |-> FALSE,
   sinceEvent |-> TimeoutAfter, started |-> FALSE,
   sinceStart |-> 0, pulseExpired |-> FALSE,
   todOffset |-> "zero", synchronized |-> FALSE,
   reported |-> [state |-> "LISTENING", clean |-> TRUE],
   spanned |-> FALSE]

Init ==
  /\ inst = InitialInstance
  /\ phase = "startup"
  /\ loop = FALSE
  /\ hwSeq \in 0 .. SeqMod - 1
  /\ todState \in {"SLAVE", "LISTENING"}

Next ==
  \/ DoPoll \/ Timer \/ Run \/ Control \/ StepClockMsg \/ Elapse \/ TodChange

\* The poll timer fires every 250 ms and monotonic time advances; in timer
\* mode the on_timer loop runs to its end.  Nothing forces the driver to
\* deliver events, nor the engine to send messages.
Fairness ==
  /\ WF_vars(Elapse)
  /\ WF_vars(Timer)
  /\ WF_vars(Run)
  /\ (~UseFd => WF_vars(DoPoll))

Spec == Init /\ [][Next]_vars /\ Fairness

-----------------------------------------------------------------------------
(* Properties.  Safety is stated between handlers (~loop): inside the      *)
(* on_timer loop the engine cannot look.                                   *)

\* The step skip of shm_on_shm_event (step_occurred): no period fed to the
\* notch filter is measured between a timestamp taken before a clock step
\* and one taken after it, whether the step was made by the servo inside
\* the same event or by the engine's STEP_CLOCK message.
PeriodWithinEpoch == ~inst.spanned

\* BAD_SIGNAL (spec: cleared after REQUIRED_GOOD_PERIODS good periods) is
\* never up while the good-period gate is open: the bad period that raises
\* it restarts the count, and the gate clears it when the count gets back.
BadSignalMeansFewGood ==
  ~loop /\ "BAD_SIGNAL" \in inst.alarms => inst.good < REQUIRED_GOOD_PERIODS

\* With the poll timer firing, a SLAVE instance that stops getting SHM
\* events leaves SLAVE (shm_on_no_shm_event resets it after 60 s).
SlaveTimesOut ==
  (inst.state = "SLAVE" /\ inst.sinceEvent > 0)
    ~> (inst.state # "SLAVE" \/ inst.sinceEvent = 0)

\* The engine's view (the last SFPTPD_SYNC_MODULE state-changed report of
\* shm_do_poll) matches the instance between handlers: its state, and in
\* SLAVE whether alarms are raised.
EngineViewCurrent ==
  ~loop =>
    /\ inst.reported.state = inst.state
    /\ inst.state = "SLAVE" => inst.reported.clean = (inst.alarms = {})

\* shm_convergence_update (comment: "if any alarms are triggered, the
\* instance is not synchronized"; spec scenario 6: with the time of day lost
\* synchronized becomes false): synchronized is only reported for a SLAVE
\* instance with no alarm and timestamp processing on.
SynchronizedOnlyWhenClean ==
  ~loop /\ inst.synchronized =>
    inst.state = "SLAVE" /\ inst.alarms = {} /\ TSP \in inst.ctrl

=============================================================================
