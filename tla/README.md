# TLA+ models of the sfptpd clock feed and SHM sync module

This directory holds TLA+ specifications of two parts of sfptpd, with the TLC
configurations that check them. The parts are:

- `src/src/sfptpd_clockfeed.c` (the clock feed);
- `src/src/shm/sfptpd_shm_module.c` (the SHM sync module).

Every definition is translated from the C source. `PROJECT.json` maps each one
to the lines it models.

## The system

**Clock feed (C1 + C2).**
- *Threads and handlers.* One thread, "clocks", owns every source and
  subscription. Other threads change them only through synchronous messages:
  add_clock, remove_clock, subscribe, unsubscribe, subscribe_events,
  unsubscribe_events and shutdown. Each handler runs to completion and then
  replies, and the caller blocks until the reply arrives.
- *Sampling.* On each timer tick (`clockfeed_on_timer`), every active source
  whose cadence is due writes one record into its ring. The record holds the
  compare rc, mono, system and snapshot. The source then increments
  `write_counter`. After that the thread sends SYNC_EVENT to the event
  subscribers.
- *Lock-free reads.* `clockfeed_compare_to_sys` runs on the subscriber's own
  thread and takes no lock. It does the following, in order:
  1. reads `write_counter` (writer1);
  2. loads the newest record;
  3. re-reads the counter (writer2);
  4. rejects the read if the writer may have lapped the slot.
- *Removal.* Removing a clock makes its source a tombstone on the inactive
  list. The source is freed only when its last subscription goes
  (`clockfeed_reap_zombies`).

**SHM module (C4).** One thread serves all the servo instances. It does three
things:
- It reacts to SHM events: the sequence check, notch filter, good-period gate,
  outlier filter and servo.
- It runs timers: the no-event timeouts, the pulse check and the time-of-day
  poll through the feed.
- It handles engine control messages.

The two parts meet at `time_of_day_poll`. It calls `require_fresh` and then
`sfptpd_clockfeed_compare` on the instance's feed subscription.

## Inventory

| Component | State | Operations | Hard behaviour |
|---|---|---|---|
| Sample ring | `write_counter`, `samples[16]`; per subscription: `read_counter`, `min_counter`, `max_age` | `on_timer` (write record, publish), `compare_to_sys`, `require_fresh`, `set_max_age` | A lock-free reader interleaved with the writer; the lap threshold; loads after the re-check |
| Registry | `active`/`inactive` lists, each source's subscriber list | `add_clock`, `remove_clock`, `subscribe`, `unsubscribe`, `reap_zombies`, `on_shutdown` | Deferred reclamation; the walk over a list that frees its own nodes |
| Two-leg compare | (none) | `sfptpd_clockfeed_compare` | `max_age_diff` arithmetic; ordering of the mono times |
| Events | `event_subscribers[4]`, local message pool | `send_sync_event`, `subscribe_events`, `unsubscribe_events` | A full table ends the feed thread; a dry pool drops events |
| SHM instance | state (LISTENING/SLAVE/FAULTY), alarms, `ctrl_flags`, seq, `step_occurred`, good periods, `synchronized` | `on_shm_event`, `on_no_shm_event`, `on_timer`, `do_poll`, `drain_events`, engine messages | Timeouts, the step skip, the uint32 sequence sentinel, convergence |
| Time of day | tod status, `NO_TIME_OF_DAY` alarm | `time_of_day_poll` | Errors from `require_fresh` plus compare |

Properties per component:
- ring: a result comes from a single sample;
- registry: no dangling subscription, prompt reaping, a clean shutdown;
- compare: `max_age_diff` against a reference;
- events: no event after unsubscribe, no drop without a backlog;
- SHM: state-machine invariants, the time-of-day alarm of every instance,
  and `synchronized` only when it is really synchronized.

The hazards are listed in `PROJECT.json` at the lines where they bite.

## Modules

### `ClockFeedRing` (one source's ring, writer plus readers)

**Writer.** The body of `on_timer` for one source is split into one action
per store:
- `WriteRc` stores seq and rc;
- `WriteMono`;
- `WriteSystem`;
- `WriteSnapshot`, which writes system+diff, or zero when the rc failed;
- `Publish`, which does `write_counter++`.

**Readers.** Each reader runs `compare_to_sys` as one action per shared load:
1. `CompareStart`: writer1 and the early returns;
2. `LoadRc`;
3. `LoadSnapshot`;
4. `LoadSystem`;
5. `Check`: writer2, the overrun test and the `min_counter` test;
6. `AgeCheck`;
7. `CopyOut`: t1, t2, mono and `read_counter`.

`RequireFresh` and `SetMaxAge` are the setters. `RemoveClock` sets
`inactive`.

**Data abstraction.** Each field stores the number of the write that stored it
(its provenance). `Zero` stands for calloc'd memory and for a failed
snapshot.

**Memory model.** Memory is sequentially consistent. This is the x86 TSO
assumption, and it is listed as a hazard.

**Properties.**
- `DiffFromOneSample`: the rc and diff of a successful compare come from
  sample writer1-1.
- `OutputsFromOneSample`: the same for t1, t2 and mono_time.
- `ImplementsAtomic`: the ring refines `ClockFeedAtomic` (below).

### `ClockFeedAtomic` (what the ring promises)

The abstract ring is written from spec §4.1 and its ordering guarantee. The
feed publishes one sample per step (`Publish`). A compare either fails
(`CompareFails`), or returns a whole published sample in one step
(`CompareReturns`). That sample is never older than the one the subscription
read last, and after `RequireFresh` it is newer.

`ClockFeedRing` instantiates it as `Atomic` with this refinement mapping:
- `written` is `write_counter`;
- `out` keeps the rc, diff and seq of each reader's outputs;
- the other variables map to themselves;
- the record stores, the reader's loads and its program counter are hidden.

Each writer store except `Publish` is a stutter step, and so is each
reader step except a return. A reader that returns an error maps to
`CompareFails`, and `CopyOut` maps to `CompareReturns`.

`ImplementsAtomic == Atomic!Spec` is a property of the `ring_consistent`
run. t1, t2 and mono_time are left out of the mapping because they are
loaded after the re-check and can be torn (`ring_outputs_torn`).

### `ClockFeedRegistry` (sources, subscriptions, reaping, shutdown)

**State.** The lists are sequences of source ids, and new nodes are pushed at
the head, as the code does. Records that have been freed are kept in `freed`
and `subFreed`, and their ids are never reused, so a dangling pointer stays
visible.

**Actions.** Each handler is one atomic action. Shutdown is two actions:
- `ShutdownBegin` marks every source and splices the lists;
- `ShutdownReap` is one iteration of the reap loop. It reaps s and then reads
  `s->next`; when s has just been freed, that read sets `freedRead`.

**Properties.**
- `NoDanglingSubscription`: spec invariant 4, together with the rule that
  every unfreed source is on exactly one list.
- `ZombiesReaped`: spec invariant 3.
- `ShutdownLeavesOnlySubscribed`.
- `NoUseAfterFree`.

The reply for an unknown clock (rc 0, sub NULL) is modelled in `reply`.
No run checks it against the spec's NOT_FOUND, because the handler's lines
show the disagreement directly (see the hazard at clockfeed.c:527).

### `ShmFeed` (the SHM module as a client of the registry)

`ShmFeed` EXTENDS `ClockFeedRegistry` and adds the SHM instance lifecycle
of `sfptpd_shm_module.c`. The registry's handlers stay enabled throughout,
because other threads keep adding and removing clocks and subscribing.

**State.**
- `shm`: the module's phase. It is "startup", "running", "failing" or
  "stopping", then "failed", "down", or "aborted" (an assert fired).
- `next`: the instance that the start loop or the destroy walk is at.
- `clockCfg`: the clock of each instance's interface. Any clock can be
  chosen, so two instances can name the same one.
- `clockOf` and `feedOf`: `instance->clock` and `instance->feed`.
- `shmSubs`: a history of every subscription the module was given.

**Actions.** Starting one instance is one step, because each subscribe is
a blocking round trip to the feed thread. There is one action per outcome
of `shm_start_instance`:
- `ShmStartFails`: an early error of `shm_configure_clock` or of stats init.
- `ShmClockBusy`: the EBUSY result of `shm_find_instance_by_clock`.
- `ShmOutlierFails`: the outlier filter create fails and the instance
  returns rc 0 with no clock (shm_module.c:2226).
- `ShmSubscribeNoMem`: the subscribe gets ENOMEM, which the caller ignores.
  The instance keeps its clock with a NULL feed.
- `ShmSubscribeUnknown`: the feed has no source for the clock. The feed
  replies sub NULL and `sfptpd_clockfeed_subscribe` asserts.
- `ShmSubscribe`: the subscribe succeeds, through the registry's
  `Subscribe`.

After the loop the module is in "timers". `ShmTimersStarted` creates the
poll timer and initialises the time of day. `ShmTimerFails` is a failure
of either, which sends `shm_on_startup` to fail: with every instance
started.

`ShmShutdown` starts the destroy walk, and a failed start uses the same
walk. One iteration of `shm_destroy_instances` (`Destroyed`) is one of two
actions:
- `ShmDestroy`: the unsubscribe goes through the registry's `Unsubscribe`.
- `ShmDestroyNoMem`: `sfptpd_clockfeed_unsubscribe` finds no message and
  returns in silence. The subscription stays linked and is added to the
  history `leaked`, while the instance forgets it.

**Properties.**
- `ShmClocksDistinct`: no two instances discipline the same clock, however
  the start loop interleaves with the other threads.
- `ShmLeavesNoSubscription`: once the walk has finished, after a failed
  start or after shutdown, the only subscriptions of the module still
  linked are those in `leaked`. Every other one has been given back, so
  the sources of removed clocks can be reaped.

The shm module calls `sfptpd_clockfeed_subscribe(feed, clock, &feed)`
with three arguments and `sfptpd_clockfeed_unsubscribe(feed, sub)` with
two. `sfptpd_clockfeed.c` defines them with two and one parameters. The
model follows the definitions in `sfptpd_clockfeed.c`.

### `ShmInstance` (one SHM servo instance on the SHM thread)

**State.** `inst` is `struct sfptpd_shm_instance` as a record. It holds:
- `state`, `alarms`, `ctrl`, `good` (`consecutive_good_periods`), `seq`;
- `hasTs`/`tsEpoch` (the stored `shm_timestamp` and the clock epoch it was
  taken in), `epoch` (steps made to the clock), `stepOccurred`,
  `servoActive`;
- `sinceEvent`/`sinceStart` (elapsed monotonic time), the pulse-check flags;
- `todOffset` (zero, corrected or raw), `synchronized`;
- `prevState`/`prevClean` (the snapshot `shm_do_poll` compares against) and
  `reported` (the last status sent to the engine);
- a history field `spanned`, set by the code path it describes.

Outside the record: `phase` (before or after `shm_on_run`), `loop` (inside the
`do … while (rc == 0)` of `shm_on_timer`), the driver's `hwSeq` and the
time-of-day module's `todState`.

**Actions.**
- `DoPoll`: one `shm_do_poll`: EAGAIN, error or an event, then
  `TodPoll`, `ConvergenceUpdate` and `Report`, composed as record
  transformers in the order of the code. In timer mode it is one iteration
  of the on_timer loop, and no message is handled until the loop ends.
- `Timer`: the pulse check, then the loop, or in descriptor mode
  `shm_on_no_shm_event` alone.
- `Run`, `Control`, `StepClockMsg`: `shm_on_run` (with the drain),
  `shm_on_control`, `shm_on_step_clock`.
- `Elapse` (time passes) and `TodChange` (the time-of-day module changes
  state) are the environment.

**Data abstraction.** Filter verdicts, the offset class (small or beyond the
500 ms threshold, and its sign where `STEP_FORWARD` reads it), the compare
result and the convergence verdict are free inputs. Elapsed time is counted
in units ordered like 1.1 s < 8 s < 60 s, and only while the code reads it.
`good` saturates at 3: the code only compares it with 3. The uint32 sequence
number is taken modulo `SeqMod`, with `SeqMod - 1` as `UINT32_MAX`.

**Properties.**
- `PeriodWithinEpoch`: no period is measured across a clock step.
- `BadSignalMeansFewGood`: BAD_SIGNAL is never up with the gate open.
- `SlaveTimesOut` (liveness): SLAVE without events is left.

There is no type invariant. `good` saturates at 3 only in the model, so a
type check on it would test the abstraction, not the code.
- `EngineViewCurrent` and `SynchronizedOnlyWhenClean`: checked by violation
  runs. A servo run on a raw time-of-day offset is reachable only with
  `CompareCanFail`; no run checks it (hazard at shm_module.c:1665).

### `ShmModule` (every instance, and the time-of-day state they share)

`shm_module_t` holds the list of instances, and it holds one
`time_of_day` block for all of them: the source, `next_poll_time` and
`status` (shm_module.c 80–91). `ShmModule` composes N instances of
`ShmInstance` (`SI == INSTANCE ShmInstance`). Each instance is a record
`insts[k]`, stepped by `ShmInstance`'s own operators: `OnShmEvent`,
`OnNoShmEvent`, `ConvergenceUpdate`, `Report`, `PulseCheck` and
`StepClock`. The module-level block is modelled once.

**State.**
- `insts`, `phase`.
- `timer` and `loop`: `timer` is the instance that `shm_on_timer` has
  reached (0 between handlers), and `loop` says it is inside the
  do_poll loop.
- `lag`: the time-of-day polls that are due. A time unit is at least one
  second, so it makes at least one poll due.
- `tod`: the shared status, with `found`, `state`, and `off`. `off` says
  whether the offset is zero, and lists the instances whose system-to-NIC
  offset was added to it since the fetch.
- Environment: `ntp` (the engine has a time-of-day module), `srcState`
  (that module's state), `fresh[k]` (the feed has published a sample of
  instance k's clock that its subscription has not read), and
  `pending[k]` (the driver has an unread event; a pulse comes once a
  second, so there is at most one).

**Actions.**
- `Visit(k)`: `shm_on_timer` reaches instance k: the pulse check, then the
  loop, or for a descriptor instance `shm_on_no_shm_event` alone.
- `LoopPoll(k)`: one iteration of the loop, which is `DoPoll`.
- `UserFd(k)`: `shm_on_user_fds`.
- `StepClockMsg(k)`: the step, plus `shm_servo_reset`, which zeroes the
  shared offset.
- `Run`.
- `DoPoll` composes three steps: `Handle` (the result of
  `sfptpd_clock_shm_get`), `TodPoll` (`shm_time_of_day_poll` against the
  shared block) and `SI!ConvergenceUpdate` plus `SI!Report`.
- `Elapse`, `FeedTick`, `TodChange` and `NtpAppears` are the environment.
  Time passes only between handlers.

**Fairness.**
- The timer handler runs to its end: `Visit` and `LoopPoll` are weakly
  fair.
- Time always advances: `Elapse`, which is enabled only between handlers,
  is strongly fair.
- The feed ticks.

**Run.** `shm_module_tod` finds `PolledInstanceSeesTimeOfDayLoss`
violated. The property says: an instance that `shm_on_timer` keeps
reaching, while the time-of-day module stays out of SLAVE, has
NO_TIME_OF_DAY raised again and again. The code polls the time of day
only when the shared `next_poll_time` has passed, then moves it on by one
second (line 1644). So the first instance polled after the due time uses
up the poll, and the next instance returns at 1641. In the trace, instance
1 takes every due poll. Instance 2 is visited on every tick and never
raises NO_TIME_OF_DAY. Spec §4.4 and scenario 6 say each instance polls
once a second.

**Bounds.** N = 2 timer-mode instances, `MaxLag = 1`, no steps, and no
error from the driver or from `get_status`: 74,280 states. A pass run of
the composition with one descriptor instance, one step and the
`get_status` failure took more than four minutes. That is too long for a
run, so `ShmModule` has only the violation run, and the shared offset is
covered by hazard notes.

### `ClockFeedCompare` (the two-leg compare)

`sfptpd_clockfeed_compare` is sequential, so it is an operator from its inputs to
its outputs. The module's one variable `in` ranges over every input of a bounded
domain, and the properties compare `Compare(in)` with a reference definition
taken from the spec.

**Inputs.** Each leg is absent (`sub1` or `sub2` NULL) or a subscription with
or without a `max_age_diff`. Its `clockfeed_compare_to_sys` does one of three
things:
- returns an error;
- returns 0 after a failed clock compare, having written only the zeroed diff
  (line 923);
- returns a good sample with a diff and a mono time.

Whether the caller passes `mono` is also an input. Storage the code reads
without writing it (the caller's `*mono`, the locals `mono1`/`mono2`) holds
a free value from `Junk`. The ring read inside a leg is ClockFeedRing's
subject.

**Code operators.**
- `ToSys`: one leg as seen by its caller.
- `MaxAgeDiff`: lines 991–998.
- `LegDiff`: line 1010.
- `MonoEarlier`: the test at 1011–1013, with its `tv_sec == tv_nsec` typo
  kept.
- `AgeDiffTooBig`: 1018–1032.
- `Compare`: the whole function, in the code's order. `*mono` is overwritten
  before the age test reads it.

**Properties.**
- `ResultMatchesLegs` (passes): error precedence, and `diff_A - diff_B` with
  zero for a leg without a sample.
- `StaleLegsRejected`: a violation run. The typo also keeps `*mono` from
  being the older of two times with equal seconds; no run checks that.

### `ClockFeedEvents` (SYNC_EVENT notification)

**State.**
- `table`: `event_subscribers[4]`.
- `pool`: free messages of the feed's local pool. `clockfeed_on_startup`
  creates it with `MAX_EVENT_SUBSCRIBERS` messages.
- `mailbox`: SYNC_EVENTs queued to each subscriber thread and not yet
  handled.
- `feed`: running, or exited.
- `blocked`: callers that wait forever for a reply.
- `lastReq`: a history variable, each thread's last answered request.

**Actions.**
- `SendSyncEvent`: the loop of `clockfeed_send_sync_event` at the end of a
  tick. Slots are visited in order, and each occupied one takes a message
  while the pool lasts. `Served(i)` says which slots are reached.
- `SubscribeEvents`: the first free slot, with no duplicate check. A full
  table exits the feed thread without a reply.
- `UnsubscribeEvents`: clears every slot of the thread, then replies.
- `HandleSyncEvent`: the subscriber frees a message back to the pool. The
  handlers live outside `src/`, so this one is modelled from the spec.

**Properties.**
- `NoEventAfterUnsubscribe` (action): one unsubscribe ends the events of a
  thread that had subscribed several times.
- `NoDropWithoutBacklog` (action): a tick with no backlog reaches every
  occupied slot. This is what sizing the pool to the table buys.

Starvation is not checked. Take a subscriber in an earlier slot that keeps a
backlog: it takes every freed message, so a later slot can wait forever. The
spec calls a dropped event soft but promises no fairness between
subscribers, so this is a hazard note (clockfeed.c:288), not a run.

A subscribe to a full table ends the feed thread (`feed` becomes exited) and
leaves the caller blocked. The spec's NO_SPACE says otherwise. No run checks
this, because lines 589–597 show it directly (hazard at clockfeed.c:597).

## Runs

| Run | Config | Expect | What it shows |
|---|---|---|---|
| ring_consistent | MCClockFeedRing.cfg | pass | A compare that races the writer never returns a torn diff, and the lock-free ring implements the atomic ring of `ClockFeedAtomic` (about 1.2M states). |
| ring_outputs_torn | MCClockFeedRing_outputs.cfg | violation | The reader loads t1, t2 and mono after the re-check, so they can come from a later sample (finding at clockfeed.c:952). |
| registry_safe | MCShmFeed.cfg | pass | The registry composed with the SHM module's lifecycle (about 4.1M states). Any order of add, remove, subscribe and unsubscribe keeps every subscribed source alive and reaps zombies at once, and shutdown frees every unsubscribed source. No two SHM instances take the same clock. A failed start (an instance, or the poll timer) or a shutdown gives back every SHM subscription except those whose unsubscribe found the pool empty (about 4.1M states). |
| registry_shutdown_uaf | MCClockFeedRegistry_uaf.cfg | violation | The shutdown loop reads `s->next` from a freed source (clockfeed.c:654). |
| shm_instance_safe | ShmInstance.cfg | pass | Timer mode, outlier filter, one step: no period spans a step, and BAD_SIGNAL is never up with the gate open (about 0.8M states). |
| shm_instance_timeout | ShmInstance_live.cfg | pass | Descriptor mode, STEP_AT_STARTUP: under weak fairness of the timer and of time, a SLAVE instance without events leaves SLAVE. |
| shm_engine_not_told | ShmInstance_engine.cfg | violation | A reset to LISTENING also resets `prev_state`, so `shm_do_poll` never reports it; the engine keeps SLAVE or FAULTY (shm_module.c:1333). |
| shm_synchronized_alarmed | ShmInstance_sync.cfg | violation | `synchronized` stays set while alarms are up (shm_module.c:1230; spec scenario 6). |
| compare_legs | ClockFeedCompare.cfg | pass | Over every bounded input, the rc is the first failing leg's and the diff is `diff_A - diff_B` (about 60k inputs). |
| compare_stale_accepted | ClockFeedCompare_stale.cfg | violation | `*mono = mono2` happens before the age test, which then compares mono2 with itself: two samples further apart than `max_age_diff` are accepted (clockfeed.c:1014). |
| clockfeed_events | ClockFeedEvents.cfg | pass | Two threads subscribing repeatedly, unsubscribing and handling events: no event after an unsubscribe, and no drop without a backlog. |
| shm_module_tod | ShmModule_tod.cfg | violation | The time-of-day poll is due once a second for the module, not for each instance. The first instance polled takes it, so a later one never raises NO_TIME_OF_DAY (shm_module.c:1644). |

Each property of a passing run has a mutant in `PROJECT.json`, and TLC finds
the property violated when the mutant replaces the code it names:
- a lap test that is one sample too lenient;
- a reap that ignores subscribers;
- an unsubscribe that does not reap;
- a shutdown walk that skips a node;
- a sequence successor without the uint32 wrap;
- no sample skipped after a step;
- a gate that opens without clearing BAD_SIGNAL;
- a good-period count not held at the gate;
- the 60 s timeout compared with `>`;
- a failed clock compare that returns its own rc;
- the legs subtracted the wrong way round;
- a fresh-sample test one sample too lenient;
- a SYNC_EVENT sent without checking the allocation;
- an unsubscribe that stops at the first slot;
- a pool one message smaller than the table.

## Bounds

**Ring.**
- `MAX_CLOCK_SAMPLES = 4` instead of 16. The lap test
  `writer2 >= writer1 + N - 1` is parametric in N, and N = 4 already lets the
  writer lap a slot during one read.
- `MaxWrites = 7`, which is more than one and a half laps.
- `MaxAge = 2` poll periods.
- One reader. Readers never write shared ring state, so a second reader adds
  interleavings only among the readers themselves.

**Registry.**
- Two clocks. The use-after-free run has three source records, so a clock
  can be added twice or re-added after removal. The composed run
  (`MCShmFeed`) has two source records, which is enough for a clock to be
  re-added once. With three, the composition grows to 48M states.
- Three subscriptions, so a source can have two subscribers while a third
  subscription goes elsewhere.
- `K = 2` SHM instances, so the second instance can find the first one's
  clock busy, and the destroy walk has an earlier instance to undo.

**Compare.** `NsPerSec = 2` and `MaxSec = 2`. The bounds give:
- times that differ in seconds, and times that differ only in nanoseconds, so
  the typo can bite both ways;
- limits of one and two units, so a pair can be at, below or above the limit.

**Events.** Two threads. A thread can take any number of the four slots,
so two threads reach a full table, duplicate subscriptions, and a later
slot behind an earlier one. The pool and the mailboxes are bounded by the
code's four messages.

**SHM instance.**
- `SeqMod = 3`: values 0, 1 and the sentinel 2, so the counter wraps through
  the sentinel and a gap of one lost event can land on it. No property reads
  the sequence alarm. The only case it misses is a gap whose next number
  is the sentinel, and a run for it would be a violation (hazard at
  shm_module.c:1492).
- `MaxSteps = 1` in the safety run: one step is enough for a stored
  timestamp to be older than the clock, by a servo step or a STEP_CLOCK
  message. `MaxSteps = 0` in the liveness and violation runs, to keep them
  small.
- Four time units cover every interval the code compares.

## Fairness and deadlock

`ShmInstance` assumes weak fairness of `Elapse` (the monotonic clock
advances), of `Timer` (the 250 ms poll timer of the SHM thread fires while
the thread is idle), of `Run` (the engine starts the module), and in timer
mode of `DoPoll` (once started, the on_timer loop runs on). Nothing makes the
driver deliver events or the engine send messages.

`ClockFeedEvents` assumes weak fairness of `SendSyncEvent`, because the
feed's poll timer fires while it runs. It also assumes weak fairness of
each thread's `HandleSyncEvent`, because a subscriber thread eventually
handles its mailbox. Subscribing and unsubscribing are not fair. The pass
run sets `CHECK_DEADLOCK FALSE`: after the feed thread has exited and the
mailboxes are drained, nothing more happens.

`ShmModule` assumes weak fairness of the timer handler's steps (`Run`,
`Visit`, `LoopPoll`) and of `FeedTick`. It assumes strong fairness of
`Elapse`: monotonic time always advances, but the model lets it pass only
between handlers, so it is enabled only intermittently. Weak fairness
would allow a behaviour in which a handler is always running whenever time
could pass.

The remaining modules check only safety.

The registry config (`MCShmFeed.cfg`) sets `CHECK_DEADLOCK FALSE`. After
`clockfeed_on_shutdown` has freed the module, and the SHM module is down,
failed or aborted, nothing more happens. Those are the only terminal states.
`ShmFeed` has no fairness, because it checks only safety.

The SHM runs check deadlock: the timer is always enabled once running.

## Plan (next modules, most important first)

1. **ClockFeedCompare** is done.
2. **ShmInstance** is done. **ShmModule** composes several instances over
   the shared time-of-day block, and has one violation run. A passing run
   of it on the shared offset needs a smaller state space.
3. **ClockFeedEvents** is done; the per-source sub-cadence remains.
4. **ShmTimeOfDay.** Composes ShmInstance with an INSTANCE of ClockFeedRing
   for `require_fresh` plus compare.
5. **ClockFeedAtomic** is done.
6. **ShmFeed** is done. It composes the SHM lifecycle with the registry.
7. Numeric checks: the 32-bit truncation of writer1 and writer2, and the
   timer-interval shift in `clockfeed_on_startup`. Each needs a counter
   model of fixed width and a TLC run of its own.

## Not modelled

- **Config parsing:** string handling only.
- **Servo floating point** (PID, FIR, notch): only the decisions it feeds
  (step or slew) is modelled.
- **External code:** the clock driver, the message library and statistics.
  They appear only as the nondeterministic results they return.
- **Weak memory ordering:** outside what TLC can express.
- **SHM handlers that change no modelled state:** get_status, log_stats,
  write_topology and stats_end_period only read or print. save_state only
  writes a file, and its condition is `synchronized`, which
  `SynchronizedOnlyWhenClean` covers. test_mode (bogus events) is a test
  hook. pid_adjust only retunes the PID coefficients. Creating instances,
  `configure_clock` and shutdown set up and release resources once, and
  `ShmFeed` models their control flow over the registry.
- **Timer interval in `clockfeed_on_startup`:** a 64-bit product, which
  TLC's 32-bit integers cannot hold. Nothing reads `running_phase`.
- **`on_servo_pid_adjust`:** it returns before `SFPTPD_MSG_FREE`, which
  leaks a message (hazard at shm_module.c:2296). The PID retuning is
  floating point.
