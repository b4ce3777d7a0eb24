------------------------------ MODULE ShmFeed ------------------------------
(***************************************************************************)
(* The SHM sync module as a client of the clock feed's tables: the         *)
(* instance lifecycle of src/src/shm/sfptpd_shm_module.c (start, the       *)
(* failure path of shm_on_startup, shm_on_shutdown) over the sources and   *)
(* subscriptions of ClockFeedRegistry, whose handlers other threads keep   *)
(* calling in between.                                                     *)
(*                                                                         *)
(* shm_on_startup starts the instances in list order.  shm_start_instance  *)
(* configures the instance's clock (shm_configure_clock): errors before    *)
(* the subscribe, EBUSY when an earlier instance already has the clock,    *)
(* then sfptpd_clockfeed_subscribe, whose rc is ignored.  Each subscribe   *)
(* is a blocking round trip to the feed thread, so every instance start    *)
(* is one step and other threads' table changes come between them.  A     *)
(* failed start runs shm_destroy_instances; so does shm_on_shutdown.  The  *)
(* walk unsubscribes one instance per step, for the same reason.           *)
(*                                                                         *)
(* After the loop shm_on_startup creates the poll timer and initialises   *)
(* the time of day; a failure there also destroys every instance.         *)
(* sfptpd_clockfeed_unsubscribe needs a message of the global pool and     *)
(* returns silently without one, leaving the subscription linked.          *)
(*                                                                         *)
(* The configuration maps each instance to the clock of its interface      *)
(* (any clock, so two instances may name the same one).  Errors of the     *)
(* filter kit, stats and driver calls are free choices.                    *)
(***************************************************************************)
EXTENDS ClockFeedRegistry

CONSTANT K   \* SHM instance sections in the configuration

ASSUME K \in Nat \ {0}

ShmInsts == 1 .. K

VARIABLES
  shm,       \* "startup", "timers", "running", "failing", "stopping", then
             \* "failed", "down", or "aborted" (an assert fired)
  next,      \* the instance the start loop or the destroy walk is at
  clockCfg,  \* the clock of each instance's configured interface
  clockOf,   \* instance->clock
  feedOf,    \* instance->feed
  shmSubs,   \* history: every subscription the SHM module was given
  leaked     \* history: subscriptions whose unsubscribe found no message

shmVars == <<shm, next, clockCfg, clockOf, feedOf, shmSubs, leaked>>
allVars == <<vars, shmVars>>

-----------------------------------------------------------------------------
(* The code.                                                               *)

\* Mutant: the clock is never found in use.
InUseNever(c) == FALSE

\* shm_find_instance_by_clock: some instance already has clock c.
InUse(c) == \E j \in ShmInsts : clockOf[j] = c

\* The last instance of the start loop or the destroy walk moves the
\* module on to its next phase.
Advance(ph) ==
  /\ next' = next + 1
  /\ shm' = IF next = K THEN ph ELSE shm

\* A start that returns 0: on to the next instance, or to the poll timer.
Started == Advance("timers")

\* shm_start_instance fails before the subscribe: shm_stats_init, or one of
\* the early returns of shm_configure_clock (no interface, ENODEV, EPERM, a
\* failed frequency adjustment, EIO from shm_enable).  shm_on_startup goes
\* to fail: and destroys every instance.
ShmStartFails ==
  /\ shm = "startup"
  /\ shm' = "failing" /\ next' = 1
  /\ UNCHANGED <<clockCfg, clockOf, feedOf, shmSubs, leaked>>

\* shm_configure_clock: the clock is in use by another instance (EBUSY).
ShmClockBusy ==
  /\ shm = "startup" /\ InUse(clockCfg[next])
  /\ shm' = "failing" /\ next' = 1
  /\ UNCHANGED <<clockCfg, clockOf, feedOf, shmSubs, leaked>>

\* shm_start_instance: sfptpd_peirce_filter_create returns NULL and the
\* code jumps to fail: with rc still 0, so the instance counts as started
\* with neither a clock nor a feed.
ShmOutlierFails ==
  /\ shm = "startup"
  /\ Started
  /\ UNCHANGED <<clockCfg, clockOf, feedOf, shmSubs, leaked>>

\* The subscribe of shm_configure_clock, with sfptpd_clockfeed_subscribe:
\* the global pool has no message (ENOMEM, ignored by the caller): the
\* instance keeps its clock and a NULL feed.
ShmSubscribeNoMem ==
  /\ shm = "startup" /\ ~InUse(clockCfg[next])
  /\ clockOf' = [clockOf EXCEPT ![next] = clockCfg[next]]
  /\ Started
  /\ UNCHANGED <<clockCfg, feedOf, shmSubs, leaked>>

\* The feed thread has no source of the clock: clockfeed_on_subscribe
\* replies rc 0 with sub NULL, and sfptpd_clockfeed_subscribe asserts.
ShmSubscribeUnknown ==
  /\ shm = "startup" /\ ~InUse(clockCfg[next])
  /\ phase = "running" /\ Lookup(clockCfg[next]) = NULL
  /\ shm' = "aborted"
  /\ UNCHANGED <<next, clockCfg, clockOf, feedOf, shmSubs, leaked>>

\* The subscribe succeeds: clockfeed_on_subscribe links subscription u into
\* the clock's source, and shm_configure_clock stores the clock.
ShmSubscribe ==
  /\ shm = "startup" /\ ~InUse(clockCfg[next])
  /\ Lookup(clockCfg[next]) # NULL
  /\ \E u \in SubIds :
       /\ Subscribe(clockCfg[next], u)
       /\ feedOf' = [feedOf EXCEPT ![next] = u]
       /\ shmSubs' = shmSubs \cup {u}
  /\ clockOf' = [clockOf EXCEPT ![next] = clockCfg[next]]
  /\ Started
  /\ UNCHANGED <<clockCfg, leaked>>

\* shm_on_startup after the loop: the poll timer is created and the time
\* of day initialised (rc 0 or ENOENT).
ShmTimersStarted ==
  /\ shm = "timers"
  /\ shm' = "running"
  /\ UNCHANGED <<next, clockCfg, clockOf, feedOf, shmSubs, leaked>>

\* sfptpd_thread_timer_create or shm_time_of_day_init fails: goto fail,
\* which destroys every instance, all of them started.
ShmTimerFails ==
  /\ shm = "timers"
  /\ shm' = "failing" /\ next' = 1
  /\ UNCHANGED <<clockCfg, clockOf, feedOf, shmSubs, leaked>>

\* shm_on_shutdown: drop the PID_ADJUST multicast, destroy the instances.
ShmShutdown ==
  /\ shm = "running"
  /\ shm' = "stopping" /\ next' = 1
  /\ UNCHANGED <<clockCfg, clockOf, feedOf, shmSubs, leaked>>

\* Mutant: the feed is never released.
UnsubscribesNever(k) == FALSE

\* shm_destroy_instance: only an instance with a feed unsubscribes.
Unsubscribes(k) == feedOf[k] # NULL

\* One iteration of shm_destroy_instances: shm_destroy_instance clears
\* the feed and the clock, and frees the instance.
Destroyed ==
  /\ feedOf' = [feedOf EXCEPT ![next] = NULL]
  /\ clockOf' = [clockOf EXCEPT ![next] = NULL]
  /\ Advance(IF shm = "failing" THEN "failed" ELSE "down")
  /\ UNCHANGED <<clockCfg, shmSubs>>

\* The unsubscribe gets its message: a blocking round trip, which reaps a
\* removed clock's source.
ShmDestroy ==
  /\ shm \in {"failing", "stopping"}
  /\ IF Unsubscribes(next) THEN Unsubscribe(feedOf[next]) ELSE UNCHANGED vars
  /\ Destroyed
  /\ UNCHANGED leaked

\* The global pool has no message: sfptpd_clockfeed_unsubscribe returns
\* without a word, the subscription stays linked, and the caller forgets it.
ShmDestroyNoMem ==
  /\ shm \in {"failing", "stopping"} /\ Unsubscribes(next)
  /\ leaked' = leaked \cup {feedOf[next]}
  /\ Destroyed

-----------------------------------------------------------------------------

\* shm_create_instances: one calloc'ed instance per configuration section,
\* with no clock and no feed; the clock feed has just been created.
ShmInit ==
  /\ Init
  /\ shm = "startup" /\ next = 1
  /\ clockCfg \in [ShmInsts -> Clocks]
  /\ clockOf = [k \in ShmInsts |-> NULL]
  /\ feedOf = [k \in ShmInsts |-> NULL]
  /\ shmSubs = {}
  /\ leaked = {}

\* Other threads add and remove clocks, subscribe and unsubscribe.
ShmNext ==
  \/ Next /\ UNCHANGED shmVars
  \/ /\ \/ ShmStartFails \/ ShmClockBusy \/ ShmOutlierFails
        \/ ShmSubscribeNoMem \/ ShmSubscribeUnknown \/ ShmTimersStarted
        \/ ShmTimerFails \/ ShmShutdown \/ ShmDestroyNoMem
     /\ UNCHANGED vars
  \/ ShmSubscribe \/ ShmDestroy

ShmSpec == ShmInit /\ [][ShmNext]_allVars

-----------------------------------------------------------------------------
(* Properties.                                                             *)

\* shm_find_instance_by_clock's EBUSY: however the start loop interleaves
\* with other threads, no two configured SHM instances discipline the same
\* clock.
ShmClocksDistinct ==
  \A j, k \in ShmInsts : j # k /\ clockOf[j] # NULL => clockOf[j] # clockOf[k]

\* shm_destroy_instances, on the failure paths of shm_on_startup (an
\* instance, or the poll timer after all of them) and in shm_on_shutdown,
\* gives back the subscriptions the module was given, while other threads
\* subscribe, unsubscribe and remove clocks: once it has finished, the only
\* ones still linked into a source are those whose unsubscribe found the
\* global pool empty, which sfptpd_clockfeed_unsubscribe drops in silence.
ShmLeavesNoSubscription ==
  shm \in {"failed", "down"} => shmSubs \cap LiveSubs \subseteq leaked

=============================================================================
