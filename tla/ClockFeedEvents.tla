-------------------------- MODULE ClockFeedEvents --------------------------
(***************************************************************************)
(* The clock feed's SYNC_EVENT notification (src/src/sfptpd_clockfeed.c):  *)
(* the event_subscribers table of MAX_EVENT_SUBSCRIBERS slots, the         *)
(* subscribe_events and unsubscribe_events handlers of the feed thread,    *)
(* and clockfeed_send_sync_event at the end of each poll tick, which takes *)
(* one message per occupied slot from the feed's local pool and drops the  *)
(* event for a slot when the pool is dry.                                  *)
(*                                                                         *)
(* The subscriber threads are the environment: each calls the blocking     *)
(* subscribe or unsubscribe API (SFPTPD_MSG_SEND_WAIT), and handles the    *)
(* SYNC_EVENTs in its mailbox one at a time, freeing each back to the      *)
(* feed's pool.  The sample writes of the same tick are ClockFeedRing's.   *)
(***************************************************************************)
EXTENDS Naturals, FiniteSets

CONSTANTS
  Threads,   \* subscriber threads (model values)
  NULL       \* an empty table slot

MAX_EVENT_SUBSCRIBERS == 4
Slots == 0 .. MAX_EVENT_SUBSCRIBERS - 1

\* Mutant: a local pool one message smaller than the table.
PoolSizeShort == MAX_EVENT_SUBSCRIBERS - 1

\* clockfeed_on_startup: the local pool holds MAX_EVENT_SUBSCRIBERS messages.
POOL_SIZE == MAX_EVENT_SUBSCRIBERS

VARIABLES
  table,     \* event_subscribers[]
  pool,      \* free messages in the feed's local pool
  mailbox,   \* SYNC_EVENTs queued to each thread, not yet handled
  feed,      \* "running", or "exited" after sfptpd_thread_exit
  blocked,   \* threads waiting forever for a reply
  lastReq    \* history: each thread's last answered request

vars == <<table, pool, mailbox, feed, blocked, lastReq>>

Occupied == {i \in Slots : table[i] # NULL}
Subscribed(t) == \E i \in Slots : table[i] = t
SlotsOf(t, S) == {i \in S : table[i] = t}

-----------------------------------------------------------------------------
(* The code.                                                               *)

\* Mutant: the message sent without checking that the allocation succeeded.
SendIgnoringAlloc(i) == table[i] # NULL

\* The loop of clockfeed_send_sync_event: slots are visited in order and
\* each occupied one allocates a message, so slot i is sent one exactly
\* when fewer occupied slots before it than free messages.
Served(i) ==
  /\ table[i] # NULL
  /\ Cardinality({j \in Occupied : j < i}) < pool

\* The end of clockfeed_on_timer: one SYNC_EVENT per served slot.
SendSyncEvent ==
  LET served == {i \in Slots : Served(i)} IN
  /\ feed = "running"
  /\ pool' = pool - Cardinality(served)
  /\ mailbox' = [t \in Threads |-> mailbox[t] + Cardinality(SlotsOf(t, served))]
  /\ UNCHANGED <<table, feed, blocked, lastReq>>

\* clockfeed_on_subscribe_events: the first free slot, with no check that
\* the thread is already subscribed; a full table ends the feed thread
\* without a reply.
SubscribeEvents(t) ==
  LET free == {i \in Slots : table[i] = NULL} IN
  /\ feed = "running"
  /\ t \notin blocked
  /\ IF free # {}
       THEN /\ table' = [table EXCEPT ![CHOOSE i \in free : \A j \in free : i <= j] = t]
            /\ lastReq' = [lastReq EXCEPT ![t] = "sub"]
            /\ UNCHANGED <<feed, blocked>>
       ELSE /\ feed' = "exited"
            /\ blocked' = blocked \cup {t}
            /\ UNCHANGED <<table, lastReq>>
  /\ UNCHANGED <<pool, mailbox>>

\* Mutant: the loop stops at the first matching slot.
UnsubscribeFirstOnly(t) ==
  LET mine == {i \in Slots : table[i] = t} IN
  IF mine = {} THEN table
  ELSE [table EXCEPT ![CHOOSE i \in mine : \A j \in mine : i <= j] = NULL]

\* The loop of clockfeed_on_unsubscribe_events: every slot of the thread.
ClearSlots(t) == [i \in Slots |-> IF table[i] = t THEN NULL ELSE table[i]]

\* clockfeed_on_unsubscribe_events: clear, then always reply.
UnsubscribeEvents(t) ==
  /\ feed = "running"
  /\ t \notin blocked
  /\ table' = ClearSlots(t)
  /\ lastReq' = [lastReq EXCEPT ![t] = "unsub"]
  /\ UNCHANGED <<pool, mailbox, feed, blocked>>

\* A subscriber thread handles one SYNC_EVENT and frees it to the pool.
HandleSyncEvent(t) ==
  /\ mailbox[t] > 0
  /\ mailbox' = [mailbox EXCEPT ![t] = @ - 1]
  /\ pool' = pool + 1
  /\ UNCHANGED <<table, feed, blocked, lastReq>>

Init ==
  /\ table = [i \in Slots |-> NULL]
  /\ pool = POOL_SIZE
  /\ mailbox = [t \in Threads |-> 0]
  /\ feed = "running"
  /\ blocked = {}
  /\ lastReq = [t \in Threads |-> "none"]

Next ==
  \/ SendSyncEvent
  \/ \E t \in Threads : SubscribeEvents(t) \/ UnsubscribeEvents(t) \/ HandleSyncEvent(t)

\* The poll timer fires while the feed runs; a subscriber thread handles
\* its mailbox eventually.  Nothing makes a thread subscribe or unsubscribe.
Fairness == WF_vars(SendSyncEvent) /\ \A t \in Threads : WF_vars(HandleSyncEvent(t))

Spec == Init /\ [][Next]_vars /\ Fairness

-----------------------------------------------------------------------------
(* Properties.                                                             *)

TypeOK ==
  /\ table \in [Slots -> Threads \cup {NULL}]
  /\ pool \in 0 .. POOL_SIZE
  /\ mailbox \in [Threads -> 0 .. POOL_SIZE]
  /\ feed \in {"running", "exited"}
  /\ blocked \subseteq Threads
  /\ lastReq \in [Threads -> {"none", "sub", "unsub"}]

\* Unsubscribe ends the notifications: a thread whose last answered
\* request was unsubscribe_events is sent no further SYNC_EVENT, also when
\* it had subscribed more than once before.
NoEventAfterUnsubscribe ==
  [][\A t \in Threads : lastReq[t] = "unsub" => mailbox'[t] <= mailbox[t]]_vars

\* Events are dropped only under back-pressure (spec: best effort when the
\* pool is empty): a tick at which every earlier event has been handled
\* reaches every occupied slot.
NoDropWithoutBacklog ==
  [][(SendSyncEvent /\ \A u \in Threads : mailbox[u] = 0) =>
       \A t \in Threads : mailbox'[t] = Cardinality(SlotsOf(t, Occupied))]_vars

=============================================================================
