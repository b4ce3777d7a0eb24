------------------------- MODULE ClockFeedRegistry -------------------------
(***************************************************************************)
(* The source and subscription tables of the clock feed                    *)
(* (src/src/sfptpd_clockfeed.c): the active and inactive source lists,     *)
(* each source's subscriber list, the deferred reclamation of removed      *)
(* sources (clockfeed_reap_zombies) and the teardown in                    *)
(* clockfeed_on_shutdown.                                                  *)
(*                                                                         *)
(* Every table change is made by a message handler on the clock-feed       *)
(* thread, and every caller blocks in SFPTPD_MSG_SEND_WAIT until the       *)
(* handler replies, so each handler is one atomic step.  The shutdown      *)
(* handler walks the inactive list one source per step, because the walk   *)
(* itself is where it goes wrong.                                          *)
(*                                                                         *)
(* Sources and subscriptions are allocated from bounded pools of ids; an   *)
(* id that has been freed is never handed out again, so a dangling         *)
(* reference stays visible.  Sampling (clockfeed_on_timer) is the subject  *)
(* of ClockFeedRing and does not change these tables.                      *)
(***************************************************************************)
EXTENDS Integers, Sequences, SequencesExt, FiniteSets

CONSTANTS
  Clocks,   \* struct sfptpd_clock handles that can be registered
  SrcIds,   \* memory for struct clockfeed_source
  SubIds,   \* memory for struct sfptpd_clockfeed_sub
  NULL

ASSUME NULL \notin Clocks \cup SrcIds \cup SubIds

VARIABLES
  active,     \* module->active, as the sequence of its nodes
  inactive,   \* module->inactive (the zombie list)
  srcClock,   \* source->clock of every source ever allocated
  freed,      \* sources that have been free()d
  subSrc,     \* sub->source of every subscription ever allocated
  subFreed,   \* subscriptions that have been free()d
  phase,      \* "running", "reaping" (inside on_shutdown), "down"
  cursor,     \* s of the reap loop of clockfeed_on_shutdown
  freedRead,  \* the reap loop has loaded a field of a freed source
  reply       \* the subscribe response the last caller received

vars == <<active, inactive, srcClock, freed, subSrc, subFreed, phase,
          cursor, freedRead, reply>>

Allocated == DOMAIN srcClock
Listed == Range(active) \cup Range(inactive)
LiveSubs == DOMAIN subSrc \ subFreed

\* source->subscribers, the subscriptions linked into the source's list.
Subscribers(s) == {u \in LiveSubs : subSrc[u] = s}

\* The first node of list l for clock c, or NULL (the search loops of
\* clockfeed_on_remove_clock and clockfeed_on_subscribe).
FindIn(l, c) ==
  IF \E i \in DOMAIN l : srcClock[l[i]] = c
  THEN l[SelectInSeq(l, LAMBDA x : srcClock[x] = c)]
  ELSE NULL

\* The source clockfeed_on_subscribe links a subscription into: the first
\* of the clock on the active list, else on the inactive list, else NULL.
Lookup(c) == IF FindIn(active, c) # NULL THEN FindIn(active, c) ELSE FindIn(inactive, c)

\* Mutant: step two nodes at a time.
NextOfSkipping(l, s) ==
  LET i == SelectInSeq(l, LAMBDA x : x = s) IN
  IF i + 1 < Len(l) THEN l[i + 2] ELSE NULL

\* s->next: the node after s in list l, or NULL.
NextOf(l, s) ==
  LET i == SelectInSeq(l, LAMBDA x : x = s) IN
  IF i < Len(l) THEN l[i + 1] ELSE NULL

\* Mutant: reclaim an inactive source without looking at its subscribers.
ReapIgnoringSubscribers(s, subsOf) == s \in Range(inactive)

\* The condition of clockfeed_reap_zombies.
Reapable(s, subsOf) == s \in Range(inactive) /\ subsOf = {}

\* clockfeed_reap_zombies(module, s), given the subscriber set it will see:
\* unlink s from the inactive list and free it.
Reap(s, subsOf) ==
  IF Reapable(s, subsOf)
  THEN /\ inactive' = Remove(inactive, s)
       /\ freed' = freed \cup {s}
  ELSE UNCHANGED <<inactive, freed>>

-----------------------------------------------------------------------------
(* Message handlers of the clock-feed thread.                              *)

\* clockfeed_on_add_clock: calloc a source and push it on the active list.
\* No check is made that the clock is already registered.
AddClock(c, s) ==
  /\ phase = "running"
  /\ s \notin Allocated
  /\ srcClock' = srcClock @@ (s :> c)
  /\ active' = <<s>> \o active
  /\ UNCHANGED <<inactive, freed, subSrc, subFreed, phase, cursor, freedRead, reply>>

\* clockfeed_on_remove_clock: unlink the first active source of the clock,
\* push it on the inactive list and reap it at once if nobody subscribes to
\* it; an unknown or already removed clock is only logged.
RemoveClock(c) ==
  LET s == FindIn(active, c) IN
  /\ phase = "running"
  /\ \/ /\ s = NULL
        /\ UNCHANGED <<active, inactive, freed>>
     \/ /\ s # NULL
        /\ active' = Remove(active, s)
        /\ IF Subscribers(s) = {}
           THEN /\ inactive' = inactive
                /\ freed' = freed \cup {s}
           ELSE /\ inactive' = <<s>> \o inactive
                /\ freed' = freed
  /\ UNCHANGED <<srcClock, subSrc, subFreed, phase, cursor, freedRead, reply>>

\* Mutant: link the subscription without checking that a source was found.
SubscribeUnchecked(c, u) ==
  LET s == Lookup(c) IN
  /\ phase = "running"
  /\ u \notin DOMAIN subSrc
  /\ subSrc' = subSrc @@ (u :> s)
  /\ reply' = [clock |-> c, sub |-> u, rc |-> 0]
  /\ UNCHANGED <<active, inactive, srcClock, freed, subFreed, phase, cursor, freedRead>>

\* clockfeed_on_subscribe: look for the clock on the active list, then on
\* the inactive list; link a new subscription (read_counter = min_counter
\* = -1) into the source found, or reply with sub = NULL.  Together with
\* the caller, sfptpd_clockfeed_subscribe: the message round trip succeeds
\* either way, so the caller sees rc = 0 (and asserts that sub is set).
Subscribe(c, u) ==
  LET s == Lookup(c) IN
  /\ phase = "running"
  /\ u \notin DOMAIN subSrc
  /\ IF s = NULL
     THEN /\ reply' = [clock |-> c, sub |-> NULL, rc |-> 0]
          /\ UNCHANGED subSrc
     ELSE /\ subSrc' = subSrc @@ (u :> s)
          /\ reply' = [clock |-> c, sub |-> u, rc |-> 0]
  /\ UNCHANGED <<active, inactive, srcClock, freed, subFreed, phase, cursor, freedRead>>

\* Mutant: free the subscription without trying to reap its source.
UnsubscribeNoReap(u) ==
  /\ phase = "running"
  /\ u \in LiveSubs
  /\ subFreed' = subFreed \cup {u}
  /\ UNCHANGED <<inactive, freed>>
  /\ UNCHANGED <<active, srcClock, subSrc, phase, cursor, freedRead, reply>>

\* clockfeed_on_unsubscribe: unlink the subscription, reap its source if
\* that was the last subscription of a removed clock, free the subscription.
Unsubscribe(u) ==
  /\ phase = "running"
  /\ u \in LiveSubs
  /\ subFreed' = subFreed \cup {u}
  /\ Reap(subSrc[u], Subscribers(subSrc[u]) \ {u})
  /\ UNCHANGED <<active, srcClock, subSrc, phase, cursor, freedRead, reply>>

\* clockfeed_on_shutdown, first part: mark every active source inactive and
\* splice the whole active list onto the front of the inactive list.
ShutdownBegin ==
  LET zombies == active \o inactive IN
  /\ phase = "running"
  /\ active' = <<>>
  /\ inactive' = zombies
  /\ cursor' = IF zombies = <<>> THEN NULL ELSE Head(zombies)
  /\ phase' = IF zombies = <<>> THEN "down" ELSE "reaping"
  /\ UNCHANGED <<srcClock, freed, subSrc, subFreed, freedRead, reply>>

\* One iteration of for (s = module->inactive; s; s = s->next)
\* clockfeed_reap_zombies(module, s): the reap may free s, and s->next is
\* loaded from s afterwards.  When the walk ends the module is freed.
ShutdownReap ==
  LET s == cursor
      nxt == NextOf(inactive, s) IN
  /\ phase = "reaping"
  /\ Reap(s, Subscribers(s))
  /\ freedRead' = (freedRead \/ Reapable(s, Subscribers(s)))
  /\ cursor' = nxt
  /\ phase' = IF nxt = NULL THEN "down" ELSE "reaping"
  /\ UNCHANGED <<active, srcClock, subSrc, subFreed, reply>>

-----------------------------------------------------------------------------

Init ==
  /\ active = <<>>
  /\ inactive = <<>>
  /\ srcClock = <<>>
  /\ freed = {}
  /\ subSrc = <<>>
  /\ subFreed = {}
  /\ phase = "running"
  /\ cursor = NULL
  /\ freedRead = FALSE
  /\ reply = [clock |-> NULL, sub |-> NULL, rc |-> 0]

Next ==
  \/ \E c \in Clocks, s \in SrcIds : AddClock(c, s)
  \/ \E c \in Clocks : RemoveClock(c)
  \/ \E c \in Clocks, u \in SubIds : Subscribe(c, u)
  \/ \E u \in SubIds : Unsubscribe(u)
  \/ ShutdownBegin
  \/ ShutdownReap

Spec == Init /\ [][Next]_vars

-----------------------------------------------------------------------------
(* Properties.                                                             *)

TypeOK ==
  /\ active \in Seq(SrcIds) /\ inactive \in Seq(SrcIds)
  /\ DOMAIN srcClock \subseteq SrcIds /\ Range(srcClock) \subseteq Clocks
  /\ freed \subseteq Allocated
  /\ DOMAIN subSrc \subseteq SubIds /\ Range(subSrc) \subseteq SrcIds
  /\ subFreed \subseteq DOMAIN subSrc
  /\ phase \in {"running", "reaping", "down"}
  /\ cursor \in SrcIds \cup {NULL}
  /\ freedRead \in BOOLEAN
  /\ reply \in [clock : Clocks \cup {NULL}, sub : SubIds \cup {NULL}, rc : {0}]

\* Resource discipline (spec invariant 4): clockfeed_reap_zombies and
\* clockfeed_on_remove_clock never free a source that a live subscription
\* still points to, whatever order removals and unsubscriptions come in,
\* and every source is on exactly one list until it is freed.
NoDanglingSubscription ==
  /\ \A u \in LiveSubs : subSrc[u] \notin freed
  /\ \A s \in Allocated : (s \in Listed) = (s \notin freed)
  /\ Range(active) \cap Range(inactive) = {}

\* Deferred reclamation (spec invariant 3): between handlers, every source
\* on the inactive list still has a subscriber; the unsubscribe that drops
\* the last subscription of a removed clock frees the source before it
\* replies.
ZombiesReaped ==
  phase = "running" => \A s \in Range(inactive) : Subscribers(s) # {}

\* Once clockfeed_on_shutdown has finished, the only sources left are
\* zombies that still have subscribers (the "subscribers remaining on
\* shutdown" warning), and every other source was freed.
ShutdownLeavesOnlySubscribed ==
  phase = "down" =>
    /\ active = <<>>
    /\ \A s \in Range(inactive) : Subscribers(s) # {}
    /\ \A s \in Allocated \ Range(inactive) : s \in freed

\* The reap loop of clockfeed_on_shutdown never reads s->next from a
\* source that clockfeed_reap_zombies has just freed.
NoUseAfterFree == ~freedRead

=============================================================================
