------------------------------- MODULE GcipPm -------------------------------
(***************************************************************************)
(* The GCIP power manager: drivers/gcip/gcip-pm.c.                         *)
(*                                                                         *)
(* Threads take and drop references to the powered block.  pm->lock is     *)
(* held while the IP driver's power_up or power_down callback runs, so a   *)
(* call that needs a callback is two steps: the one that takes the lock    *)
(* and enters the callback, and the one in which the callback returns.     *)
(* Everybody else may run in between: the delayed power_down_work, the     *)
(* put_async_work, readers of count that do not take the lock, a flush.    *)
(*                                                                         *)
(* A member of Holder is one get/put pair of some caller; it drops with    *)
(* the flags it took.                                                      *)
(***************************************************************************)
EXTENDS Integers, FiniteSets

CONSTANTS
    Holder,     \* callers, each with at most one reference at a time
    MaxRetry    \* gcip_pm_flush_delayed_power_down_work(pm, retry): retry <= MaxRetry

\* The other owners pm->lock may have.
Owners == {"free", "dwork", "pwork", "shutdown"}

ASSUME HolderAssumption == IsFiniteSet(Holder) /\ Holder \cap Owners = {}
ASSUME RetryAssumption == MaxRetry \in Nat

VARIABLES
    lock,                \* pm->lock: "free" or its owner
    count,               \* pm->count
    suspendable_count,   \* pm->suspendable_count
    power_down_pending,  \* pm->power_down_pending
    put_async_count,     \* pm->put_async_count
    queued,              \* the work items that are queued
    dwork,               \* where the worker of pm->power_down_work is
    pwork,               \* where the worker of pm->put_async_work is
    block,               \* the power state of the block behind the callbacks
    st,                  \* what each holder is doing
    scheduling,          \* holders between the two statements of gcip_pm_put_async
    flush_pc,            \* gcip_pm_flush_delayed_power_down_work in progress,
    flush_waits,         \* the runs of power_down_work it waits for
    flush_retry,         \* and its argument
    destroyer,           \* gcip_pm_destroy in progress
    \* history: the manager gave up on powering the block down
    left_on,
    \* history: gcip_pm_shutdown was forced
    forced

counters == <<count, suspendable_count, put_async_count>>
history == <<left_on, forced>>
works == <<queued, dwork, pwork>>
flusher == <<flush_pc, flush_waits, flush_retry>>
threads == <<st, scheduling, flusher, destroyer>>
vars == <<lock, count, suspendable_count, power_down_pending, put_async_count,
          queued, dwork, pwork, block, st, scheduling, flush_pc, flush_waits, flush_retry,
          destroyer, left_on, forced>>

Flags == {"plain", "susp"}      \* 0 and GCIP_PM_SUSPENDABLE

\* "peek": get_if_powered has read a non-zero count, without the lock.
\* "up_*": in power_up with the lock held.  "down_*": in the power_down of its put.
\* "async": gcip_pm_put_async was called, the worker has not dropped it yet.
HolderStates == {"none", "peek", "up_plain", "up_susp", "plain", "susp",
                 "down_plain", "down_susp", "async"}

TypeOK ==
    /\ lock \in Owners \cup Holder
    /\ count \in Nat /\ suspendable_count \in Int /\ put_async_count \in Nat
    /\ power_down_pending \in BOOLEAN
    /\ queued \in SUBSET {"dwork", "pwork"}
    /\ dwork \in {"idle", "start", "power_down"}
    /\ pwork \in {"idle", "loop", "put", "power_down"}
    /\ block \in {"on", "off"}
    /\ st \in [Holder -> HolderStates]
    /\ scheduling \in SUBSET Holder
    /\ flush_pc \in {"idle", "sleep", "wait", "check"}
    /\ flush_waits \in 0..2 /\ flush_retry \in 0..MaxRetry
    /\ destroyer \in {"alive", "flush_put", "clear", "cancel", "freed"}
    /\ left_on \in BOOLEAN /\ forced \in BOOLEAN

(* gcip_pm_create.  The block is on at that time: the after_create callback
   of the driver powers it up to probe it. *)
gcip_pm_create ==
    /\ lock = "free"
    /\ count = 0 /\ suspendable_count = 0 /\ put_async_count = 0
    /\ power_down_pending = FALSE
    /\ queued = {} /\ dwork = "idle" /\ pwork = "idle"
    /\ block = "on" /\ left_on = TRUE
    /\ st = [h \in Holder |-> "none"]
    /\ scheduling = {}
    /\ flush_pc = "idle" /\ flush_waits = 0 /\ flush_retry = 0
    /\ destroyer = "alive"
    /\ forced = FALSE

-----------------------------------------------------------------------------
(* The power_up and power_down callbacks. *)

\* power_up may be refused; it then leaves the block off, or on when its own
\* clean-up power down did not go through.
power_up_ok == block' = "on" /\ UNCHANGED left_on
power_up_refused == block' \in {"on", "off"} /\ left_on' = (block' = "on")

PowerDownResults == {"ok", "eagain", "error"}

\* power_down of a block that is off already succeeds.
PowerDownResult(r) ==
    /\ block = "off" => r = "ok"
    /\ block' = IF r = "ok" THEN "off" ELSE block

\* Only -EAGAIN asks for a retry.  (Mutant: it is an error like any other.)
pending_after_never(r) == FALSE
pending_after(r) == r = "eagain"

\* schedule_delayed_work does nothing when the work is queued already.
\* (Mutant: a running work is not armed again.)
armed_after_once(r) == IF r = "eagain" /\ dwork = "idle" THEN queued \cup {"dwork"} ELSE queued
armed_after(r) == IF r = "eagain" THEN queued \cup {"dwork"} ELSE queued

(* The part of gcip_pm_try_power_down after the callback returned r, and the
   unlock that follows it in every caller. *)
gcip_pm_try_power_down(r) ==
    /\ PowerDownResult(r)
    /\ power_down_pending' = pending_after(r)
    /\ queued' = armed_after(r)
    /\ left_on' = (r = "error")
    /\ lock' = "free"

-----------------------------------------------------------------------------
(* gcip_pm_get, gcip_pm_get_flags, gcip_pm_get_if_powered *)

\* WARN_ON(suspendable_count > count) and its correction.
clamp(s, c) == IF s > c THEN c ELSE s

take_reference(h, f) ==
    /\ count' = count + 1
    /\ suspendable_count' = IF f = "susp" THEN clamp(suspendable_count + 1, count + 1)
                                          ELSE suspendable_count
    /\ st' = [st EXCEPT ![h] = f]

\* A reference is taken at once when the block is known to be on: it has
\* users, or its power down is pending and is cancelled here.
gcip_pm_get_locked(h, f) ==
    IF count > 0 \/ power_down_pending
    THEN /\ take_reference(h, f)
         /\ power_down_pending' = (power_down_pending /\ count > 0)
         /\ lock' = lock
    ELSE /\ lock' = h
         /\ st' = [st EXCEPT ![h] = IF f = "susp" THEN "up_susp" ELSE "up_plain"]
         /\ UNCHANGED <<count, suspendable_count, power_down_pending>>

may_call(h) == destroyer = "alive" /\ h \notin scheduling

gcip_pm_get_flags(h, f) ==
    /\ may_call(h) /\ st[h] = "none" /\ lock = "free"
    /\ gcip_pm_get_locked(h, f)
    /\ UNCHANGED <<put_async_count, works, block, scheduling, flusher, destroyer, history>>

power_up_returns(h) ==
    /\ lock = h /\ st[h] \in {"up_plain", "up_susp"}
    /\ lock' = "free"
    /\ \/ power_up_ok /\ take_reference(h, IF st[h] = "up_susp" THEN "susp" ELSE "plain")
       \/ /\ power_up_refused
          /\ st' = [st EXCEPT ![h] = "none"]
          /\ UNCHANGED <<count, suspendable_count>>
    /\ UNCHANGED <<power_down_pending, put_async_count, works, scheduling, flusher,
                   destroyer, forced>>

\* The check of count without the lock.
get_if_powered_peek(h) ==
    /\ may_call(h) /\ st[h] = "none" /\ count > 0
    /\ st' = [st EXCEPT ![h] = "peek"]
    /\ UNCHANGED <<lock, counters, power_down_pending, works, block, scheduling, flusher,
                   destroyer, history>>

\* With the lock: count is read again.  Without blocking, a lock that is
\* taken means -EAGAIN.
gcip_pm_get_if_powered(h, blocking) ==
    /\ st[h] = "peek"
    /\ \/ lock = "free" /\ count > 0 /\ gcip_pm_get_locked(h, "plain")
       \/ /\ (lock = "free" /\ count = 0) \/ (lock # "free" /\ ~blocking)
          /\ st' = [st EXCEPT ![h] = "none"]
          /\ UNCHANGED <<lock, count, suspendable_count, power_down_pending>>
    /\ UNCHANGED <<put_async_count, works, block, scheduling, flusher, destroyer, history>>

-----------------------------------------------------------------------------
(* gcip_pm_put, gcip_pm_put_flags, gcip_pm_put_async and their worker *)

\* __gcip_pm_put_flags up to the power_down callback.  The caller goes to
\* `down` when the callback is needed.
drop_count(who) ==
    /\ lock = "free" /\ count > 0
    /\ count' = count - 1
    /\ power_down_pending' = (power_down_pending \/ count = 1)
    /\ lock' = IF count = 1 THEN who ELSE "free"

\* (Mutant: the put ignores GCIP_PM_SUSPENDABLE.)
drop_suspendable_ignored(f, c) == suspendable_count' = suspendable_count
drop_suspendable(f, c) ==
    suspendable_count' = IF f = "susp" THEN clamp(suspendable_count - 1, c) ELSE suspendable_count

gcip_pm_put_flags(h) ==
    /\ may_call(h) /\ st[h] \in Flags
    /\ drop_count(h)
    /\ IF count = 1
       THEN /\ st' = [st EXCEPT ![h] = IF st[h] = "susp" THEN "down_susp" ELSE "down_plain"]
            /\ UNCHANGED suspendable_count
       ELSE /\ st' = [st EXCEPT ![h] = "none"]
            /\ drop_suspendable(st[h], count')
    /\ UNCHANGED <<put_async_count, works, block, scheduling, flusher, destroyer, history>>

put_power_down_returns(h) ==
    /\ lock = h /\ st[h] \in {"down_plain", "down_susp"}
    /\ \E r \in PowerDownResults : gcip_pm_try_power_down(r)
    /\ drop_suspendable(IF st[h] = "down_susp" THEN "susp" ELSE "plain", count)
    /\ st' = [st EXCEPT ![h] = "none"]
    /\ UNCHANGED <<count, put_async_count, dwork, pwork, scheduling, flusher, destroyer, forced>>

\* atomic_inc, and then schedule_work.
gcip_pm_put_async(h) ==
    /\ may_call(h) /\ st[h] = "plain"
    /\ put_async_count' = put_async_count + 1
    /\ st' = [st EXCEPT ![h] = "async"]
    /\ scheduling' = scheduling \cup {h}
    /\ UNCHANGED <<lock, count, suspendable_count, power_down_pending, works, block,
                   flusher, destroyer, history>>

put_async_schedule(h) ==
    /\ h \in scheduling
    /\ scheduling' = scheduling \ {h}
    /\ queued' = queued \cup {"pwork"}
    /\ UNCHANGED <<lock, counters, power_down_pending, dwork, pwork, block, st, flusher,
                   destroyer, history>>

pwork_start ==
    /\ "pwork" \in queued /\ pwork = "idle"
    /\ queued' = queued \ {"pwork"}
    /\ pwork' = "loop"
    /\ UNCHANGED <<lock, counters, power_down_pending, dwork, block, threads, history>>

\* Mutant: atomic_dec_return, which also takes a count of zero below zero.
pwork_loop_below ==
    /\ pwork = "loop"
    /\ put_async_count' = put_async_count - 1
    /\ pwork' = IF put_async_count > 0 THEN "put" ELSE "idle"
    /\ UNCHANGED <<lock, count, suspendable_count, power_down_pending, queued, dwork, block, threads,
                   history>>

\* atomic_dec_if_positive and the end of the loop.
pwork_loop ==
    /\ pwork = "loop"
    /\ IF put_async_count > 0
       THEN pwork' = "put" /\ put_async_count' = put_async_count - 1
       ELSE pwork' = "idle" /\ UNCHANGED put_async_count
    /\ UNCHANGED <<lock, count, suspendable_count, power_down_pending, queued, dwork, block, threads,
                   history>>

\* Where a put leaves the worker: the while loop goes on.  (Mutant: one put per run.)
after_put_stops == IF count = 1 THEN "power_down" ELSE "idle"
after_put == IF count = 1 THEN "power_down" ELSE "loop"

\* gcip_pm_put by the worker, for one of the holders that asked for it.
pwork_put(h) ==
    /\ pwork = "put" /\ st[h] = "async"
    /\ drop_count("pwork")
    /\ pwork' = after_put
    /\ st' = [st EXCEPT ![h] = "none"]
    /\ UNCHANGED <<suspendable_count, put_async_count, queued, dwork, block, scheduling, flusher,
                   destroyer, history>>

pwork_power_down_returns ==
    /\ lock = "pwork" /\ pwork = "power_down"
    /\ \E r \in PowerDownResults : gcip_pm_try_power_down(r)
    /\ pwork' = "loop"
    /\ UNCHANGED <<counters, dwork, threads, forced>>

gcip_pm_async_put_work ==
    \/ pwork_start \/ pwork_loop \/ pwork_power_down_returns
    \/ \E h \in Holder : pwork_put(h)

-----------------------------------------------------------------------------
(* gcip_pm_async_power_down_work: the delay is over (or a flush cut it
   short), the worker runs and waits for the lock. *)

dwork_start ==
    /\ "dwork" \in queued /\ dwork = "idle"
    /\ queued' = queued \ {"dwork"}
    /\ dwork' = "start"
    /\ UNCHANGED <<lock, counters, power_down_pending, pwork, block, threads, history>>

\* Whoever flushes the work counts its completions.
waits_left == IF flush_waits > 0 THEN flush_waits - 1 ELSE 0

dwork_done == flush_waits' = waits_left /\ UNCHANGED <<flush_pc, flush_retry>>

\* Whether there is still something to do.  (Mutant: the worker does not look.)
not_cancelled_unchecked == TRUE
not_cancelled == power_down_pending

dwork_lock ==
    /\ dwork = "start" /\ lock = "free"
    /\ IF not_cancelled
       THEN lock' = "dwork" /\ dwork' = "power_down" /\ UNCHANGED flusher
       ELSE lock' = lock /\ dwork' = "idle" /\ dwork_done
    /\ UNCHANGED <<counters, power_down_pending, queued, pwork, block, st, scheduling, destroyer,
                   history>>

dwork_power_down_returns ==
    /\ lock = "dwork" /\ dwork = "power_down"
    /\ \E r \in PowerDownResults : gcip_pm_try_power_down(r)
    /\ dwork_done
    /\ dwork' = "idle"
    /\ UNCHANGED <<counters, pwork, st, scheduling, destroyer, forced>>

gcip_pm_async_power_down_work == dwork_start \/ dwork_lock \/ dwork_power_down_returns

-----------------------------------------------------------------------------
(* gcip_pm_flush_delayed_power_down_work *)

flush_call(retry) ==
    /\ flush_pc = "idle" /\ destroyer = "alive"
    /\ flush_pc' = "sleep" /\ flush_retry' = retry /\ UNCHANGED flush_waits
    /\ UNCHANGED <<lock, counters, power_down_pending, works, block, st, scheduling,
                   destroyer, history>>

\* flush_delayed_work waits for the instance that runs and for the one that
\* is queued now, and for no later one.
flush_begin ==
    /\ flush_pc = "sleep"
    /\ flush_pc' = "wait" /\ UNCHANGED flush_retry
    /\ flush_waits' = (IF "dwork" \in queued THEN 1 ELSE 0) + (IF dwork # "idle" THEN 1 ELSE 0)
    /\ UNCHANGED <<lock, counters, power_down_pending, works, block, st, scheduling,
                   destroyer, history>>

flush_end ==
    /\ flush_pc = "wait" /\ flush_waits = 0
    /\ flush_pc' = "check" /\ UNCHANGED <<flush_waits, flush_retry>>
    /\ UNCHANGED <<lock, counters, power_down_pending, works, block, st, scheduling,
                   destroyer, history>>

\* The end of the loop body, with the lock: another round, or give up.
flush_check ==
    /\ flush_pc = "check" /\ lock = "free"
    /\ IF power_down_pending /\ flush_retry > 0
       THEN /\ flush_pc' = "sleep" /\ flush_retry' = flush_retry - 1
            /\ UNCHANGED <<power_down_pending, left_on>>
       ELSE /\ flush_pc' = "idle" /\ flush_retry' = 0
            /\ power_down_pending' = FALSE
            /\ left_on' = (left_on \/ power_down_pending)
    /\ UNCHANGED <<lock, counters, works, block, st, scheduling, flush_waits, destroyer, forced>>

gcip_pm_flush_delayed_power_down_work ==
    \/ \E retry \in 0..MaxRetry : flush_call(retry)
    \/ flush_begin \/ flush_end \/ flush_check

-----------------------------------------------------------------------------
(* gcip_pm_suspendable_locked: may the system suspend? *)
gcip_pm_suspendable_locked == count <= suspendable_count /\ ~power_down_pending

-----------------------------------------------------------------------------
(* gcip_pm_shutdown *)

shutdown_call(force) ==
    /\ destroyer = "alive" /\ lock = "free"
    /\ count > 0 => force
    /\ lock' = "shutdown"
    /\ forced' = (forced \/ count > 0)
    /\ UNCHANGED <<counters, power_down_pending, works, block, threads, left_on>>

shutdown_power_down_returns ==
    /\ lock = "shutdown"
    /\ \E r \in PowerDownResults : gcip_pm_try_power_down(r)
    /\ UNCHANGED <<counters, dwork, pwork, threads, forced>>

gcip_pm_shutdown == (\E force \in BOOLEAN : shutdown_call(force)) \/ shutdown_power_down_returns

-----------------------------------------------------------------------------
(* gcip_pm_destroy.  Its callers have stopped every user of the manager. *)

destroy_call ==
    /\ destroyer = "alive" /\ lock = "free"
    /\ \A h \in Holder : st[h] \in {"none", "async"}
    /\ scheduling = {} /\ flush_pc = "idle"
    /\ destroyer' = "flush_put"
    /\ UNCHANGED <<lock, counters, power_down_pending, works, block, st, scheduling,
                   flusher, history>>

\* gcip_pm_flush_put_work: flush_work.
gcip_pm_flush_put_work == "pwork" \notin queued /\ pwork = "idle"

destroy_flush_put ==
    /\ destroyer = "flush_put" /\ gcip_pm_flush_put_work
    /\ destroyer' = "clear"
    /\ UNCHANGED <<lock, counters, power_down_pending, works, block, st, scheduling,
                   flusher, history>>

\* pm->power_down_pending = false, without the lock.
destroy_clear ==
    /\ destroyer = "clear"
    /\ destroyer' = "cancel"
    /\ power_down_pending' = FALSE
    /\ left_on' = (left_on \/ power_down_pending)
    /\ UNCHANGED <<lock, counters, works, block, st, scheduling, flusher, forced>>

\* cancel_delayed_work_sync waits for a running instance.  (Mutant: without _sync.)
cancel_delayed_work == TRUE
cancel_delayed_work_sync == dwork = "idle"

\* The cancellation, before_destroy and the free.
destroy_cancel ==
    /\ destroyer = "cancel" /\ cancel_delayed_work_sync
    /\ destroyer' = "freed"
    /\ queued' = queued \ {"dwork"}
    /\ UNCHANGED <<lock, counters, power_down_pending, dwork, pwork, block, st, scheduling,
                   flusher, history>>

gcip_pm_destroy == destroy_call \/ destroy_flush_put \/ destroy_clear \/ destroy_cancel

-----------------------------------------------------------------------------
HolderNext(h) ==
    \/ \E f \in Flags : gcip_pm_get_flags(h, f)
    \/ power_up_returns(h)
    \/ get_if_powered_peek(h)
    \/ \E blocking \in BOOLEAN : gcip_pm_get_if_powered(h, blocking)
    \/ gcip_pm_put_flags(h)
    \/ put_power_down_returns(h)
    \/ gcip_pm_put_async(h)
    \/ put_async_schedule(h)

Next ==
    \/ \E h \in Holder : HolderNext(h)
    \/ gcip_pm_async_put_work
    \/ gcip_pm_async_power_down_work
    \/ gcip_pm_flush_delayed_power_down_work
    \/ gcip_pm_shutdown
    \/ gcip_pm_destroy

(* Work items that are queued run, a mutex serves its waiters, callbacks and
   calls that were entered return; nobody is obliged to make a new call.
   Which holder the put worker serves is not in the code, which only counts:
   the labels are given out fairly. *)
Fairness ==
    /\ WF_vars(pwork_start) /\ WF_vars(pwork_loop)
    /\ WF_vars(dwork_start) /\ SF_vars(dwork_lock)
    /\ WF_vars(pwork_power_down_returns)
    /\ WF_vars(dwork_power_down_returns)
    /\ WF_vars(shutdown_power_down_returns)
    /\ \A h \in Holder : /\ WF_vars(power_up_returns(h))
                         /\ WF_vars(put_power_down_returns(h))
                         /\ WF_vars(put_async_schedule(h))
                         /\ SF_vars(pwork_put(h))

Spec == gcip_pm_create /\ [][Next]_vars
FairSpec == Spec /\ Fairness

-----------------------------------------------------------------------------
(* Properties *)

\* The references that are in count, and in suspendable_count.
CountedStates == {"plain", "susp", "async"}
SuspStates == {"susp", "down_susp"}
Counted == {h \in Holder : st[h] \in CountedStates}
Susp == {h \in Holder : st[h] \in SuspStates}

\* gcip_pm_get promises a powered block until the matching put: unless
\* somebody forced a shutdown, the block is on as long as any reference is
\* held, whatever retries of an earlier power down are still in flight.
PoweredWhileHeld == ~forced /\ Counted # {} => block = "on"

\* A power down that became due is never forgotten: an idle manager whose
\* block is on has the power down pending, or has reported that it gave up
\* (callback error, failed power up, exhausted flush, destroy).
NoForgottenPowerDown ==
    lock = "free" /\ count = 0 /\ block = "on" => power_down_pending \/ left_on

\* power_down_pending is a promise that power_down_work will look at it:
\* cancelling a power down in gcip_pm_get and asking for a new one while the
\* old work is still queued or already running loses no retry.
PendingHasRetry ==
    power_down_pending /\ lock = "free" /\ destroyer # "freed"
        => "dwork" \in queued \/ dwork = "start"

\* gcip_pm_suspendable_locked allows system suspend exactly when all users
\* asked for GCIP_PM_SUSPENDABLE and no power down is in doubt.
SuspendGate ==
    lock = "free" => (gcip_pm_suspendable_locked
                        <=> ~power_down_pending /\ \A h \in Counted : st[h] = "susp")

\* An asynchronous put is never stranded: between atomic_inc and the end of
\* the worker's loop somebody is still going to look at put_async_count.
NoStrandedAsyncPut ==
    put_async_count > 0 => scheduling # {} \/ "pwork" \in queued \/ pwork # "idle"

\* gcip_pm_destroy frees the manager only when nothing can touch it any more,
\* although it clears power_down_pending without the lock.
FreedIsQuiescent ==
    destroyer = "freed" =>
        /\ "dwork" \notin queued /\ dwork = "idle"
        /\ "pwork" \notin queued /\ pwork = "idle"
        /\ lock = "free" /\ put_async_count = 0

\* Every reference given to gcip_pm_put_async is dropped eventually.
AsyncPutDone == \A h \in Holder : st[h] = "async" ~> st[h] = "none"

\* A pending power down is eventually retried, unless a new user or a flush
\* takes the request back.
PendingIsRetried ==
    power_down_pending ~> ~power_down_pending \/ dwork = "power_down" \/ destroyer = "freed"

\* A holder's reference as its user sees it: an asynchronous put still counts,
\* a call inside a power transition does not.
UserOf(s) == IF s = "async" THEN "plain" ELSE IF s \in Flags THEN s ELSE "none"
users == [h \in Holder |-> UserOf(st[h])]

Contract == INSTANCE PowerContract WITH power <- block

\* The manager, with its lock, its two unlocked counters and its two work
\* items, does what the contract says: the block is switched on only for a
\* get and off only when nobody holds it, in whatever order retries, cancelled
\* retries, asynchronous puts and flushes are interleaved.
RefinesContract == Contract!Spec

\* What gcip-pm.h says of gcip_pm_put: "If .power_down fails, async work will
\* be scheduled to retry".
FailedPutIsRetried ==
    [][\A h \in Holder : (put_power_down_returns(h) /\ block' = "on") => "dwork" \in queued']_vars
=============================================================================
