------------------------------ MODULE IifFence ------------------------------
(***************************************************************************)
(* Inter-IP fences (gcip-kernel-driver/drivers/gcip/iif): direct,          *)
(* single-shot fences, from their creation by an ioctl to their            *)
(* destruction, and the commands of the IP drivers that wait for them and  *)
(* signal them.                                                            *)
(*                                                                         *)
(* A fence is unblocked when the count of remaining signals in the fence   *)
(* table reaches zero.  The table is memory shared with the firmware of    *)
(* the IPs: firmware decrements the count of a fence it signals and holds  *)
(* no lock of the kernel.  The kernel is told of each signal when the      *)
(* response of the command arrives, and decrements the count itself only   *)
(* when it has to signal on behalf of a firmware that failed (propagate).  *)
(*                                                                         *)
(* An action is one critical section of fence_lock, or one step a thread   *)
(* makes between two of them.  Block wakelocks are released after the      *)
(* section that decides so; the model releases them in it, which is the    *)
(* earliest moment and so the worst case for who needs the block.          *)
(***************************************************************************)
EXTENDS Integers, FiniteSets

CONSTANTS
  Fence,            \* fences
  Cmd,              \* commands sent to firmware, each at most once
  Ip,               \* the IPs: TPU, DSP
  IpOf,             \* the IP a command runs on
  In, Out,          \* the fences a command waits for and the ones it signals
  Total,            \* params.remaining_signalers of a fence
  Preset,           \* params.waiters of a fence at its creation
  KeepUntilRelease, \* fences with IIF_FLAGS_RETIRE_ON_RELEASE
  Pollable,         \* fences that user space bridges to a DMA fence
  Flaggable,        \* fences whose IIF_FLAGS_DISABLE_POLL user space changes
  MaySleep,         \* commands whose driver may use the sleeping variants
  FirmwareErrs,     \* commands that firmware may process with an error
  Disbands          \* whether a group may be disbanded with pending commands

ASSUME ConstAssumption ==
  /\ IsFiniteSet(Fence) /\ IsFiniteSet(Cmd) /\ IsFiniteSet(Ip)
  /\ IpOf \in [Cmd -> Ip]
  /\ In \in [Cmd -> SUBSET Fence] /\ Out \in [Cmd -> SUBSET Fence]
  /\ \A k \in Cmd : In[k] \cap Out[k] = {}
  /\ Total \in [Fence -> Nat \ {0}]
  /\ Preset \in [Fence -> SUBSET Ip]
  /\ KeepUntilRelease \subseteq Fence /\ Pollable \subseteq Fence
  /\ Flaggable \subseteq Fence /\ MaySleep \subseteq Cmd
  /\ FirmwareErrs \subseteq Cmd
  /\ Disbands \in BOOLEAN

VARIABLES
  \* struct iif_fence
  state,               \* "none", IIF_FENCE_STATE_*, "freed"
  submitted_signalers,
  signaled_signalers,
  outstanding_waiters, \* outstanding_waiters_per_ip
  block_wakelock,      \* outstanding_block_wakelock
  params_waiters,      \* params.waiters
  signaled,            \* the fence is unblocked
  signal_error,
  propagate,
  disable_poll,        \* params.flags & IIF_FLAGS_DISABLE_POLL
  signaled_work,       \* signaled_work is queued
  waited_work,         \* waited_work is queued
  \* the fence table
  remaining_signals,
  table_errored,
  \* users of a fence
  file,                \* the sync file: "none", "open", "closing", "closed"
  poll_cb,             \* the bridge: "none", "listed", "notified", "refused", "gone"
  \* IP drivers
  block,               \* block wakelocks held on the IP
  pc,                  \* where the thread that handles a command is
  todo,                \* the fences its current loop has still to visit
  cur,                 \* the fence it works on, {} or a singleton
  seen,                \* table_remaining_signals as read in the signal section
  wakelock_held,       \* IPs of waiters acquired for the out-fences
  answer,              \* who answered it: "none", "firmware", "driver", "nobody"
  processed            \* firmware has processed the command

fence_vars == <<state, submitted_signalers, signaled_signalers,
                outstanding_waiters, block_wakelock, params_waiters>>
status_vars == <<signaled, signal_error, propagate, disable_poll>>
work_vars == <<signaled_work, waited_work>>
table_vars == <<remaining_signals, table_errored>>
user_vars == <<file, poll_cb>>
cmd_vars == <<pc, todo, cur, seen, wakelock_held, answer, processed>>
vars == <<fence_vars, status_vars, work_vars, table_vars, user_vars, block,
          cmd_vars>>

-----------------------------------------------------------------------------
(* Derived state                                                           *)

\* A command has been submitted to its fences (from the submission section on).
Sent ==
  {"sent", "signal", "write", "sync", "count", "kick", "waited", "kick_waited"}

\* A command holds a reference of each of its fences.
Holding == Sent \cup {"in", "both", "refused"}

\* Mutant: a command has no reference of its own.
refs_of_users(f) ==
  (IF file[f] \in {"open", "closing"} THEN {"file"} ELSE {})
    \cup (IF poll_cb[f] \in {"listed", "notified", "refused"}
          THEN {"bridge"} ELSE {})

\* Who holds a reference of f.
refs(f) ==
  {k \in Cmd : pc[k] \in Holding /\ f \in In[k] \cup Out[k]}
    \cup (IF file[f] \in {"open", "closing"} THEN {"file"} ELSE {})
    \cup (IF poll_cb[f] \in {"listed", "notified", "refused"}
          THEN {"bridge"} ELSE {})

live(f) == state[f] \in {"initialized", "retired"}

\* fence_lock is held across a step only by a thread in the signal section.
unlocked(f) == \A k \in Cmd : pc[k] \in {"write", "sync"} => f \notin cur[k]

unsubmitted_signalers(f) == Total[f] - submitted_signalers[f]

outstanding_signalers(f) == submitted_signalers[f] - signaled_signalers[f]

all_signalers_signaled(f) == signaled_signalers[f] = Total[f]

\* Mutant: the outstanding signalers are not looked at.
retire_when_unwaited(f, n, w) ==
  IF /\ f \notin KeepUntilRelease
     /\ \A ip \in Ip : w[ip] = 0
     /\ file[f] # "open"
  THEN "retired" ELSE state[f]

\* The state of f when the number of its outstanding signalers is n and of its
\* waiters is w: iif_fence_retire_if_possible_locked.
retire_if_possible(f, n, w) ==
  IF /\ f \notin KeepUntilRelease
     /\ \A ip \in Ip : w[ip] = 0
     /\ n = 0
     /\ file[f] # "open"
  THEN "retired" ELSE state[f]

Init ==
  /\ state = [f \in Fence |-> "none"]
  /\ submitted_signalers = [f \in Fence |-> 0]
  /\ signaled_signalers = [f \in Fence |-> 0]
  /\ outstanding_waiters = [f \in Fence |-> [ip \in Ip |-> 0]]
  /\ block_wakelock = [f \in Fence |-> [ip \in Ip |-> 0]]
  /\ params_waiters = Preset
  /\ signaled = [f \in Fence |-> FALSE]
  /\ signal_error = [f \in Fence |-> FALSE]
  /\ propagate = [f \in Fence |-> FALSE]
  /\ disable_poll = [f \in Fence |-> FALSE]
  /\ signaled_work = [f \in Fence |-> FALSE]
  /\ waited_work = [f \in Fence |-> FALSE]
  /\ remaining_signals = Total
  /\ table_errored = [f \in Fence |-> FALSE]
  /\ file = [f \in Fence |-> "none"]
  /\ poll_cb = [f \in Fence |-> "none"]
  /\ block = [ip \in Ip |-> 0]
  /\ pc = [k \in Cmd |-> "idle"]
  /\ todo = [k \in Cmd |-> {}]
  /\ cur = [k \in Cmd |-> {}]
  /\ seen = [k \in Cmd |-> 0]
  /\ wakelock_held = [k \in Cmd |-> {}]
  /\ answer = [k \in Cmd |-> "none"]
  /\ processed = [k \in Cmd |-> FALSE]

-----------------------------------------------------------------------------
(* User space: the fence file and the bridge to a DMA fence                *)

\* gcip_fence_create_iif: the fence and its file; the creator's reference is
\* dropped once the file holds one.
gcip_fence_create_iif(f) ==
  /\ state[f] = "none"
  /\ state' = [state EXCEPT ![f] = "initialized"]
  /\ file' = [file EXCEPT ![f] = "open"]
  /\ UNCHANGED <<submitted_signalers, signaled_signalers, outstanding_waiters,
                 block_wakelock, params_waiters, status_vars, work_vars,
                 table_vars, poll_cb, block, cmd_vars>>

\* iif_sync_file_release: atomic_dec_and_test(num_sync_file)
iif_sync_file_release(f) ==
  /\ file[f] = "open"
  /\ file' = [file EXCEPT ![f] = "closing"]
  /\ UNCHANGED <<fence_vars, status_vars, work_vars, table_vars, poll_cb,
                 block, cmd_vars>>

\* The last file of the fence is gone: the fence retires if nothing else refers
\* to it, and the reference of the file is put.
iif_fence_on_sync_file_release(f) ==
  /\ file[f] = "closing" /\ unlocked(f)
  /\ state' = [state EXCEPT ![f] =
        retire_if_possible(f, outstanding_signalers(f), outstanding_waiters[f])]
  /\ file' = [file EXCEPT ![f] = "closed"]
  /\ UNCHANGED <<submitted_signalers, signaled_signalers, outstanding_waiters,
                 block_wakelock, params_waiters, status_vars, work_vars,
                 table_vars, poll_cb, block, cmd_vars>>

\* Mutant: only the count of signalers is looked at.
poll_refused_by_count(f) == all_signalers_signaled(f)

\* iif_fence_add_poll_callback refuses a fence that is unblocked.
poll_refused(f) == signaled[f] \/ all_signalers_signaled(f)

\* dma_iif_fence_bridge, from the ioctl of the file
dma_iif_fence_bridge(f) ==
  /\ f \in Pollable
  /\ file[f] = "open" /\ poll_cb[f] = "none" /\ unlocked(f)
  /\ poll_cb' = [poll_cb EXCEPT ![f] =
                   IF poll_refused(f) THEN "refused" ELSE "listed"]
  /\ UNCHANGED <<fence_vars, status_vars, work_vars, table_vars, file, block,
                 cmd_vars>>

\* The last user of the DMA fence is gone: remove the callback, put the fence.
dma_iif_fence_release_work(f) ==
  /\ poll_cb[f] \in {"listed", "notified", "refused"} /\ unlocked(f)
  /\ poll_cb' = [poll_cb EXCEPT ![f] = "gone"]
  /\ UNCHANGED <<fence_vars, status_vars, work_vars, table_vars, file, block,
                 cmd_vars>>

\* The listed callback is called unless polling is disabled or the fence is
\* still blocked: iif_fence_notify_poll_cb_locked.
notify_poll_cb(f, unblocked, disabled) ==
  IF poll_cb[f] = "listed" /\ unblocked /\ ~disabled
  THEN "notified" ELSE poll_cb[f]

\* iif_fence_set_flags: clearing the flag notifies the pended callbacks.
iif_fence_set_flags(f) ==
  /\ f \in Flaggable
  /\ file[f] = "open" /\ unlocked(f)
  /\ disable_poll' = [disable_poll EXCEPT ![f] = ~@]
  /\ poll_cb' = [poll_cb EXCEPT ![f] =
                   notify_poll_cb(f, signaled[f], ~disable_poll[f])]
  /\ UNCHANGED <<fence_vars, signaled, signal_error, propagate, work_vars,
                 table_vars, file, block, cmd_vars>>

-----------------------------------------------------------------------------
(* Submission of a command                                                 *)

\* The fences of the command are looked up by their file descriptors, and get a
\* reference each.
gcip_fence_fdget(k) == \A f \in In[k] \cup Out[k] : file[f] = "open"

\* iif_fences_acquire_block_wakelock: one wakelock of the IP for each in-fence;
\* when one cannot be acquired the ones before it are released.
acquire_block_wakelock(k) ==
  /\ pc[k] = "idle"
  /\ gcip_fence_fdget(k)
  /\ \/ /\ block' = [block EXCEPT ![IpOf[k]] = @ + Cardinality(In[k])]
        /\ pc' = [pc EXCEPT ![k] = "in"]
     \/ /\ In[k] # {}
        /\ pc' = [pc EXCEPT ![k] = "refused"]
        /\ UNCHANGED block
  /\ UNCHANGED <<fence_vars, status_vars, work_vars, table_vars, user_vars,
                 todo, cur, seen, wakelock_held, answer, processed>>

\* How many fences of the pairs in h are held for ip.
held_for(h, ip) == Cardinality({p \in h : p[2] = ip})

\* iif_fences_acquire_block_wakelock_of_waiters: reads params.waiters of the
\* out-fences without their locks.
acquire_block_wakelock_of_waiters(k) ==
  LET h == {p \in Out[k] \X Ip : p[2] \in params_waiters[p[1]]} IN
  /\ pc[k] = "in"
  /\ \/ /\ wakelock_held' = [wakelock_held EXCEPT ![k] = h]
        /\ block' = [ip \in Ip |-> block[ip] + held_for(h, ip)]
        /\ pc' = [pc EXCEPT ![k] = "both"]
     \/ /\ h # {}
        /\ block' = [block EXCEPT ![IpOf[k]] = @ - Cardinality(In[k])]
        /\ pc' = [pc EXCEPT ![k] = "refused"]
        /\ UNCHANGED wakelock_held
  /\ UNCHANGED <<fence_vars, status_vars, work_vars, table_vars, user_vars,
                 todo, cur, seen, answer, processed>>

are_waiter_submittable(fs) ==
  \A f \in fs : unsubmitted_signalers(f) = 0 /\ state[f] # "retired"

are_signaler_submittable(fs) ==
  \A f \in fs : unsubmitted_signalers(f) > 0 /\ state[f] # "retired"

\* iif_fence_submit_signaler_and_waiter, with the locks of all fences held: all
\* the counts of all the fences change, or none.
submit_signaler_and_waiter(k) ==
  /\ pc[k] = "both"
  /\ \A f \in In[k] \cup Out[k] : unlocked(f)
  /\ are_waiter_submittable(In[k])
  /\ are_signaler_submittable(Out[k])
  /\ outstanding_waiters' = [f \in Fence |->
       IF f \in In[k] THEN [outstanding_waiters[f] EXCEPT ![IpOf[k]] = @ + 1]
       ELSE outstanding_waiters[f]]
  /\ params_waiters' = [f \in Fence |->
       IF f \in In[k] THEN params_waiters[f] \cup {IpOf[k]}
       ELSE params_waiters[f]]
  /\ submitted_signalers' = [f \in Fence |->
       submitted_signalers[f] + (IF f \in Out[k] THEN 1 ELSE 0)]
  /\ block_wakelock' = [f \in Fence |-> [ip \in Ip |->
       block_wakelock[f][ip]
         + (IF f \in In[k] /\ ip = IpOf[k] THEN 1 ELSE 0)
         + (IF <<f, ip>> \in wakelock_held[k] THEN 1 ELSE 0)]]
  /\ wakelock_held' = [wakelock_held EXCEPT ![k] = {}]
  /\ pc' = [pc EXCEPT ![k] = "sent"]
  /\ UNCHANGED <<state, signaled_signalers, status_vars, work_vars, table_vars,
                 user_vars, block, todo, cur, seen, answer, processed>>

\* Mutant: the wakelocks of the out-fences' waiters are forgotten.
refused_releases_in(k, ip) == IF ip = IpOf[k] THEN Cardinality(In[k]) ELSE 0

\* The wakelocks of ip that a submission acquired before its last section.
refused_releases(k, ip) ==
  held_for(wakelock_held[k], ip)
    + (IF ip = IpOf[k] THEN Cardinality(In[k]) ELSE 0)

\* A fence refuses the waiter (-EAGAIN, -EPERM) or the signaler (-EPERM): every
\* wakelock acquired above is released and the command is not sent.
submit_refused(k) ==
  /\ pc[k] = "both"
  /\ \A f \in In[k] \cup Out[k] : unlocked(f)
  /\ ~(are_waiter_submittable(In[k]) /\ are_signaler_submittable(Out[k]))
  /\ block' = [ip \in Ip |-> block[ip] - refused_releases(k, ip)]
  /\ wakelock_held' = [wakelock_held EXCEPT ![k] = {}]
  /\ pc' = [pc EXCEPT ![k] = "refused"]
  /\ UNCHANGED <<fence_vars, status_vars, work_vars, table_vars, user_vars,
                 todo, cur, seen, answer, processed>>

-----------------------------------------------------------------------------
(* Firmware, which shares only the fence table with the kernel             *)

\* Firmware processes the command once its in-fences are unblocked, and signals
\* the out-fences; it may mark them errored first.  It knows nothing of what the
\* driver decided and may process a command that has timed out.
firmware_processes(k) ==
  /\ ~processed[k]
  /\ pc[k] \in Sent \cup {"done"}
  /\ \A f \in In[k] : remaining_signals[f] = 0
  /\ processed' = [processed EXCEPT ![k] = TRUE]
  /\ remaining_signals' = [f \in Fence |->
       IF f \in Out[k] /\ remaining_signals[f] > 0
       THEN remaining_signals[f] - 1 ELSE remaining_signals[f]]
  /\ \E errs \in {{}, IF k \in FirmwareErrs THEN Out[k] ELSE {}} :
       table_errored' = [f \in Fence |-> table_errored[f] \/ f \in errs]
  /\ UNCHANGED <<fence_vars, status_vars, work_vars, user_vars, block, pc,
                 todo, cur, seen, wakelock_held, answer>>

-----------------------------------------------------------------------------
(* The response of a command: signal_response_waiters                      *)

\* The next of the out-fences still to be signalled; after the last one, the
\* loop over the in-fences begins.
next_out_fence(k, outs) ==
  /\ cur' = [cur EXCEPT ![k] = {}]
  /\ pc' = [pc EXCEPT ![k] = IF outs = {} THEN "waited" ELSE "signal"]
  /\ todo' = [todo EXCEPT ![k] = IF outs = {} THEN In[k] ELSE outs]

\* The response of firmware has arrived.
response_arrived(k) ==
  /\ pc[k] = "sent" /\ processed[k]
  /\ answer' = [answer EXCEPT ![k] = "firmware"]
  /\ next_out_fence(k, Out[k])
  /\ UNCHANGED <<fence_vars, status_vars, work_vars, table_vars, user_vars,
                 block, seen, wakelock_held, processed>>

\* Mutant: the fences are not told that the driver signals.
set_propagate_unblock_none(k) == propagate

\* gcip_fence_array_iif_set_propagate_unblock
set_propagate_unblock(k) == [f \in Fence |-> propagate[f] \/ f \in Out[k]]

\* The driver answers the command itself (time-out, cancellation, crash): it
\* sets propagate of the out-fences, without their locks, and signals an error.
response_error(k) ==
  /\ pc[k] = "sent"
  /\ answer' = [answer EXCEPT ![k] = "driver"]
  /\ propagate' = set_propagate_unblock(k)
  /\ next_out_fence(k, Out[k])
  /\ UNCHANGED <<fence_vars, signaled, signal_error, disable_poll, work_vars,
                 table_vars, user_vars, block, seen, wakelock_held, processed>>

\* Mutant: the references are put without removing the waiters.
clear_responses_puts(k) ==
  /\ Disbands
  /\ pc[k] = "sent"
  /\ answer' = [answer EXCEPT ![k] = "nobody"]
  /\ pc' = [pc EXCEPT ![k] = "waited"]
  /\ UNCHANGED <<fence_vars, status_vars, work_vars, table_vars, user_vars,
                 block, todo, cur, seen, wakelock_held, processed>>

\* edgetpu_group_clear_responses: the group of a pending command is disbanded.
\* Its waiters are removed and its references put, its out-fences not signalled.
clear_responses(k) ==
  /\ Disbands
  /\ pc[k] = "sent"
  /\ answer' = [answer EXCEPT ![k] = "nobody"]
  /\ pc' = [pc EXCEPT ![k] = "waited"]
  /\ todo' = [todo EXCEPT ![k] = In[k]]
  /\ UNCHANGED <<fence_vars, status_vars, work_vars, table_vars, user_vars,
                 block, cur, seen, wakelock_held, processed>>

\* The conditions for which a signal returns -EBUSY and -EPERM do not hold.
\* SignalAccepted shows that they never do for a driver, so neither section has
\* an action for the refusal.
signal_allowed(f) == ~all_signalers_signaled(f) /\ outstanding_signalers(f) > 0

\* iif_fence_signal_with_status_locked takes the lock, and
\* iif_direct_fence_signal_single_shot reads the table.
signal_reads(k, f) ==
  /\ pc[k] = "signal" /\ f \in todo[k] /\ unlocked(f)
  /\ signal_allowed(f)
  /\ pc' = [pc EXCEPT ![k] = "write"]
  /\ todo' = [todo EXCEPT ![k] = @ \ {f}]
  /\ cur' = [cur EXCEPT ![k] = {f}]
  /\ seen' = [seen EXCEPT ![k] = remaining_signals[f]]
  /\ UNCHANGED <<fence_vars, status_vars, work_vars, table_vars, user_vars,
                 block, wakelock_held, answer, processed>>

\* iif_direct_fence_handle_signal_error: the error of the driver is written to
\* the table, unless firmware had unblocked the fence without an error.
handle_signal_error(k, f) ==
  table_errored[f] \/ (answer[k] = "driver" /\ propagate[f] /\ seen[k] > 0)

\* Mutant: the count is decremented below zero.
signals_left_unchecked(k, f) == IF propagate[f] THEN seen[k] - 1 ELSE seen[k]

\* The count to write: decremented on behalf of a failed firmware.
signals_left(k, f) ==
  IF propagate[f] /\ seen[k] > 0 THEN seen[k] - 1 ELSE seen[k]

\* iif_fence_table_set_remaining_signals writes the count unless the one it has
\* checked, now perhaps overtaken by firmware, is as small.
set_remaining_signals(k, f, checked) ==
  IF propagate[f] /\ checked > signals_left(k, f)
  THEN signals_left(k, f) ELSE remaining_signals[f]

\* The error and then the count are written to the table.  Firmware may have
\* changed the count since it was read, and since it was checked.
signal_writes(k, f) ==
  /\ pc[k] = "write" /\ f \in cur[k]
  /\ \E checked \in remaining_signals[f] .. seen[k] :
       remaining_signals' =
         [remaining_signals EXCEPT ![f] = set_remaining_signals(k, f, checked)]
  /\ table_errored' = [table_errored EXCEPT ![f] = handle_signal_error(k, f)]
  /\ pc' = [pc EXCEPT ![k] = "sync"]
  /\ seen' = [seen EXCEPT ![k] = 0]
  /\ UNCHANGED <<fence_vars, status_vars, work_vars, user_vars, block, todo,
                 cur, wakelock_held, answer, processed>>

\* The rest of the section, iif_direct_fence_sync_status: the kernel fence is
\* brought up to date with the table.  The sync unit's callback is called once,
\* when no signal remains: it sets the status, queues signaled_work and calls
\* the poll callbacks.
sync_status(k, f) ==
  LET unblocks == remaining_signals[f] = 0 /\ ~signaled[f] IN
  /\ pc[k] = "sync" /\ f \in cur[k]
  /\ signaled' = [signaled EXCEPT ![f] = @ \/ unblocks]
  /\ signal_error' = [signal_error EXCEPT ![f] =
                        IF unblocks THEN table_errored[f] ELSE @]
  /\ signaled_work' = [signaled_work EXCEPT ![f] = @ \/ unblocks]
  /\ poll_cb' = [poll_cb EXCEPT ![f] =
                   notify_poll_cb(f, unblocks, disable_poll[f])]
  /\ pc' = [pc EXCEPT ![k] = "count"]
  /\ UNCHANGED <<fence_vars, propagate, disable_poll, waited_work, table_vars,
                 file, block, todo, cur, seen, wakelock_held, answer, processed>>

\* iif_fence_inc_signaled_signalers_locked with complete false
count_signaler(f) == signaled_signalers[f] + 1

\* Mutant: waits for the last of all signalers.
none_outstanding_of_total(f) == signaled_signalers[f] + 1 = Total[f]

\* No signaler is outstanding once the one being counted is.
none_outstanding(f) == outstanding_signalers(f) = 1

\* The second section, iif_fence_do_waited_work_if_no_outstanding_signalers:
\* counts the signaler and retires the fence if nothing else refers to it.
inc_signaled_signalers(k, f) ==
  /\ pc[k] = "count" /\ f \in cur[k] /\ unlocked(f)
  /\ signal_allowed(f)
  /\ signaled_signalers' = [signaled_signalers EXCEPT ![f] = count_signaler(f)]
  /\ state' = [state EXCEPT ![f] =
       retire_if_possible(f, outstanding_signalers(f) - 1, outstanding_waiters[f])]
  /\ IF none_outstanding(f)
     THEN pc' = [pc EXCEPT ![k] = "kick"] /\ UNCHANGED <<cur, todo>>
     ELSE next_out_fence(k, todo[k])
  /\ UNCHANGED <<submitted_signalers, outstanding_waiters, block_wakelock,
                 params_waiters, status_vars, work_vars, table_vars, user_vars,
                 block, seen, wakelock_held, answer, processed>>

\* Mutant: does not wait for the outstanding signalers.
locks_of_waiters(f) == outstanding_waiters[f]

\* iif_fence_waited_work_func: once no signaler is outstanding, the wakelocks
\* above the number of waiters are released.
locks_kept(f) ==
  [ip \in Ip |-> IF /\ outstanding_signalers(f) = 0
                    /\ block_wakelock[f][ip] > outstanding_waiters[f][ip]
                 THEN outstanding_waiters[f][ip] ELSE block_wakelock[f][ip]]

release_pended(f) ==
  /\ unlocked(f)
  /\ block_wakelock' = [block_wakelock EXCEPT ![f] = locks_kept(f)]
  /\ block' = [ip \in Ip |->
                 block[ip] - (block_wakelock[f][ip] - locks_kept(f)[ip])]

\* After the second section the wakelocks pended for f are released, at once or
\* by queueing waited_work where the context must not sleep.
waited_work_kick(k, f) ==
  /\ pc[k] = "kick" /\ f \in cur[k]
  /\ \/ k \in MaySleep /\ release_pended(f) /\ UNCHANGED waited_work
     \/ /\ waited_work' = [waited_work EXCEPT ![f] = TRUE]
        /\ UNCHANGED <<block_wakelock, block>>
  /\ next_out_fence(k, todo[k])
  /\ UNCHANGED <<state, submitted_signalers, signaled_signalers,
                 outstanding_waiters, params_waiters, status_vars,
                 signaled_work, table_vars, user_vars, seen, wakelock_held,
                 answer, processed>>

\* iif_fence_remove_waiter_locked
remove_waiter(k, f) ==
  LET w == [outstanding_waiters[f] EXCEPT ![IpOf[k]] = @ - 1] IN
  /\ outstanding_waiters' = [outstanding_waiters EXCEPT ![f] = w]
  /\ state' = [state EXCEPT ![f] =
                 retire_if_possible(f, outstanding_signalers(f), w)]

\* iif_fence_waiter_completed: the wakelock of the waiter is kept for the
\* outstanding signalers.
waiter_completed(k, f) ==
  LET releases == /\ outstanding_signalers(f) = 0
                  /\ block_wakelock[f][IpOf[k]] > 0 IN
  /\ k \in MaySleep
  /\ pc[k] = "waited" /\ f \in todo[k] /\ unlocked(f)
  /\ remove_waiter(k, f)
  /\ IF releases
     THEN /\ block_wakelock' = [block_wakelock EXCEPT ![f][IpOf[k]] = @ - 1]
          /\ block' = [block EXCEPT ![IpOf[k]] = @ - 1]
     ELSE UNCHANGED <<block_wakelock, block>>
  /\ todo' = [todo EXCEPT ![k] = @ \ {f}]
  /\ UNCHANGED <<submitted_signalers, signaled_signalers, params_waiters,
                 status_vars, work_vars, table_vars, user_vars, pc, cur, seen,
                 wakelock_held, answer, processed>>

\* iif_fence_waiter_completed_async: removes the waiter, unlocks, and queues
\* waited_work.
waiter_completed_async(k, f) ==
  /\ pc[k] = "waited" /\ f \in todo[k] /\ unlocked(f)
  /\ remove_waiter(k, f)
  /\ todo' = [todo EXCEPT ![k] = @ \ {f}]
  /\ cur' = [cur EXCEPT ![k] = {f}]
  /\ pc' = [pc EXCEPT ![k] = "kick_waited"]
  /\ UNCHANGED <<submitted_signalers, signaled_signalers, block_wakelock,
                 params_waiters, status_vars, work_vars, table_vars, user_vars,
                 block, seen, wakelock_held, answer, processed>>

waited_work_async(k, f) ==
  /\ pc[k] = "kick_waited" /\ f \in cur[k]
  /\ waited_work' = [waited_work EXCEPT ![f] = TRUE]
  /\ cur' = [cur EXCEPT ![k] = {}]
  /\ pc' = [pc EXCEPT ![k] = "waited"]
  /\ UNCHANGED <<fence_vars, status_vars, signaled_work, table_vars, user_vars,
                 block, todo, seen, wakelock_held, answer, processed>>

\* The references of the fences are put; a refused command may be sent again.
put_fences(k) ==
  /\ \/ pc[k] = "waited" /\ todo[k] = {} /\ pc' = [pc EXCEPT ![k] = "done"]
     \/ pc[k] = "refused" /\ pc' = [pc EXCEPT ![k] = "idle"]
  /\ UNCHANGED <<fence_vars, status_vars, work_vars, table_vars, user_vars,
                 block, todo, cur, seen, wakelock_held, answer, processed>>

-----------------------------------------------------------------------------
(* Work items and the end of a fence                                       *)

\* iif_fence_signaled_work_func tells the drivers of the waiting IPs.
signaled_work_func(f) ==
  /\ signaled_work[f]
  /\ signaled_work' = [signaled_work EXCEPT ![f] = FALSE]
  /\ UNCHANGED <<fence_vars, status_vars, waited_work, table_vars, user_vars,
                 block, cmd_vars>>

waited_work_func(f) ==
  /\ waited_work[f]
  /\ waited_work' = [waited_work EXCEPT ![f] = FALSE]
  /\ release_pended(f)
  /\ UNCHANGED <<state, submitted_signalers, signaled_signalers,
                 outstanding_waiters, params_waiters, status_vars,
                 signaled_work, table_vars, user_vars, cmd_vars>>

\* iif_fence_do_destroy, when the last reference is gone and both work items are
\* flushed: a fence not signalled by all is errored out, the fence is retired
\* and every wakelock still held for it released.
iif_fence_do_destroy(f) ==
  /\ live(f) /\ refs(f) = {}
  /\ ~signaled_work[f] /\ ~waited_work[f]
  /\ IF all_signalers_signaled(f)
     THEN UNCHANGED <<signaled, signal_error, propagate, signaled_signalers>>
     ELSE /\ signaled' = [signaled EXCEPT ![f] = TRUE]
          /\ signal_error' = [signal_error EXCEPT ![f] = TRUE]
          /\ propagate' = [propagate EXCEPT ![f] = TRUE]
          /\ signaled_signalers' = [signaled_signalers EXCEPT ![f] = Total[f]]
  /\ state' = [state EXCEPT ![f] = "freed"]
  /\ block' = [ip \in Ip |-> block[ip] - block_wakelock[f][ip]]
  /\ block_wakelock' = [block_wakelock EXCEPT ![f] = [ip \in Ip |-> 0]]
  /\ UNCHANGED <<submitted_signalers, outstanding_waiters, params_waiters,
                 disable_poll, work_vars, table_vars, user_vars, cmd_vars>>

-----------------------------------------------------------------------------
fence_step(f) ==
  \/ gcip_fence_create_iif(f) \/ iif_sync_file_release(f)
  \/ iif_fence_on_sync_file_release(f)
  \/ dma_iif_fence_bridge(f) \/ dma_iif_fence_release_work(f)
  \/ iif_fence_set_flags(f)
  \/ signaled_work_func(f) \/ waited_work_func(f) \/ iif_fence_do_destroy(f)

cmd_step(k) ==
  \/ acquire_block_wakelock(k) \/ acquire_block_wakelock_of_waiters(k)
  \/ submit_signaler_and_waiter(k) \/ submit_refused(k)
  \/ firmware_processes(k)
  \/ response_arrived(k) \/ response_error(k) \/ clear_responses(k)
  \/ put_fences(k)

signal_step(k, f) ==
  \/ signal_reads(k, f) \/ signal_writes(k, f) \/ sync_status(k, f)
  \/ inc_signaled_signalers(k, f) \/ waited_work_kick(k, f)
  \/ waiter_completed(k, f) \/ waiter_completed_async(k, f)
  \/ waited_work_async(k, f)

Next ==
  \/ \E f \in Fence : fence_step(f)
  \/ \E k \in Cmd : cmd_step(k)
  \/ \E k \in Cmd, f \in Fence : signal_step(k, f)

Spec == Init /\ [][Next]_vars

-----------------------------------------------------------------------------
(* Properties                                                              *)

\* Every variable has its type; counts never go below zero or past their total.
TypeOK ==
  /\ state \in [Fence -> {"none", "initialized", "retired", "freed"}]
  /\ \A f \in Fence : /\ submitted_signalers[f] \in 0 .. Total[f]
                      /\ signaled_signalers[f] \in 0 .. Total[f]
                      /\ remaining_signals[f] \in 0 .. Total[f]
  /\ outstanding_waiters \in [Fence -> [Ip -> Nat]]
  /\ block_wakelock \in [Fence -> [Ip -> Nat]]
  /\ params_waiters \in [Fence -> SUBSET Ip]
  /\ signaled \in [Fence -> BOOLEAN] /\ signal_error \in [Fence -> BOOLEAN]
  /\ propagate \in [Fence -> BOOLEAN] /\ disable_poll \in [Fence -> BOOLEAN]
  /\ signaled_work \in [Fence -> BOOLEAN] /\ waited_work \in [Fence -> BOOLEAN]
  /\ table_errored \in [Fence -> BOOLEAN]
  /\ file \in [Fence -> {"none", "open", "closing", "closed"}]
  /\ poll_cb \in [Fence -> {"none", "listed", "notified", "refused", "gone"}]
  /\ block \in [Ip -> Nat]
  /\ pc \in [Cmd -> Holding \cup {"idle", "done"}]
  /\ todo \in [Cmd -> SUBSET Fence] /\ cur \in [Cmd -> SUBSET Fence]
  /\ seen \in [Cmd -> Nat]
  /\ wakelock_held \in [Cmd -> SUBSET (Fence \X Ip)]
  /\ answer \in [Cmd -> {"none", "firmware", "driver", "nobody"}]
  /\ processed \in [Cmd -> BOOLEAN]

\* The loop of a response over the out-fences.
Signalling == {"signal", "write", "sync", "count", "kick"}

\* k has submitted itself as a signaler of f and is not yet counted as signalled.
Owes(k, f) ==
  /\ f \in Out[k]
  /\ \/ pc[k] = "sent"
     \/ pc[k] \in Signalling /\ f \in todo[k]
     \/ pc[k] \in {"write", "sync", "count"} /\ f \in cur[k]

\* k was submitted as a signaler of f and will never signal it.
Abandoned(k, f) == f \in Out[k] /\ answer[k] = "nobody"

\* k is submitted as a waiter of f and has not been removed.
Awaits(k, f) ==
  /\ f \in In[k]
  /\ \/ pc[k] \in Signalling \cup {"sent"}
     \/ pc[k] \in {"waited", "kick_waited"} /\ f \in todo[k]

\* A command signals its out-fences in two critical sections, and another thread
\* may run between them: no signal of a driver is ever refused by either of them
\* (gcip_fence_array_signal_async ignores the result, the signal would be lost).
SignalAccepted ==
  \A k \in Cmd, f \in Fence : Owes(k, f) => signal_allowed(f)

\* The counts that decide when a fence retires are the commands in flight and the
\* abandoned ones: a command that fails before, in or after the submission leaves
\* no signaler and no waiter behind.
CountsExact ==
  \A f \in Fence : state[f] # "freed" =>
    /\ outstanding_signalers(f) =
         Cardinality({k \in Cmd : Owes(k, f) \/ Abandoned(k, f)})
    /\ \A ip \in Ip : outstanding_waiters[f][ip] =
         Cardinality({k \in Cmd : IpOf[k] = ip /\ Awaits(k, f)})

\* A fence whose ID has been returned to the pool is used by nobody: no command
\* has still to signal it or waits for it, and no thread is in the operation of
\* the sync-unit fence that retiring freed.
RetiredIsSettled ==
  \A f \in Fence : state[f] \in {"retired", "freed"} =>
    /\ file[f] # "open"
    /\ \A k \in Cmd : ~Owes(k, f) /\ ~Awaits(k, f)

\* The wakelocks of ip recorded in the fences, numbered within each fence.
Recorded(ip) == UNION {{f} \X (1 .. block_wakelock[f][ip]) : f \in Fence}

\* The wakelocks of ip that a submission has acquired and not yet recorded, by
\* the fence it acquired each for.
InHand(ip) ==
  {p \in Cmd \X Fence :
     \/ pc[p[1]] \in {"in", "both"} /\ IpOf[p[1]] = ip /\ p[2] \in In[p[1]]
     \/ <<p[2], ip>> \in wakelock_held[p[1]]}

\* Every block wakelock is accounted for: the IP is held once for each wakelock
\* recorded in a fence and once for each a submission has acquired and not yet
\* recorded.  At the end none is left.
WakelocksAccounted ==
  \A ip \in Ip :
    block[ip] = Cardinality(Recorded(ip)) + Cardinality(InHand(ip))

\* While a signaler is outstanding, the block of every IP registered as a waiter
\* is held for the fence, though its waiters may have left: the signaler IP may
\* still notify it.
BlockHeldForSignaler ==
  \A f \in Fence, ip \in Ip :
    (live(f) /\ outstanding_signalers(f) > 0 /\ ip \in params_waiters[f])
      => block_wakelock[f][ip] > 0

\* A wakelock kept for an outstanding signaler is not forgotten: when no signaler
\* is outstanding, the work that releases it is queued or about to be.
PendedWakelockReleased ==
  \A f \in Fence, ip \in Ip :
    /\ block_wakelock[f][ip] >= outstanding_waiters[f][ip]
    /\ block_wakelock[f][ip] > outstanding_waiters[f][ip] =>
         \/ outstanding_signalers(f) > 0
         \/ waited_work[f]
         \/ \E k \in Cmd : pc[k] \in {"kick", "kick_waited"} /\ f \in cur[k]

\* The kernel's count and the table agree in the end although firmware, which
\* takes no lock, and the kernel both decrement the table: a fence counted as
\* signalled by all is unblocked, so nobody can be refused as late and yet find
\* the fence blocked.
AllSignaledUnblocks ==
  \A f \in Fence : all_signalers_signaled(f) => signaled[f]

\* No wakeup is lost: a poll callback stays listed on an unblocked fence only
\* while polling is disabled.
PollNotLost ==
  \A f \in Fence : poll_cb[f] = "listed" /\ signaled[f] => disable_poll[f]

\* The driver has signalled f for the failed command k, which firmware has not
\* processed.
FailedFor(k, f) ==
  /\ f \in Out[k] /\ answer[k] = "driver" /\ ~processed[k]
  /\ f \notin todo[k] /\ (f \in cur[k] => pc[k] # "write")

\* A failed command is never taken for a success: a fence that the driver has
\* signalled for it is not found unblocked without an error, by firmware in the
\* table or by pollers in the kernel fence, whatever firmware signals meanwhile.
FailureIsVisible ==
  \A k \in Cmd, f \in Fence : (live(f) /\ FailedFor(k, f)) =>
    /\ remaining_signals[f] = 0 => table_errored[f]
    /\ signaled[f] => signal_error[f]

\* k has signalled f, by its firmware or by the driver on its behalf.
HasSignalled(k, f) ==
  /\ f \in Out[k]
  /\ \/ processed[k]
     \/ pc[k] \in {"sync", "count", "kick"} /\ f \in cur[k]
     \/ pc[k] \in Signalling
          /\ f \notin todo[k] \cup cur[k]
     \/ pc[k] \in {"waited", "kick_waited", "done"} /\ answer[k] = "driver"

\* A fence in use is unblocked only when it has been signalled as many times as
\* it has signalers.
UnblockedByAll ==
  \A f \in Fence : (live(f) /\ signaled[f])
    => Cardinality({k \in Cmd : HasSignalled(k, f)}) >= Total[f]

\* Once submitted, a command signals its out-fences whatever happens to it.
SubmittedIsSignalled ==
  \A f \in Fence, k \in Cmd :
    (live(f) /\ f \in Out[k] /\ pc[k] = "done") => HasSignalled(k, f)

\* A fence retires only when nobody is left waiting to be told of its signal.
RetiredNotPolled ==
  \A f \in Fence : state[f] = "retired" => poll_cb[f] # "listed"

=============================================================================
