----------------------------- MODULE EdgetpuIkv -----------------------------
(***************************************************************************)
(* In-kernel VII: the commands of a device group on their way through the  *)
(* gcip mailbox (gcip-mailbox.c: awaiters, wait list, reference counts,    *)
(* time-outs, responses, cancellation) with the edgetpu callbacks and the  *)
(* device group's pending and ready lists behind it (edgetpu-ikv.c,        *)
(* edgetpu-ikv-mailbox-ops.c, edgetpu-device-group.c).                     *)
(*                                                                         *)
(* A command, its awaiter and its edgetpu_ikv_response are one identity c. *)
(* A section under wait_list_lock or under the group's ikv_resp_lock is    *)
(* one step; the sender, the time-out worker, the interrupt handler, the   *)
(* threads that flush the response queue and the thread that cancels or    *)
(* disbands a group interleave between the sections.  The response queue   *)
(* itself (indices, wrap bit, its lock) is not this module's subject.      *)
(***************************************************************************)
EXTENDS Naturals, FiniteSets

CONSTANTS
    Group,          \* device groups; the client_id of a command is its group
    Cmd,            \* commands, each sent at most once
    GroupOf,        \* the group that sends a command
    SeqOf,          \* the sequence number the runtime chose for a command
    Credits,        \* EDGETPU_NUM_VII_CREDITS_PER_CLIENT
    Timed,          \* which of TRUE, FALSE occur: FALSE is GCIP_MAILBOX_CMD_FLAGS_NO_TIMEOUT
    Fenced,         \* commands with an unsignalled in-fence
    PromptEnqueue   \* a command is in the wait list before its time-out expires

NoCmd == "no command"

ASSUME GroupAssumption ==
    IsFiniteSet(Group) /\ {"irq", "watchdog", "nobody"} \cap Group = {}
ASSUME CmdAssumption ==
    IsFiniteSet(Cmd) /\ NoCmd \notin Cmd /\ GroupOf \in [Cmd -> Group]
\* The runtime does not reuse a number; 0 is what a response holds before it is set.
ASSUME SeqAssumption ==
    /\ SeqOf \in [Cmd -> Nat \ {0}]
    /\ \A c, d \in Cmd : GroupOf[c] = GroupOf[d] /\ SeqOf[c] = SeqOf[d] => c = d
ASSUME ParameterAssumption ==
    /\ Credits \in Nat \ {0} /\ Timed \subseteq BOOLEAN /\ Fenced \subseteq Cmd
    /\ PromptEnqueue \in BOOLEAN

VARIABLES
    pc,         \* how far the sender of a command is
    threaded,   \* commands sent by a thread that waits for their in-fence
    tx,         \* ikv->cmd_queue_lock: the command that is being enqueued
    resp_seq,   \* sequence number in the awaiter's response
    wait_list,  \* mailbox->wait_list: the commands with an entry
    pos,        \* position of an entry: the list is in the order of pushes
    pushes,     \* number of pushes so far
    refs,       \* awaiter->refs; 0 once the awaiter is freed
    timer,      \* awaiter->timeout_work
    fw,         \* a command in the firmware, then its response
    by,         \* who fetched the response from the queue
    list,       \* which of the group's lists the edgetpu_ikv_response is on
    processed,  \* the responses with ikv_resp->processed
    signalled,  \* number of times signal_response_waiters ran for a command
    credits,    \* group->available_vii_credits
    status,     \* group->status, "freed" after the last put
    writer,     \* what the holder of group->lock for writing is doing
    crash,      \* progress of edgetpu_fatal_error_notify after a firmware crash
    notified,   \* groups edgetpu_fatal_error_notify is done with
    \* history: commands for which gcip_mailbox_cancel_awaiter has returned
    cancelled

sender == <<pc, threaded, tx, resp_seq>>
waiting == <<wait_list, pos, pushes>>
response == <<fw, by>>
driver == <<list, processed, signalled, credits>>
groups == <<status, writer, crash, notified>>
vars == <<pc, threaded, tx, resp_seq, wait_list, pos, pushes, refs, timer, fw, by, list, processed,
          signalled, credits, status, writer, crash, notified, cancelled>>

\* "armed": the awaiter exists and its timer runs.  "queued": under cmd_queue_lock,
\* there is room.  "pending": on the group's pending list.  "pushed": in the wait list.
\* "fence": send_cmd_thread_fn waits.  "errresp", "errsignal": it answers by itself, with
\* the preallocated awaiter.
Sending == {"armed", "queued", "pending", "pushed", "fail"}
Threading == Sending \cup {"fence", "errresp", "errsignal"}
\* "fired": the work runs.  "removed": it took an entry off the wait list.  "signal": the
\* response is ready, its waiters are not yet signalled.  "exit": about
\* to drop its reference.
TimerRuns == {"fired", "removed", "signal", "exit"}
\* "exec": in the firmware.  "queued": in the response queue.  "fetched": in the array of a
\* consumer.  "matched": taken off the wait list.  "handler": about to call the arrived
\* handler.  "signal", "exit": as above.
Handling == {"matched", "handler", "signal", "exit"}

TypeOK ==
    /\ pc \in [Cmd -> Threading \cup {"idle", "sent", "failed", "answered", "abandoned"}]
    /\ threaded \subseteq Cmd
    /\ tx \in Cmd \cup {NoCmd}
    /\ resp_seq \in [Cmd -> Nat]
    /\ wait_list \subseteq Cmd /\ pos \in [Cmd -> Nat] /\ pushes \in Nat
    /\ refs \in [Cmd -> 0 .. 3]
    /\ timer \in [Cmd -> TimerRuns \cup {"none", "armed", "done"}]
    /\ fw \in [Cmd -> Handling \cup {"none", "exec", "queued", "fetched", "done", "lost"}]
    /\ by \in [Cmd -> Group \cup {"irq", "watchdog", "nobody"}]
    /\ list \in [Cmd -> {"none", "pending", "canceling", "canceled", "clearing", "cleared",
                         "ready", "released"}]
    /\ processed \subseteq Cmd
    /\ signalled \in [Cmd -> Nat]
    /\ credits \in [Group -> 0 .. Credits]
    /\ status \in [Group -> {"ready", "errored", "disbanded", "freed"}]
    /\ writer \in [Group -> {"none", "cancel", "stop", "close", "flush", "drain", "clear", "put"}]
    /\ crash \in {"no", "crashed", "flush", "notify"}
    /\ notified \subseteq Group
    /\ cancelled \subseteq Cmd

Init ==
    /\ pc = [c \in Cmd |-> "idle"] /\ threaded = {}
    /\ tx = NoCmd /\ resp_seq = [c \in Cmd |-> 0]
    /\ wait_list = {} /\ pos = [c \in Cmd |-> 0] /\ pushes = 0
    /\ refs = [c \in Cmd |-> 0] /\ timer = [c \in Cmd |-> "none"]
    /\ fw = [c \in Cmd |-> "none"] /\ by = [c \in Cmd |-> "nobody"]
    /\ list = [c \in Cmd |-> "none"] /\ processed = {}
    /\ signalled = [c \in Cmd |-> 0] /\ credits = [g \in Group |-> Credits]
    /\ status = [g \in Group |-> "ready"] /\ writer = [g \in Group |-> "none"]
    /\ crash = "no" /\ notified = {} /\ cancelled = {}

-----------------------------------------------------------------------------
(* Helpers. *)

Commands(g) == {c \in Cmd : GroupOf[c] = g}

\* gcip_mailbox_awaiter_dec_refs: the awaiter is freed at 0.
awaiter_dec_refs(c) == refs' = [refs EXCEPT ![c] = @ - 1]

\* The entry gcip_mailbox_del_wait_resp takes for c: the first with its sequence number.
SameSeq(c) == {d \in wait_list : resp_seq[d] = resp_seq[c]}
FirstMatch(c) == CHOOSE d \in SameSeq(c) : \A e \in SameSeq(c) : pos[d] <= pos[e]

\* gcip_mailbox_del_wait_resp finds an entry, and drops that entry's reference.
\* (Mutant: the reference stays.)
del_wait_resp_keeps_ref(c) ==
    /\ SameSeq(c) # {}
    /\ wait_list' = wait_list \ {FirstMatch(c)}
    /\ UNCHANGED <<pos, pushes, refs>>
del_wait_resp(c) ==
    /\ SameSeq(c) # {}
    /\ wait_list' = wait_list \ {FirstMatch(c)}
    /\ awaiter_dec_refs(FirstMatch(c))
    /\ UNCHANGED <<pos, pushes>>

\* edgetpu_ikv_does_response_match_waiter: the response of c against the entry of d.
does_response_match_waiter(c, d) ==
    SeqOf[c] = resp_seq[d] /\ GroupOf[c] = GroupOf[d]

\* signal_response_waiters: refunds the credit and signals the out-fences.
signal_response_waiters(c) ==
    /\ credits' = [credits EXCEPT ![GroupOf[c]] = @ + 1]
    /\ signalled' = [signalled EXCEPT ![c] = @ + 1]

\* Without force, a response already processed is left alone.  (Mutant: it is not.)
already_processed_never(c) == FALSE
already_processed(c) == c \in processed

\* The part of edgetpu_ikv_process_response under ikv_resp_lock; signal_response_waiters
\* follows without the lock.
process_response(c) ==
    /\ processed' = processed \cup {c}
    /\ list' = [list EXCEPT ![c] = "ready"]

\* cancel_delayed_work: TRUE if the work was still waiting for its timer, and then the
\* caller drops the work's reference.  (Mutant: it drops it in any case.)
cancel_delayed_work_unchecked(c) ==
    /\ timer' = [timer EXCEPT ![c] = IF @ = "armed" THEN "done" ELSE @]
    /\ awaiter_dec_refs(c)
cancel_delayed_work(c) ==
    \/ /\ timer[c] = "armed"
       /\ timer' = [timer EXCEPT ![c] = "done"]
       /\ awaiter_dec_refs(c)
    \/ /\ timer[c] # "armed"
       /\ UNCHANGED <<timer, refs>>

\* The sync variant also waits for a running work to end.
cancel_waits(c) == timer[c] \in TimerRuns

\* group->lock for reading, and for writing: no sender and no other writer.
CanRead(g) == writer[g] = "none"
\* A thread that waited for a fence holds neither group->lock nor group->vii_lock.
ViiUnlocked(g) == \A c \in Commands(g) \ threaded : pc[c] \notin Sending
CanWrite(g) == writer[g] = "none" /\ ViiUnlocked(g)

-----------------------------------------------------------------------------
(* Sending: edgetpu_device_group_send_vii_command holds the group's locks, *)
(* the thread of a fenced command does not.                                *)

\* gcip_mailbox_put_cmd_flags up to the enqueue.
put_cmd_flags(c, timed) ==
    /\ pc' = [pc EXCEPT ![c] = "armed"]
    /\ refs' = [refs EXCEPT ![c] = IF timed THEN 2 ELSE 1]
    /\ timer' = [timer EXCEPT ![c] = IF timed THEN "armed" ELSE "none"]

\* The group's checks and the credit.
send_allowed(c) ==
    LET g == GroupOf[c]
    IN  /\ pc[c] = "idle"
        /\ CanRead(g) /\ ViiUnlocked(g)
        /\ status[g] = "ready"
        /\ credits[g] > 0
        /\ credits' = [credits EXCEPT ![g] = @ - 1]

send_vii_command(c, timed) ==
    /\ send_allowed(c)
    /\ put_cmd_flags(c, timed)
    /\ UNCHANGED <<threaded, tx, resp_seq, waiting, response, list, processed, signalled, groups,
                   cancelled>>

\* With an in-fence to wait for, a thread is started and the ioctl returns.
send_vii_command_fenced(c) ==
    /\ send_allowed(c)
    /\ threaded' = threaded \cup {c}
    /\ pc' = [pc EXCEPT ![c] = "fence"]
    /\ UNCHANGED <<tx, resp_seq, waiting, refs, timer, response, list, processed, signalled,
                   groups, cancelled>>

\* send_cmd_thread_fn: the fence is signalled.
fence_signalled(c, timed) ==
    /\ pc[c] = "fence"
    /\ put_cmd_flags(c, timed)
    /\ UNCHANGED <<threaded, tx, resp_seq, waiting, response, driver, groups, cancelled>>

\* One reference, for the driver.  (Mutant: the count is not set.)
build_awaiter_uncounted(c) == UNCHANGED refs
build_awaiter_for_error_resp(c) == refs' = [refs EXCEPT ![c] = 1]

\* It has an error or does not come.
fence_error(c) ==
    /\ pc[c] = "fence"
    /\ pc' = [pc EXCEPT ![c] = "errresp"]
    /\ build_awaiter_for_error_resp(c)
    /\ UNCHANGED <<threaded, tx, resp_seq, waiting, timer, response, driver, groups, cancelled>>

\* kthread_should_stop: the command is abandoned.
fence_stopped(c) ==
    /\ pc[c] = "fence" /\ writer[GroupOf[c]] = "stop"
    /\ pc' = [pc EXCEPT ![c] = "abandoned"]
    /\ UNCHANGED <<threaded, tx, resp_seq, waiting, refs, timer, response, driver, groups,
                   cancelled>>

\* (Mutant: the response keeps the number it was allocated with.)
set_resp_elem_seq_never(c) == UNCHANGED resp_seq
set_resp_elem_seq(c) == resp_seq' = [resp_seq EXCEPT ![c] = SeqOf[c]]

\* gcip_mailbox_enqueue_cmd under cmd_queue_lock: there is room for the command.
enqueue_room(c) ==
    /\ pc[c] = "armed" /\ tx = NoCmd
    /\ tx' = c
    /\ pc' = [pc EXCEPT ![c] = "queued"]
    /\ set_resp_elem_seq(c)
    /\ UNCHANGED <<threaded, waiting, refs, timer, response, driver, groups, cancelled>>

\* wait_for_tx_queue_not_full gives up.
enqueue_full(c) ==
    /\ pc[c] = "armed" /\ tx = NoCmd
    /\ pc' = [pc EXCEPT ![c] = "fail"]
    /\ UNCHANGED <<threaded, tx, resp_seq, waiting, refs, timer, response, driver, groups,
                   cancelled>>

\* edgetpu_ikv_before_enqueue_wait_list: fences are submitted, the response is pending.
before_enqueue_wait_list(c) ==
    /\ pc[c] = "queued"
    /\ pc' = [pc EXCEPT ![c] = "pending"]
    /\ list' = [list EXCEPT ![c] = "pending"]
    /\ UNCHANGED <<threaded, tx, resp_seq, waiting, refs, timer, response, processed, signalled,
                   credits, groups, cancelled>>

\* No memory for the entry, or a fence refuses the submission.
before_enqueue_fails(c) ==
    /\ pc[c] = "queued"
    /\ pc' = [pc EXCEPT ![c] = "fail"]
    /\ tx' = NoCmd
    /\ UNCHANGED <<threaded, resp_seq, waiting, refs, timer, response, driver, groups, cancelled>>

\* gcip_mailbox_push_wait_resp: a reference for the arrived handler, then the entry.
push_wait_resp(c) ==
    /\ pc[c] = "pending"
    /\ pc' = [pc EXCEPT ![c] = "pushed"]
    /\ refs' = [refs EXCEPT ![c] = @ + 1]
    /\ wait_list' = wait_list \cup {c}
    /\ pos' = [pos EXCEPT ![c] = pushes]
    /\ pushes' = pushes + 1
    /\ UNCHANGED <<threaded, tx, resp_seq, timer, response, driver, groups, cancelled>>

\* The command is copied to the queue, the doorbell rings, the lock is dropped.
enqueue_cmd(c) ==
    /\ pc[c] = "pushed"
    /\ pc' = [pc EXCEPT ![c] = "sent"]
    /\ tx' = NoCmd
    /\ fw' = [fw EXCEPT ![c] = IF crash = "no" THEN "exec" ELSE "lost"]
    /\ UNCHANGED <<threaded, resp_seq, waiting, refs, timer, by, driver, groups, cancelled>>

\* "Refund credit if command failed to send."  (Mutant: it is lost.)
refund_credit_never(c) == UNCHANGED credits
refund_credit(c) == credits' = [credits EXCEPT ![GroupOf[c]] = @ + 1]

\* Error path of put_cmd_flags and of its callers: the timer is cancelled, the awaiter is
\* freed whatever its count; the ioctl frees the response and refunds the credit.
put_cmd_error(c) ==
    /\ pc[c] = "fail" /\ c \notin threaded /\ ~cancel_waits(c)
    /\ pc' = [pc EXCEPT ![c] = "failed"]
    /\ timer' = [timer EXCEPT ![c] = "done"]
    /\ refs' = [refs EXCEPT ![c] = 0]
    /\ refund_credit(c)
    /\ UNCHANGED <<threaded, tx, resp_seq, waiting, response, list, processed, signalled, groups,
                   cancelled>>

\* The thread sends an error response instead, with the preallocated awaiter.
put_cmd_error_threaded(c) ==
    /\ pc[c] = "fail" /\ c \in threaded /\ ~cancel_waits(c)
    /\ pc' = [pc EXCEPT ![c] = "errresp"]
    /\ timer' = [timer EXCEPT ![c] = "done"]
    /\ build_awaiter_for_error_resp(c)
    /\ UNCHANGED <<threaded, tx, resp_seq, waiting, response, driver, groups, cancelled>>

\* edgetpu_ikv_process_response without force.
send_error_resp(c) ==
    /\ pc[c] = "errresp"
    /\ IF already_processed(c)
       THEN pc' = [pc EXCEPT ![c] = "answered"] /\ UNCHANGED <<list, processed>>
       ELSE pc' = [pc EXCEPT ![c] = "errsignal"] /\ process_response(c)
    /\ UNCHANGED <<threaded, tx, resp_seq, waiting, refs, timer, response, signalled, credits,
                   groups, cancelled>>

signal_error_resp(c) ==
    /\ pc[c] = "errsignal"
    /\ signal_response_waiters(c)
    /\ pc' = [pc EXCEPT ![c] = "answered"]
    /\ UNCHANGED <<threaded, tx, resp_seq, waiting, refs, timer, response, list, processed,
                   groups, cancelled>>

-----------------------------------------------------------------------------
(* gcip_mailbox_async_cmd_timeout_work. *)

timeout_fires(c) ==
    /\ timer[c] = "armed"
    /\ PromptEnqueue => pc[c] \in {"pushed", "sent"}
    /\ timer' = [timer EXCEPT ![c] = "fired"]
    /\ UNCHANGED <<sender, waiting, refs, response, driver, groups, cancelled>>

\* After a removal the timedout handler is called.  (Mutant: it is not.)
after_removal_exit == "exit"
after_removal == "removed"

timeout_removes(c) ==
    /\ timer[c] = "fired"
    /\ del_wait_resp(c)
    /\ timer' = [timer EXCEPT ![c] = after_removal]
    /\ UNCHANGED <<sender, response, driver, groups, cancelled>>

\* The entry is gone: the command has been answered or cancelled.
timeout_too_late(c) ==
    /\ timer[c] = "fired"
    /\ SameSeq(c) = {}
    /\ timer' = [timer EXCEPT ![c] = "exit"]
    /\ UNCHANGED <<sender, waiting, refs, response, driver, groups, cancelled>>

handle_awaiter_timedout(c) ==
    /\ timer[c] = "removed" /\ ~already_processed(c)
    /\ process_response(c)
    /\ timer' = [timer EXCEPT ![c] = "signal"]
    /\ UNCHANGED <<sender, waiting, refs, response, signalled, credits, groups, cancelled>>

timedout_already_processed(c) ==
    /\ timer[c] = "removed" /\ already_processed(c)
    /\ timer' = [timer EXCEPT ![c] = "exit"]
    /\ UNCHANGED <<sender, waiting, refs, response, driver, groups, cancelled>>

timedout_signals(c) ==
    /\ timer[c] = "signal"
    /\ signal_response_waiters(c)
    /\ timer' = [timer EXCEPT ![c] = "exit"]
    /\ UNCHANGED <<sender, waiting, refs, response, list, processed, groups, cancelled>>

timeout_exit(c) ==
    /\ timer[c] = "exit"
    /\ awaiter_dec_refs(c)
    /\ timer' = [timer EXCEPT ![c] = "done"]
    /\ UNCHANGED <<sender, waiting, response, driver, groups, cancelled>>

-----------------------------------------------------------------------------
(* Responses. *)

\* The firmware answers.
firmware_responds(c) ==
    /\ fw[c] = "exec"
    /\ fw' = [fw EXCEPT ![c] = "queued"]
    /\ UNCHANGED <<sender, waiting, refs, timer, by, driver, groups, cancelled>>

\* gcip_mailbox_fetch_responses: everything in the queue goes to consumer k, which
\* handles one response after the other.
Queued == {c \in Cmd : fw[c] = "queued"}
BusyWith(k) == {c \in Cmd : by[c] = k /\ fw[c] \in Handling \cup {"fetched"}}
fetch_responses(k) ==
    /\ fw' = [c \in Cmd |-> IF c \in Queued THEN "fetched" ELSE fw[c]]
    /\ by' = [c \in Cmd |-> IF c \in Queued THEN k ELSE by[c]]

edgetpu_ikv_handle_irq ==
    /\ BusyWith("irq") = {} /\ Queued # {}
    /\ fetch_responses("irq")
    /\ UNCHANGED <<sender, waiting, refs, timer, driver, groups, cancelled>>

\* Sequence numbers of a client are distinct, so the entry that matches is c's own.
handle_response(c) ==
    /\ fw[c] = "fetched"
    /\ \A d \in BusyWith(by[c]) : fw[d] \notin Handling
    /\ \E d \in wait_list :
          /\ does_response_match_waiter(c, d)
          /\ wait_list' = wait_list \ {d}
    /\ fw' = [fw EXCEPT ![c] = "matched"]
    /\ UNCHANGED <<sender, pos, pushes, refs, timer, by, driver, groups, cancelled>>

\* Nobody waits for the response any more: it is dropped.
handle_response_unmatched(c) ==
    /\ fw[c] = "fetched"
    /\ \A d \in BusyWith(by[c]) : fw[d] \notin Handling
    /\ ~ \E d \in wait_list : does_response_match_waiter(c, d)
    /\ fw' = [fw EXCEPT ![c] = "done"]
    /\ UNCHANGED <<sender, waiting, refs, timer, by, driver, groups, cancelled>>

\* The time-out is cancelled without waiting for it.
arrived_cancels_timeout(c) ==
    /\ fw[c] = "matched"
    /\ cancel_delayed_work(c)
    /\ fw' = [fw EXCEPT ![c] = "handler"]
    /\ UNCHANGED <<sender, waiting, by, driver, groups, cancelled>>

handle_awaiter_arrived(c) ==
    /\ fw[c] = "handler" /\ ~already_processed(c)
    /\ process_response(c)
    /\ fw' = [fw EXCEPT ![c] = "signal"]
    /\ UNCHANGED <<sender, waiting, refs, timer, by, signalled, credits, groups, cancelled>>

arrived_already_processed(c) ==
    /\ fw[c] = "handler" /\ already_processed(c)
    /\ fw' = [fw EXCEPT ![c] = "exit"]
    /\ UNCHANGED <<sender, waiting, refs, timer, by, driver, groups, cancelled>>

arrived_signals(c) ==
    /\ fw[c] = "signal"
    /\ signal_response_waiters(c)
    /\ fw' = [fw EXCEPT ![c] = "exit"]
    /\ UNCHANGED <<sender, waiting, refs, timer, by, list, processed, groups, cancelled>>

handle_response_exit(c) ==
    /\ fw[c] = "exit"
    /\ awaiter_dec_refs(c)
    /\ fw' = [fw EXCEPT ![c] = "done"]
    /\ UNCHANGED <<sender, waiting, timer, by, driver, groups, cancelled>>

\* edgetpu_device_group_get_vii_response: the runtime consumes a ready response.
get_vii_response(c) ==
    LET g == GroupOf[c]
    IN  /\ list[c] = "ready"
        /\ CanRead(g) /\ ViiUnlocked(g)
        /\ status[g] = "ready"
        /\ list' = [list EXCEPT ![c] = "released"]
        /\ awaiter_dec_refs(c)
        /\ UNCHANGED <<sender, waiting, timer, response, processed, signalled, credits, groups,
                       cancelled>>

-----------------------------------------------------------------------------
(* Cancellation.  Both users take all pending responses of the group to a  *)
(* list of their own, marked processed, and cancel one after the other.    *)

Pending(g) == {c \in Commands(g) : list[c] = "pending"}
On(g, l) == {c \in Commands(g) : list[c] = l}

take_pending(g, l) ==
    /\ processed' = processed \cup Pending(g)
    /\ list' = [c \in Cmd |-> IF c \in Pending(g) THEN l ELSE list[c]]
    /\ UNCHANGED <<signalled, credits>>

\* gcip_mailbox_cancel_awaiter, its part under wait_list_lock.  (Mutant: there is none.)
cancel_entry_kept(c) == UNCHANGED <<waiting, refs>>
cancel_entry(c) ==
    \/ del_wait_resp(c)
    \/ SameSeq(c) = {} /\ UNCHANGED <<waiting, refs>>

\* The firmware dies with what it was executing.
firmware_crash ==
    /\ crash = "no"
    /\ crash' = "crashed"
    /\ fw' = [c \in Cmd |-> IF fw[c] = "exec" THEN "lost" ELSE fw[c]]
    /\ UNCHANGED <<sender, waiting, refs, timer, by, driver, status, writer, notified, cancelled>>

\* edgetpu_fatal_error_notify: first the response queue is flushed.
fatal_error_flush ==
    /\ crash = "crashed"
    /\ crash' = "flush"
    /\ fetch_responses("watchdog")
    /\ UNCHANGED <<sender, waiting, refs, timer, driver, status, writer, notified, cancelled>>

fatal_error_flushed ==
    /\ crash = "flush"
    /\ BusyWith("watchdog") = {}
    /\ crash' = "notify"
    /\ UNCHANGED <<sender, waiting, refs, timer, response, driver, status, writer, notified,
                   cancelled>>

\* edgetpu_group_fatal_error_notify with an error the firmware cannot answer after:
\* edgetpu_ikv_cancel runs under group->lock.
fatal_error_notify(g) ==
    /\ crash = "notify" /\ g \notin notified
    /\ CanWrite(g)
    /\ status[g] \in {"ready", "errored"}
    /\ status' = [status EXCEPT ![g] = "errored"]
    /\ writer' = [writer EXCEPT ![g] = "cancel"]
    /\ notified' = notified \cup {g}
    /\ take_pending(g, "canceling")
    /\ UNCHANGED <<sender, waiting, refs, timer, response, crash, cancelled>>

ikv_cancel_entry(c) ==
    /\ list[c] = "canceling"
    /\ On(GroupOf[c], "canceled") = {}
    /\ cancel_entry(c)
    /\ list' = [list EXCEPT ![c] = "canceled"]
    /\ UNCHANGED <<sender, timer, response, processed, signalled, credits, groups, cancelled>>

\* cancel_delayed_work_sync, and by force the CANCELED response: group->lock keeps the
\* runtime away from it.
ikv_cancel_response(c) ==
    /\ list[c] = "canceled" /\ ~cancel_waits(c)
    /\ cancel_delayed_work(c)
    /\ cancelled' = cancelled \cup {c}
    /\ process_response(c)
    /\ signal_response_waiters(c)
    /\ UNCHANGED <<sender, waiting, response, groups>>

ikv_cancel_end(g) ==
    /\ writer[g] = "cancel"
    /\ On(g, "canceling") \cup On(g, "canceled") = {}
    /\ writer' = [writer EXCEPT ![g] = "none"]
    /\ UNCHANGED <<sender, waiting, refs, timer, response, driver, status, crash, notified,
                   cancelled>>

\* edgetpu_group_fatal_error_notify with an error of this client only: nothing is cancelled.
client_fatal_error_notify(g) ==
    /\ CanWrite(g) /\ status[g] = "ready"
    /\ status' = [status EXCEPT ![g] = "errored"]
    /\ UNCHANGED <<sender, waiting, refs, timer, response, driver, writer, crash, notified,
                   cancelled>>

-----------------------------------------------------------------------------
(* edgetpu_device_group_disband. *)

\* edgetpu_group_clear_pending_commands stops the threads that wait for fences.
disband(g) ==
    /\ CanWrite(g) /\ status[g] \in {"ready", "errored"}
    /\ writer' = [writer EXCEPT ![g] = "stop"]
    /\ UNCHANGED <<sender, waiting, refs, timer, response, driver, status, crash, notified,
                   cancelled>>

threads_stopped(g) ==
    /\ writer[g] = "stop"
    /\ \A c \in Commands(g) : pc[c] \notin Threading
    /\ writer' = [writer EXCEPT ![g] = "close"]
    /\ UNCHANGED <<sender, waiting, refs, timer, response, driver, status, crash, notified,
                   cancelled>>

\* edgetpu_mailbox_deactivate_vii: on RELEASE_VMBOX the firmware answers or drops every
\* command of the client,
release_vmbox(g, answered) ==
    /\ writer[g] = "close"
    /\ answered \subseteq {c \in Commands(g) : fw[c] = "exec"}
    /\ fw' = [c \in Cmd |-> IF c \in answered THEN "queued"
                            ELSE IF c \in Commands(g) /\ fw[c] = "exec" THEN "lost"
                            ELSE fw[c]]
    /\ writer' = [writer EXCEPT ![g] = "flush"]
    /\ UNCHANGED <<sender, waiting, refs, timer, by, driver, status, crash, notified, cancelled>>

\* then edgetpu_ikv_flush_responses consumes the queue.
flush_responses(g) ==
    /\ writer[g] = "flush"
    /\ fetch_responses(g)
    /\ writer' = [writer EXCEPT ![g] = "drain"]
    /\ UNCHANGED <<sender, waiting, refs, timer, driver, status, crash, notified, cancelled>>

\* A crashed firmware has no open PASID: there is nothing to release or flush.
vmbox_closed(g) ==
    /\ writer[g] = "close" /\ crash # "no"
    /\ writer' = [writer EXCEPT ![g] = "drain"]
    /\ UNCHANGED <<sender, waiting, refs, timer, response, driver, status, crash, notified,
                   cancelled>>

\* edgetpu_group_clear_responses
clear_responses(g) ==
    /\ writer[g] = "drain" /\ BusyWith(g) = {}
    /\ writer' = [writer EXCEPT ![g] = "clear"]
    /\ take_pending(g, "clearing")
    /\ UNCHANGED <<sender, waiting, refs, timer, response, status, crash, notified, cancelled>>

clear_entry(c) ==
    /\ list[c] = "clearing"
    /\ On(GroupOf[c], "cleared") = {}
    /\ cancel_entry(c)
    /\ list' = [list EXCEPT ![c] = "cleared"]
    /\ UNCHANGED <<sender, timer, response, processed, signalled, credits, groups, cancelled>>

\* cancel_delayed_work_sync and gcip_mailbox_release_awaiter
clear_release(c) ==
    /\ list[c] = "cleared" /\ ~cancel_waits(c)
    /\ timer' = [timer EXCEPT ![c] = IF @ = "armed" THEN "done" ELSE @]
    /\ refs' = [refs EXCEPT ![c] = @ - (IF timer[c] = "armed" THEN 2 ELSE 1)]
    /\ list' = [list EXCEPT ![c] = "released"]
    /\ cancelled' = cancelled \cup {c}
    /\ UNCHANGED <<sender, waiting, response, processed, signalled, credits, groups>>

\* The responses that were ready are released, and the group is disbanded.
clear_ready(g) ==
    /\ writer[g] = "clear"
    /\ On(g, "clearing") \cup On(g, "cleared") = {}
    /\ refs' = [c \in Cmd |-> refs[c] - (IF c \in On(g, "ready") THEN 1 ELSE 0)]
    /\ list' = [c \in Cmd |-> IF c \in On(g, "ready") THEN "released" ELSE list[c]]
    /\ writer' = [writer EXCEPT ![g] = "put"]
    /\ status' = [status EXCEPT ![g] = "disbanded"]
    /\ UNCHANGED <<sender, waiting, timer, response, processed, signalled, credits, crash,
                   notified, cancelled>>

\* edgetpu_device_group_put: the last reference of the group.
device_group_put(g) ==
    /\ writer[g] = "put"
    /\ writer' = [writer EXCEPT ![g] = "none"]
    /\ status' = [status EXCEPT ![g] = "freed"]
    /\ UNCHANGED <<sender, waiting, refs, timer, response, driver, crash, notified, cancelled>>

-----------------------------------------------------------------------------
\* The parameters that say how a command is sent are drawn here.
IssueStep(c) ==
    \/ c \notin Fenced /\ \E timed \in Timed : send_vii_command(c, timed)
    \/ c \in Fenced /\ send_vii_command_fenced(c)

SendStep(c) ==
    \/ \E timed \in Timed : fence_signalled(c, timed)
    \/ fence_error(c) \/ fence_stopped(c)
    \/ enqueue_room(c) \/ enqueue_full(c)
    \/ before_enqueue_wait_list(c) \/ before_enqueue_fails(c)
    \/ push_wait_resp(c) \/ enqueue_cmd(c)
    \/ put_cmd_error(c) \/ put_cmd_error_threaded(c)
    \/ send_error_resp(c) \/ signal_error_resp(c)

TimeoutStep(c) ==
    \/ timeout_fires(c) \/ timeout_removes(c) \/ timeout_too_late(c)
    \/ handle_awaiter_timedout(c) \/ timedout_already_processed(c) \/ timedout_signals(c)
    \/ timeout_exit(c)

ResponseStep(c) ==
    \/ handle_response(c) \/ handle_response_unmatched(c)
    \/ arrived_cancels_timeout(c)
    \/ handle_awaiter_arrived(c) \/ arrived_already_processed(c) \/ arrived_signals(c)
    \/ handle_response_exit(c)

CancelStep(c) ==
    \/ ikv_cancel_entry(c) \/ ikv_cancel_response(c)
    \/ clear_entry(c) \/ clear_release(c)

FatalErrorStep ==
    \/ fatal_error_flush \/ fatal_error_flushed

GroupStep(g) ==
    \/ ikv_cancel_end(g) \/ threads_stopped(g)
    \/ \E answered \in SUBSET Cmd : release_vmbox(g, answered)
    \/ flush_responses(g) \/ vmbox_closed(g)
    \/ clear_responses(g) \/ clear_ready(g) \/ device_group_put(g)

Next ==
    \/ \E c \in Cmd :
          \/ IssueStep(c) \/ SendStep(c) \/ TimeoutStep(c) \/ ResponseStep(c) \/ CancelStep(c)
          \/ firmware_responds(c) \/ get_vii_response(c)
    \/ edgetpu_ikv_handle_irq \/ firmware_crash \/ FatalErrorStep
    \/ \E g \in Group :
          \/ fatal_error_notify(g) \/ client_fatal_error_notify(g) \/ disband(g)
          \/ GroupStep(g)

Spec == Init /\ [][Next]_vars

\* Workers, consumers and kernel threads that can run do run, an armed timer expires, and
\* a started cancellation goes on.  Neither the firmware nor the runtime owes anything.
Fairness ==
    /\ \A c \in Cmd : WF_vars(SendStep(c)) /\ WF_vars(TimeoutStep(c))
                      /\ WF_vars(ResponseStep(c)) /\ WF_vars(CancelStep(c))
    /\ \A g \in Group : WF_vars(GroupStep(g)) /\ WF_vars(fatal_error_notify(g))
    /\ WF_vars(edgetpu_ikv_handle_irq) /\ WF_vars(FatalErrorStep)

FairSpec == Spec /\ Fairness

-----------------------------------------------------------------------------
(* Properties. *)

B(p) == IF p THEN 1 ELSE 0

\* The three kinds of holders of an awaiter: the driver, from the allocation until it
\* releases the response; the wait list or the handler of an arrived response; the
\* time-out work.
HasAwaiter == Sending \cup {"sent", "errresp", "errsignal", "answered"}
DriverHolds(c) == pc[c] \in HasAwaiter /\ list[c] # "released"
ArrivalHolds(c) == c \in wait_list \/ fw[c] \in Handling
TimeoutHolds(c) == timer[c] \in TimerRuns \cup {"armed"}

\* awaiter->refs counts exactly its holders, through time-outs that race with responses
\* and cancellations: nothing is freed under a holder, nothing is left behind.
AwaiterRefsExact ==
    \A c \in Cmd : refs[c] = B(DriverHolds(c)) + B(ArrivalHolds(c)) + B(TimeoutHolds(c))

\* A pending response can still be completed: its command is in the wait list, or the
\* arrived or the timedout handler is on its way to it.
PendingIsTracked ==
    \A c \in Cmd : list[c] = "pending" /\ pc[c] \in {"pushed", "sent"}
        => c \in wait_list \/ fw[c] \in {"matched", "handler"} \/ timer[c] = "removed"

\* An entry of the wait list belongs to a command whose response is still outstanding.
EntryHasWaiter ==
    \A c \in wait_list : list[c] \in {"pending", "canceling", "clearing"}

\* As long as a command with a time-out is in the wait list, its time-out is to come.
Covered(c) == timer[c] \in {"none", "armed", "fired"}
TimeoutCoversWait == \A c \in wait_list : Covered(c)

\* A command in the wait list does not lose its time-out: whatever time-outs, responses,
\* cancellations and disbanding meet, one that waits without a time-out came to the list
\* without it, because gcip_mailbox_put_cmd_flags starts the time-out before the enqueue.
CoverKept == [][\A c \in wait_list \cap wait_list' : Covered(c) => Covered(c)']_vars

\* Every credit a group lacks belongs to a command whose waiters are not signalled.
Charged(g) == {c \in Commands(g) : /\ pc[c] \notin {"idle", "failed"}
                                   /\ signalled[c] = 0}
CreditsBalanced == \A g \in Group : credits[g] + Cardinality(Charged(g)) = Credits

\* Credits and out-fences of a command are given back once, even if its response, its
\* time-out and its cancellation meet.
SignalledOnce == \A c \in Cmd : signalled[c] <= 1

\* "AFTER the return of this function, you can guarantee that arrived or timedout callback
\* will not be called for @awaiter" (gcip_mailbox_cancel_awaiter).
NoHandlerAfterCancel ==
    \A c \in cancelled : fw[c] \notin {"matched", "handler"} /\ timer[c] # "removed"

\* The handlers lock the ikv_resp_lock of the command's group: the group must be there.
GroupOutlivesHandlers ==
    \A c \in Cmd : fw[c] = "handler" \/ timer[c] = "removed" => status[GroupOf[c]] # "freed"

\* signal_response_waiters reads the response it is given: its awaiter must not be freed.
ResponseOutlivesSignal ==
    \A c \in Cmd : pc[c] = "errsignal" => refs[c] > 0

\* A command that was sent is answered, by the firmware, a time-out or a cancellation,
\* unless its group is disbanded.
EveryCommandAnswered ==
    \A c \in Cmd : pc[c] = "sent" ~> signalled[c] > 0 \/ list[c] = "released"
=============================================================================
