--------------------------- MODULE LwisTransaction ---------------------------
(***************************************************************************)
(* The transactions of one client of a camera device: lists of register    *)
(* accesses that user space submits, that an event, a fence or nothing     *)
(* triggers, and that a worker thread executes in the order of a queue.    *)
(* Event handlers, fence signals, the worker and a flush share the lists   *)
(* under transaction_lock, which processing a transaction drops.           *)
(* Source: lwis_transaction.c, the trigger fences of lwis_fence.c, and     *)
(* enable, disable and reset of lwis_ioctl.c.                              *)
(***************************************************************************)
EXTENDS Naturals, FiniteSets, SequencesExt

CONSTANTS
    Transaction,    \* what user space submits
    Instance,       \* memory for the iterations of repeating transactions
    Infos,          \* what each transaction may ask for
    Handler,        \* contexts in which the trigger event is emitted
    Fence,          \* trigger fences
    Limit,          \* transaction_process_limit
    AnyTime,        \* user space also submits while the client is disabled or flushed
    None

Object == Transaction \cup Instance

\* struct lwis_transaction_info
Info == [trigger : {"none", "next", "every", "fence", "cleanup"}, fence : Fence \cup {None},
         in_event_context : BOOLEAN, high_priority : BOOLEAN, entries : Nat]
NoInfo == [trigger |-> "none", fence |-> None, in_event_context |-> FALSE,
           high_priority |-> FALSE, entries |-> 0]

ASSUME TransactionAssumption ==
    /\ Transaction \cap Instance = {} /\ None \notin Object \cup Fence
    /\ {"free", "worker", "submit", "flush"} \cap Handler = {}
    /\ Limit \in Nat \ {0} /\ AnyTime \in BOOLEAN
    /\ \A t \in Transaction : Infos[t] \subseteq Info

VARIABLES
    lock,               \* who holds transaction_lock from one step to the next
    is_enabled,
    mem,                \* each struct lwis_transaction
    io_entries,         \* info.io_entries of each submitted transaction
    event_list, cleanup_list, pending, queue,
    work_queued,        \* the work is queued at the kthread worker
    worker,             \* lwis_process_transactions_in_queue
    handler,            \* lwis_transaction_event_trigger
    submitter,          \* the transaction that a submit is adding to its fence
    fence,              \* trigger fences, and the callbacks under way
    flush,              \* lwis_transaction_client_flush and its caller
    flush_state,
    answer              \* the completion fence of each transaction

vars == <<lock, is_enabled, mem, io_entries, event_list, cleanup_list, pending, queue,
          work_queued, worker, handler, submitter, fence, flush, flush_state, answer>>

lists == <<event_list, cleanup_list, pending, queue>>
memory == <<mem, io_entries>>

TypeOK ==
    /\ lock \in {"free", "worker", "submit", "flush"} \cup Handler
    /\ is_enabled \in BOOLEAN /\ work_queued \in BOOLEAN
    /\ mem \in [Object -> [st : {"none", "live", "freed"}, info : Info,
                           parent : Transaction \cup {None},    \* owner of the io_entries
                           error : BOOLEAN,                     \* resp->error_code
                           remaining : Nat]]                    \* remaining_entries_to_process
    /\ io_entries \in [Transaction -> {"none", "live", "freed", "freed twice"}]
    /\ event_list \in Seq(Transaction) /\ cleanup_list \in Seq(Transaction)
    /\ pending \subseteq Transaction /\ queue \in Seq(Object)
    /\ worker \in [pc : {"idle", "start", "scan", "io", "finish", "after", "emit"},
                   it : Object \cup {None}, next : Object \cup {None},
                   failed : BOOLEAN, fences : SUBSET Transaction]
    /\ handler \in [Handler -> [pc : {"idle", "walk", "context", "resume", "kick"},
                                it : Object \cup {None}, next : Transaction \cup {None},
                                fences : SUBSET Transaction]]
    /\ submitter \in Transaction \cup {None}
    /\ fence \in [Fence -> [status : {"unsignaled", "signaled", "error"},
                            locked : BOOLEAN, callbacks : SUBSET Transaction,
                            calling : Transaction \cup {None}, kick : BOOLEAN,
                            fences : SUBSET Transaction]]
    /\ flush \in [pc : {"none", "lists", "pending", "mark", "enqueue", "wait", "queue",
                        "cleanup", "cleanup_io", "power"},
                  for : {"disable", "reset"}, runs : 0..2, it : Transaction \cup {None}]
    /\ flush_state \in {"NOT_FLUSHING", "FLUSHING"}
    /\ answer \in [Transaction -> {"none", "moved", "signaled", "lost", "released"}]

Init ==
    /\ lock = "free" /\ is_enabled = FALSE /\ work_queued = FALSE
    /\ mem = [o \in Object |-> [st |-> "none", info |-> NoInfo, parent |-> None,
                                error |-> FALSE, remaining |-> 0]]
    /\ io_entries = [t \in Transaction |-> "none"]
    /\ event_list = <<>> /\ cleanup_list = <<>> /\ pending = {} /\ queue = <<>>
    /\ worker = [pc |-> "idle", it |-> None, next |-> None, failed |-> FALSE, fences |-> {}]
    /\ handler = [h \in Handler |-> [pc |-> "idle", it |-> None, next |-> None,
                                     fences |-> {}]]
    /\ submitter = None
    /\ fence = [f \in Fence |-> [status |-> "unsignaled", locked |-> FALSE, callbacks |-> {},
                                 calling |-> None, kick |-> FALSE, fences |-> {}]]
    /\ flush = [pc |-> "none", for |-> "reset", runs |-> 0, it |-> None]
    /\ flush_state = "NOT_FLUSHING"
    /\ answer = [t \in Transaction |-> "none"]

-----------------------------------------------------------------------------
(* Lists and memory. *)

First(s) == IF s = <<>> THEN None ELSE s[1]
Position(s, o) == CHOOSE i \in 1..Len(s) : s[i] = o
\* The node after o, read from o itself.
Next_(s, o) == IF Position(s, o) = Len(s) THEN None ELSE s[Position(s, o) + 1]
list_add(s, o) == <<o>> \o s
list_del(s, o) == RemoveAt(s, Position(s, o))
In(o, s) == o \in ToSet(s)
Live(o) == mem[o].st = "live"

\* The node is on the list and its memory is valid: it can be followed.
OnList(o, s) == In(o, s) /\ Live(o)

Repeating(o) == mem[o].info.trigger = "every"
OwnFences(S) == S \cap Transaction      \* iterations have no completion fences

Freed(S) == [o \in Object |-> IF o \in S THEN [mem[o] EXCEPT !.st = "freed"] ELSE mem[o]]
EntriesFreed(S) ==
    [t \in Transaction |->
        LET n == Cardinality({o \in S : mem[o].parent = t})
        IN  IF n = 0 THEN io_entries[t]
            ELSE IF n = 1 /\ io_entries[t] = "live" THEN "freed" ELSE "freed twice"]

\* lwis_transaction_free of each of S, the io_entries included.
lwis_transaction_free(S) == mem' = Freed(S) /\ io_entries' = EntriesFreed(S)

\* The end of process_transaction: an iteration leaves the io_entries to its parent.
free_processed(o) ==
    /\ mem' = Freed({o})
    /\ io_entries' = IF Repeating(o) THEN io_entries ELSE EntriesFreed({o})

\* cancel_transaction without lists for the answers: nothing is signalled.
released(S) == [t \in Transaction |-> IF t \in S THEN "released" ELSE answer[t]]
moved(S) == [t \in Transaction |-> IF t \in S THEN "moved" ELSE answer[t]]
\* lwis_fences_pending_signal_emit
signaled(S) == [t \in Transaction |-> IF t \in S THEN "signaled" ELSE answer[t]]

-----------------------------------------------------------------------------
(* Submit and cancel. *)

Idle == flush.pc = "none"

\* A high-priority transaction goes to the head of the queue, before whatever the worker is
\* executing.
add_transaction_to_queue_locked(o, info) ==
    queue' = IF info.high_priority THEN list_add(queue, o) ELSE Append(queue, o)

\* lwis_transaction_submit_locked, up to the lock of the trigger fence.  A fence that is
\* signalled already is an error for a transaction that is not level triggered.
lwis_transaction_submit(t) ==
    /\ mem[t].st = "none" /\ lock = "free" /\ (AnyTime \/ (is_enabled /\ Idle))
    /\ \E info \in Infos[t] :
         /\ info.trigger = "fence" => fence[info.fence].status = "unsignaled"
         /\ mem' = [mem EXCEPT ![t] = [st |-> "live", info |-> info, parent |-> t,
                                       error |-> FALSE, remaining |-> info.entries]]
         /\ io_entries' = [io_entries EXCEPT ![t] = "live"]
         /\ lock' = IF info.trigger = "fence" THEN "submit" ELSE lock
         /\ submitter' = IF info.trigger = "fence" THEN t ELSE submitter
         /\ IF info.trigger = "none" THEN add_transaction_to_queue_locked(t, info)
            ELSE queue' = queue
         /\ work_queued' = (work_queued \/ info.trigger = "none")
         /\ event_list' = IF info.trigger \in {"next", "every"} THEN Append(event_list, t)
                          ELSE event_list
         /\ cleanup_list' = IF info.trigger = "cleanup" THEN Append(cleanup_list, t)
                            ELSE cleanup_list
    /\ UNCHANGED <<is_enabled, pending, worker, handler, fence, flush, flush_state, answer>>

\* dma_fence_add_callback takes the lock of the fence and looks at it again.
trigger_fence_add_transaction ==
    /\ submitter # None
    /\ LET t == submitter
           f == mem[t].info.fence
       IN  /\ ~fence[f].locked
           /\ IF fence[f].status = "unsignaled"
              THEN /\ fence' = [fence EXCEPT ![f].callbacks = @ \cup {t}]
                   /\ pending' = pending \cup {t}
                   /\ UNCHANGED memory
              ELSE lwis_transaction_free({t}) /\ UNCHANGED <<fence, pending>>
    /\ lock' = "free" /\ submitter' = None
    /\ UNCHANGED <<is_enabled, event_list, cleanup_list, queue, work_queued, worker, handler,
                   flush, flush_state, answer>>

\* A waiting transaction is marked, and cancelled when it is triggered.
lwis_transaction_cancel(t) ==
    /\ lock = "free" /\ (In(t, event_list \o cleanup_list) \/ t \in pending)
    /\ ~mem[t].error
    /\ mem' = [mem EXCEPT ![t].error = TRUE]
    /\ UNCHANGED <<lock, is_enabled, io_entries, lists, work_queued, worker, handler,
                   submitter, fence, flush, flush_state, answer>>

-----------------------------------------------------------------------------
(* Events.  The list is walked with the next node saved; a transaction     *)
(* that runs in the event context is executed with the lock dropped.       *)

lwis_transaction_event_trigger(h) ==
    /\ handler[h].pc = "idle" /\ lock = "free" /\ event_list # <<>>
    /\ lock' = h
    /\ handler' = [handler EXCEPT ![h] = [pc |-> "walk", it |-> First(event_list),
                                          next |-> None, fences |-> {}]]
    /\ UNCHANGED <<is_enabled, memory, lists, work_queued, worker, submitter, fence, flush,
                   flush_state, answer>>

\* A cancelled transaction goes to the worker, which answers it.
event_trigger_cancelled(h) ==
    LET t == handler[h].it
    IN  /\ handler[h].pc = "walk" /\ t # None /\ OnList(t, event_list) /\ mem[t].error
        /\ add_transaction_to_queue_locked(t, mem[t].info)
        /\ event_list' = list_del(event_list, t)
        /\ handler' = [handler EXCEPT ![h].it = Next_(event_list, t)]
        /\ UNCHANGED <<lock, is_enabled, memory, cleanup_list, pending, work_queued, worker,
                       submitter, fence, flush, flush_state, answer>>

\* defer_transaction_locked of o, which the event has triggered through t.
defer_transaction_locked(h, t, o) ==
    IF mem[t].info.in_event_context
    THEN /\ lock' = "free" /\ queue' = queue
         /\ handler' = [handler EXCEPT ![h].pc = "context", ![h].it = o,
                                       ![h].next = Next_(event_list, t)]
    ELSE /\ lock' = lock /\ add_transaction_to_queue_locked(o, mem[t].info)
         /\ handler' = [handler EXCEPT ![h].it = Next_(event_list, t)]

event_trigger_next(h) ==
    LET t == handler[h].it
    IN  /\ handler[h].pc = "walk" /\ t # None /\ OnList(t, event_list) /\ ~mem[t].error
        /\ mem[t].info.trigger = "next"
        /\ defer_transaction_locked(h, t, t)
        /\ event_list' = list_del(event_list, t)
        /\ UNCHANGED <<is_enabled, memory, cleanup_list, pending, work_queued, worker,
                       submitter, fence, flush, flush_state, answer>>

\* new_repeating_transaction_iteration: the iteration shares the io_entries of its parent.
\* Without memory for it the parent itself goes to the queue, as failed.
event_trigger_every(h) ==
    LET t == handler[h].it
    IN  /\ handler[h].pc = "walk" /\ t # None /\ OnList(t, event_list) /\ ~mem[t].error
        /\ mem[t].info.trigger = "every"
        /\ \/ \E o \in Instance :
                /\ mem[o].st = "none"
                /\ mem' = [mem EXCEPT ![o] = [mem[t] EXCEPT !.remaining = mem[t].info.entries]]
                /\ defer_transaction_locked(h, t, o)
                /\ event_list' = event_list
           \/ /\ mem' = [mem EXCEPT ![t].error = TRUE]
              /\ add_transaction_to_queue_locked(t, mem[t].info)
              /\ event_list' = list_del(event_list, t)
              /\ handler' = [handler EXCEPT ![h].it = Next_(event_list, t)]
              /\ lock' = lock
        /\ UNCHANGED <<is_enabled, io_entries, cleanup_list, pending, work_queued, worker,
                       submitter, fence, flush, flush_state, answer>>

\* process_transaction in the event context: all entries at once, outside the lock.
event_context_processed(h) ==
    LET o == handler[h].it
    IN  /\ handler[h].pc = "context" /\ lock = "free"
        /\ Live(o) /\ io_entries[mem[o].parent] = "live"
        /\ free_processed(o)
        /\ answer' = moved(OwnFences({o}))
        /\ handler' = [handler EXCEPT ![h].pc = "resume", ![h].it = handler[h].next,
                                      ![h].fences = @ \cup OwnFences({o})]
        /\ UNCHANGED <<lock, is_enabled, lists, work_queued, worker, submitter, fence, flush,
                       flush_state>>

\* The lock is taken again and the walk goes on with the saved node.
event_trigger_resume(h) ==
    /\ handler[h].pc = "resume" /\ lock = "free"
    /\ lock' = h /\ handler' = [handler EXCEPT ![h].pc = "walk"]
    /\ UNCHANGED <<is_enabled, memory, lists, work_queued, worker, submitter, fence, flush,
                   flush_state, answer>>

event_trigger_unlock(h) ==
    /\ handler[h].pc = "walk" /\ handler[h].it = None
    /\ lock' = "free" /\ handler' = [handler EXCEPT ![h].pc = "kick"]
    /\ UNCHANGED <<is_enabled, memory, lists, work_queued, worker, submitter, fence, flush,
                   flush_state, answer>>

\* After the lock: the worker is queued when the queue is not empty.
event_trigger_kick(h) ==
    /\ handler[h].pc = "kick"
    /\ work_queued' = (work_queued \/ queue # <<>>)
    /\ answer' = signaled(handler[h].fences)
    /\ handler' = [handler EXCEPT ![h].pc = "idle", ![h].fences = {}]
    /\ UNCHANGED <<lock, is_enabled, memory, lists, worker, submitter, fence, flush,
                   flush_state>>

-----------------------------------------------------------------------------
(* Trigger fences.  dma_fence_signal calls the callbacks with the lock of  *)
(* the fence held.                                                         *)

lwis_fence_write_status(f) ==
    /\ fence[f].status = "unsignaled" /\ ~fence[f].locked
    /\ \E s \in {"signaled", "error"} :
         fence' = [fence EXCEPT ![f].status = s, ![f].locked = TRUE]
    /\ UNCHANGED <<lock, is_enabled, memory, lists, work_queued, worker, handler, submitter,
                   flush, flush_state, answer>>

\* The callback marks itself as triggered, then waits for transaction_lock.
fence_signal_transaction_cb(f) ==
    /\ fence[f].locked /\ fence[f].calling = None
    /\ \E t \in fence[f].callbacks :
         fence' = [fence EXCEPT ![f].calling = t, ![f].callbacks = @ \ {t}]
    /\ UNCHANGED <<lock, is_enabled, memory, lists, work_queued, worker, handler, submitter,
                   flush, flush_state, answer>>

\* A transaction that is no longer pending was executed or cancelled.
lwis_transaction_fence_trigger(f) ==
    LET t == fence[f].calling
        ok == fence[f].status = "signaled"
    IN  /\ t # None /\ ~fence[f].kick /\ lock = "free"
        /\ pending' = pending \ {t}
        /\ fence' = [fence EXCEPT ![f].kick = TRUE,
                        ![f].fences = IF t \in pending /\ ~ok THEN {t} ELSE {}]
        /\ IF t \in pending /\ ~ok
           THEN lwis_transaction_free({t}) /\ answer' = moved({t})
           ELSE UNCHANGED <<memory, answer>>
        /\ IF t \in pending /\ ok THEN add_transaction_to_queue_locked(t, mem[t].info)
           ELSE queue' = queue
        /\ UNCHANGED <<lock, is_enabled, event_list, cleanup_list, work_queued, worker,
                       handler, submitter, flush, flush_state>>

fence_trigger_kick(f) ==
    /\ fence[f].kick
    /\ work_queued' = (work_queued \/ queue # <<>>)
    /\ answer' = signaled(fence[f].fences)
    /\ fence' = [fence EXCEPT ![f].kick = FALSE, ![f].calling = None, ![f].fences = {}]
    /\ UNCHANGED <<lock, is_enabled, memory, lists, worker, handler, submitter, flush,
                   flush_state>>

fence_signal_unlock(f) ==
    /\ fence[f].locked /\ fence[f].calling = None /\ fence[f].callbacks = {}
    /\ fence' = [fence EXCEPT ![f].locked = FALSE]
    /\ UNCHANGED <<lock, is_enabled, memory, lists, work_queued, worker, handler, submitter,
                   flush, flush_state, answer>>

-----------------------------------------------------------------------------
(* The worker.  It keeps the next node while it executes a transaction     *)
(* with the lock dropped; the transaction itself stays in the queue.       *)

worker_run ==
    /\ worker.pc = "idle" /\ work_queued
    /\ work_queued' = FALSE /\ worker' = [worker EXCEPT !.pc = "start"]
    /\ UNCHANGED <<lock, is_enabled, memory, lists, handler, submitter, fence, flush,
                   flush_state, answer>>

lwis_process_transactions_in_queue ==
    /\ worker.pc = "start" /\ lock = "free"
    /\ lock' = "worker" /\ worker' = [worker EXCEPT !.pc = "scan", !.it = First(queue)]
    /\ UNCHANGED <<is_enabled, memory, lists, work_queued, handler, submitter, fence, flush,
                   flush_state, answer>>

process_cancelled ==
    LET o == worker.it
    IN  /\ worker.pc = "scan" /\ o # None /\ is_enabled /\ OnList(o, queue) /\ mem[o].error
        /\ queue' = list_del(queue, o)
        /\ lwis_transaction_free({o}) /\ answer' = moved(OwnFences({o}))
        /\ worker' = [worker EXCEPT !.it = Next_(queue, o),
                                    !.fences = @ \cup OwnFences({o})]
        /\ UNCHANGED <<lock, is_enabled, event_list, cleanup_list, pending, work_queued,
                       handler, submitter, fence, flush, flush_state>>

process_transaction ==
    LET o == worker.it
    IN  /\ worker.pc = "scan" /\ o # None /\ is_enabled /\ OnList(o, queue) /\ ~mem[o].error
        /\ lock' = "free"
        /\ worker' = [worker EXCEPT !.pc = "io", !.next = Next_(queue, o)]
        /\ UNCHANGED <<is_enabled, memory, lists, work_queued, handler, submitter, fence,
                       flush, flush_state, answer>>

\* The register accesses of this run, up to Limit entries or the first error.
process_io_entries ==
    LET o == worker.it
    IN  /\ worker.pc = "io" /\ Live(o) /\ io_entries[mem[o].parent] = "live"
        /\ \E failed \in BOOLEAN : worker' = [worker EXCEPT !.pc = "finish", !.failed = failed]
        /\ UNCHANGED <<lock, is_enabled, memory, lists, work_queued, handler, submitter, fence,
                       flush, flush_state, answer>>

\* With entries left the transaction stays; otherwise it leaves the queue and is freed.
process_transaction_finish ==
    LET o == worker.it
        limited == ~mem[o].info.in_event_context /\ mem[o].remaining > Limit
        left == IF limited THEN mem[o].remaining - Limit ELSE 0
    IN  /\ worker.pc = "finish" /\ lock = "free" /\ OnList(o, queue)
        /\ IF left > 0 /\ ~worker.failed
           THEN /\ mem' = [mem EXCEPT ![o].remaining = left]
                /\ worker' = [worker EXCEPT !.pc = "after"]
                /\ UNCHANGED <<io_entries, queue, answer>>
           ELSE /\ queue' = list_del(queue, o)
                /\ free_processed(o) /\ answer' = moved(OwnFences({o}))
                /\ worker' = [worker EXCEPT !.pc = "after", !.it = None,
                                            !.fences = @ \cup OwnFences({o})]
        /\ UNCHANGED <<lock, is_enabled, event_list, cleanup_list, pending, work_queued,
                       handler, submitter, fence, flush, flush_state>>

\* Mutant: the transaction that was stopped at the limit is left for the next trigger.
process_broken_transaction_mutant ==
    LET o == worker.it
    IN  /\ worker.pc = "after" /\ lock = "free" /\ o # None /\ OnList(o, queue)
        /\ worker' = [worker EXCEPT !.pc = "emit", !.it = None]
        /\ UNCHANGED <<lock, is_enabled, memory, lists, work_queued, handler, submitter, fence,
                       flush, flush_state, answer>>

\* Stopped at the limit: the work is queued again, or during a flush the transaction is
\* cancelled.
process_broken_transaction ==
    LET o == worker.it
    IN  /\ worker.pc = "after" /\ lock = "free" /\ o # None /\ OnList(o, queue)
        /\ IF flush_state = "NOT_FLUSHING"
           THEN /\ work_queued' = TRUE
                /\ worker' = [worker EXCEPT !.pc = "emit", !.it = None]
                /\ UNCHANGED <<queue, memory, answer>>
           ELSE /\ queue' = list_del(queue, o) /\ work_queued' = work_queued
                /\ lwis_transaction_free({o}) /\ answer' = moved(OwnFences({o}))
                /\ worker' = [worker EXCEPT !.pc = "emit", !.it = None,
                                            !.fences = @ \cup OwnFences({o})]
        /\ UNCHANGED <<lock, is_enabled, event_list, cleanup_list, pending, handler, submitter,
                       fence, flush, flush_state>>

\* The next node, as it was saved.
process_continue ==
    /\ worker.pc = "after" /\ lock = "free" /\ worker.it = None
    /\ lock' = "worker"
    /\ worker' = [worker EXCEPT !.pc = "scan", !.it = worker.next, !.next = None]
    /\ UNCHANGED <<is_enabled, memory, lists, work_queued, handler, submitter, fence, flush,
                   flush_state, answer>>

RunEnds == flush' = [flush EXCEPT !.runs = IF @ > 0 THEN @ - 1 ELSE 0]

process_emit ==
    /\ worker.pc = "emit"
    /\ answer' = signaled(worker.fences)
    /\ worker' = [worker EXCEPT !.pc = "idle", !.fences = {}]
    /\ RunEnds
    /\ UNCHANGED <<lock, is_enabled, memory, lists, work_queued, handler, submitter, fence,
                   flush_state>>

\* The end of the loop; or the client is disabled, the rest stays in the queue, and the answers
\* collected so far are neither given nor freed.
process_return ==
    /\ worker.pc = "scan" /\ (is_enabled => worker.it = None)
    /\ lock' = "free"
    /\ IF worker.it = None
       THEN worker' = [worker EXCEPT !.pc = "emit"] /\ UNCHANGED <<flush, answer>>
       ELSE /\ worker' = [worker EXCEPT !.pc = "idle", !.it = None, !.fences = {}]
            /\ answer' = [t \in Transaction |-> IF t \in worker.fences THEN "lost" ELSE answer[t]]
            /\ RunEnds
    /\ UNCHANGED <<is_enabled, memory, lists, work_queued, handler, submitter, fence,
                   flush_state>>

-----------------------------------------------------------------------------
(* Enable, disable, reset, and the flush in the last two.                  *)

cmd_device_enable ==
    /\ ~is_enabled /\ Idle
    /\ is_enabled' = TRUE
    /\ UNCHANGED <<lock, memory, lists, work_queued, worker, handler, submitter, fence, flush,
                   flush_state, answer>>

cmd_device_disable ==
    /\ is_enabled /\ Idle
    /\ flush' = [flush EXCEPT !.pc = "lists", !.for = "disable"]
    /\ UNCHANGED <<lock, is_enabled, memory, lists, work_queued, worker, handler, submitter,
                   fence, flush_state, answer>>

cmd_device_reset ==
    /\ Idle
    /\ flush' = [flush EXCEPT !.pc = "lists", !.for = "reset"]
    /\ UNCHANGED <<lock, is_enabled, memory, lists, work_queued, worker, handler, submitter,
                   fence, flush_state, answer>>

lwis_transaction_client_flush ==
    /\ flush.pc = "lists" /\ lock = "free"
    /\ lock' = "flush"
    /\ lwis_transaction_free(ToSet(event_list)) /\ answer' = released(ToSet(event_list))
    /\ event_list' = <<>>
    /\ flush' = [flush EXCEPT !.pc = "pending"]
    /\ UNCHANGED <<is_enabled, cleanup_list, pending, queue, work_queued, worker, handler,
                   submitter, fence, flush_state>>

\* Mutant: the transaction stays in the map.
flush_pending_mutant ==
    /\ flush.pc = "pending"
    /\ \E t \in pending :
         /\ t \in fence[mem[t].info.fence].callbacks => ~fence[mem[t].info.fence].locked
         /\ Live(t)
         /\ lwis_transaction_free({t}) /\ answer' = released({t})
         /\ fence' = [fence EXCEPT ![mem[t].info.fence].callbacks = @ \ {t}]
    /\ UNCHANGED <<lock, is_enabled, lists, work_queued, worker, handler, submitter, flush,
                   flush_state>>

\* dma_fence_remove_callback takes the lock of the fence, unless the callback has begun.
flush_pending ==
    /\ flush.pc = "pending"
    /\ \E t \in pending :
         /\ t \in fence[mem[t].info.fence].callbacks => ~fence[mem[t].info.fence].locked
         /\ lwis_transaction_free({t}) /\ answer' = released({t})
         /\ pending' = pending \ {t}
         /\ fence' = [fence EXCEPT ![mem[t].info.fence].callbacks = @ \ {t}]
    /\ UNCHANGED <<lock, is_enabled, event_list, cleanup_list, queue, work_queued, worker,
                   handler, submitter, flush, flush_state>>

flush_unlock ==
    /\ flush.pc = "pending" /\ pending = {}
    /\ lock' = "free" /\ flush' = [flush EXCEPT !.pc = "mark"]
    /\ UNCHANGED <<is_enabled, memory, lists, work_queued, worker, handler, submitter, fence,
                   flush_state, answer>>

flush_mark ==
    /\ flush.pc = "mark"
    /\ flush_state' = "FLUSHING" /\ flush' = [flush EXCEPT !.pc = "enqueue"]
    /\ UNCHANGED <<lock, is_enabled, memory, lists, work_queued, worker, handler, submitter,
                   fence, answer>>

\* kthread_flush_worker: the run under way and the one that is queued.
lwis_flush_device_worker ==
    /\ flush.pc = "enqueue"
    /\ flush' = [flush EXCEPT !.pc = "wait",
                    !.runs = (IF worker.pc = "idle" THEN 0 ELSE 1) + (IF work_queued THEN 1 ELSE 0)]
    /\ UNCHANGED <<lock, is_enabled, memory, lists, work_queued, worker, handler, submitter,
                   fence, flush_state, answer>>

flush_unmark ==
    /\ flush.pc = "wait" /\ flush.runs = 0
    /\ flush_state' = "NOT_FLUSHING" /\ flush' = [flush EXCEPT !.pc = "queue"]
    /\ UNCHANGED <<lock, is_enabled, memory, lists, work_queued, worker, handler, submitter,
                   fence, answer>>

\* "The transaction queue should be empty after canceling all transactions, but check anyway."
cancel_all_transactions_in_queue_locked ==
    /\ flush.pc = "queue" /\ lock = "free"
    /\ lwis_transaction_free(ToSet(queue)) /\ answer' = released(ToSet(queue))
    /\ queue' = <<>>
    /\ flush' = [flush EXCEPT !.pc = IF flush.for = "disable" THEN "cleanup" ELSE "none"]
    /\ UNCHANGED <<lock, is_enabled, event_list, cleanup_list, pending, work_queued, worker,
                   handler, submitter, fence, flush_state>>

\* Cleanup transactions run now, without answers, unless they were cancelled.
lwis_transaction_client_cleanup ==
    /\ flush.pc = "cleanup" /\ lock = "free" /\ cleanup_list # <<>>
    /\ LET t == First(cleanup_list)
       IN  /\ cleanup_list' = Tail(cleanup_list)
           /\ IF mem[t].error
              THEN /\ lwis_transaction_free({t}) /\ answer' = released({t})
                   /\ flush' = flush
              ELSE /\ flush' = [flush EXCEPT !.pc = "cleanup_io", !.it = t]
                   /\ UNCHANGED <<memory, answer>>
    /\ UNCHANGED <<lock, is_enabled, event_list, pending, queue, work_queued, worker, handler,
                   submitter, fence, flush_state>>

cleanup_processed ==
    /\ flush.pc = "cleanup_io" /\ lock = "free"
    /\ free_processed(flush.it) /\ answer' = released({flush.it})
    /\ flush' = [flush EXCEPT !.pc = "cleanup", !.it = None]
    /\ UNCHANGED <<lock, is_enabled, lists, work_queued, worker, handler, submitter, fence,
                   flush_state>>

\* The end of cmd_device_disable; a device that cannot be powered down stays enabled.
disable_power ==
    /\ flush.pc = "cleanup" /\ lock = "free" /\ cleanup_list = <<>>
    /\ \E powered_down \in BOOLEAN : is_enabled' = ~powered_down
    /\ flush' = [flush EXCEPT !.pc = "none"]
    /\ UNCHANGED <<lock, memory, lists, work_queued, worker, handler, submitter, fence,
                   flush_state, answer>>

-----------------------------------------------------------------------------
EventStep(h) ==
    \/ lwis_transaction_event_trigger(h) \/ event_trigger_cancelled(h) \/ event_trigger_next(h)
    \/ event_trigger_every(h) \/ event_context_processed(h) \/ event_trigger_resume(h)
    \/ event_trigger_unlock(h) \/ event_trigger_kick(h)

FenceStep(f) ==
    \/ lwis_fence_write_status(f) \/ fence_signal_transaction_cb(f)
    \/ lwis_transaction_fence_trigger(f) \/ fence_trigger_kick(f) \/ fence_signal_unlock(f)

WorkerStep ==
    \/ worker_run \/ lwis_process_transactions_in_queue \/ process_cancelled
    \/ process_transaction \/ process_io_entries \/ process_transaction_finish
    \/ process_broken_transaction \/ process_continue \/ process_return \/ process_emit

FlushStep ==
    \/ cmd_device_disable \/ cmd_device_reset \/ lwis_transaction_client_flush
    \/ flush_pending \/ flush_unlock \/ flush_mark \/ lwis_flush_device_worker \/ flush_unmark
    \/ cancel_all_transactions_in_queue_locked \/ lwis_transaction_client_cleanup
    \/ cleanup_processed \/ disable_power

Next ==
    \/ cmd_device_enable
    \/ \E t \in Transaction : lwis_transaction_submit(t) \/ lwis_transaction_cancel(t)
    \/ trigger_fence_add_transaction
    \/ \E h \in Handler : EventStep(h)
    \/ \E f \in Fence : FenceStep(f)
    \/ WorkerStep
    \/ FlushStep

Spec == Init /\ [][Next]_vars

-----------------------------------------------------------------------------
Places(o) ==
    Cardinality({i \in DOMAIN event_list : event_list[i] = o})
    + Cardinality({i \in DOMAIN cleanup_list : cleanup_list[i] = o})
    + Cardinality({i \in DOMAIN queue : queue[i] = o})
    + (IF o \in pending THEN 1 ELSE 0)
    + (IF o = submitter THEN 1 ELSE 0)
    + (IF flush.pc = "cleanup_io" /\ flush.it = o THEN 1 ELSE 0)
    + Cardinality({h \in Handler : handler[h].pc = "context" /\ handler[h].it = o})

\* A transaction is in one place from its submission to its end: on the list of its event, in
\* the map of pending ones, in the queue, or with the thread that took it out to execute it.
\* None is leaked, none is queued twice, and nothing that is listed was freed, in whatever order
\* events, fences, cancellations, the worker and a flush get to it.
OnePlace == \A o \in Object : Places(o) = (IF Live(o) THEN 1 ELSE 0)

\* The worker has the queue to go through, or will have.
Served ==
    \/ work_queued
    \/ worker.pc \in {"start", "scan", "io", "finish"}
    \/ worker.pc = "after" /\ (worker.it # None \/ worker.next # None)
    \/ \E h \in Handler : handler[h].pc \notin {"idle"}
    \/ \E f \in Fence : fence[f].calling # None
    \/ flush.pc \notin {"none", "cleanup", "cleanup_io", "power"}

\* A transaction in the queue of an enabled client is not forgotten: the worker runs or is
\* queued, a trigger is about to queue it, or a flush is about to empty the queue.  The worker
\* stops at a limit, skips what comes behind its saved node, and is not queued again by most
\* of the code that appends.
QueuedIsServed == is_enabled /\ queue # <<>> => Served

HighPriority(o) == mem[o].info.high_priority

\* Only a high-priority transaction overtakes another: it enters at the head, any other at the
\* end, and one leaves the queue only when nothing but high-priority ones is before it.  The
\* worker, which executes one with the lock dropped and goes on from a node it has saved, keeps
\* to this whatever is put before or behind it or freed meanwhile; a flush takes out all.
QueueOrder ==
    [][\/ \E o \in Object : queue' = IF HighPriority(o)' THEN list_add(queue, o) ELSE Append(queue, o)
       \/ \E i \in DOMAIN queue :
            queue' = RemoveAt(queue, i) /\ \A j \in 1..i - 1 : HighPriority(queue[j])
       \/ flush.pc = "queue" /\ queue' = <<>>]_queue

\* The next step of a thread follows a node or reads a transaction that is still there.
NoUseAfterFree ==
    /\ worker.pc = "scan" /\ worker.it # None => OnList(worker.it, queue)
    /\ worker.pc \in {"io", "finish", "after"} /\ worker.it # None => Live(worker.it)
    /\ \A h \in Handler :
         handler[h].pc = "walk" /\ handler[h].it # None => OnList(handler[h].it, event_list)

\* The io_entries that an iteration shares with its parent are there while it is executed.
EntriesOutliveIteration ==
    worker.pc = "io" /\ Live(worker.it) => io_entries[mem[worker.it].parent] = "live"

\* The io_entries are freed once.
EntriesFreedOnce == \A t \in Transaction : io_entries[t] # "freed twice"

\* A transaction that was executed, or cancelled by the worker, signals its completion fence.
ExecutedIsSignaled == \A t \in Transaction : answer[t] # "lost"

\* A flush, too, signals the completion fences of the transactions it cancels.
CancelledIsSignaled == \A t \in Transaction :
    answer[t] = "released" => mem[t].info.trigger = "cleanup"

\* No thread waits, with transaction_lock, for the lock of a fence whose signaller waits for
\* transaction_lock.
NoLockCycle ==
    ~ \E f \in Fence :
        /\ fence[f].locked /\ fence[f].calling # None /\ ~fence[f].kick
        /\ \/ lock = "submit" /\ mem[submitter].info.fence = f
           \/ lock = "flush" /\ \E t \in pending :
                mem[t].info.fence = f /\ t \in fence[f].callbacks
=============================================================================
