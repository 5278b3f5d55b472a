----------------------------- MODULE AocService -----------------------------
(***************************************************************************)
(* A queue service between the AP and the always-on processor (AoC), and    *)
(* the life of the AoC itself: clients that read and write messages through *)
(* an open file, the mailbox interrupt that wakes them, the work that       *)
(* brings the service devices up, and the watchdog work that takes them     *)
(* down, restarts the firmware and has to wait for everybody who is still   *)
(* using the shared memory.                                                 *)
(* Sources: aoc.c, aoc_service_core.c, aoc_char_dev.c and aoc_v1.c.         *)
(***************************************************************************)
EXTENDS AocIpc, FiniteSets

CONSTANTS
    Thread,
    Calls,          \* the calls that each thread makes
    UpSlots, DownSlots,
    FirmwareWaits,  \* firmware with a full queue waits for a signal before it tries again
    ResetsOverlap,  \* user space asks for a reset also while the watchdog work runs
    MaxRestart      \* bound: how often the AoC is restarted

Readers == {"read", "read_nonblock", "read_timeout"}
Writers == {"write", "write_nonblock", "write_timeout"}

ASSUME ServiceAssumption ==
    /\ IsFiniteSet(Thread) /\ Calls \in [Thread -> SUBSET (Readers \cup Writers)]
    /\ UpSlots \in Nat \ {0} /\ DownSlots \in Nat \ {0}
    /\ FirmwareWaits \in BOOLEAN /\ ResetsOverlap \in BOOLEAN /\ MaxRestart \in Nat

Device == 1..MaxRestart + 1     \* the service device of each incarnation
MaxDisable == 2                 \* bound: nested disable_irq calls

VARIABLES
    aoc_state,
    aoc_process_active, \* how many are using the shared memory
    devices,            \* service devices created so far
    services,           \* the registered one, or 0
    dead,               \* devices marked dead
    open,               \* devices with an open file
    blocked,            \* read_blocked_mask and write_blocked_mask
    up, down,           \* the regions: from the AoC, to the AoC
    thread,             \* the calls under way
    irq,                \* the mailbox interrupt: pending, and where its handler is
    watchdog,           \* watchdog_work: queued, and where it is
    online_work,        \* online_work is queued
    monitor_work,       \* monitor_work is scheduled
    loading,            \* request_firmware_nowait is under way
    crash_irq,          \* depth at which the crash interrupts are disabled
    total_restarts,
    fw,                 \* the firmware
    fw_waits            \* it found its queue full and waits for a signal

apVars == <<aoc_state, devices, services, watchdog, online_work, monitor_work, loading, crash_irq,
            total_restarts>>
fwVars == <<fw, fw_waits>>
vars == <<apVars, aoc_process_active, dead, open, blocked, up, down, thread, irq, fwVars>>

IdleThread == [pc |-> "idle", call |-> "none", dev |-> 0, failed |-> FALSE,
               was_full |-> FALSE, buffer |-> 0]

TypeOK ==
    /\ aoc_state \in {"OFFLINE", "FIRMWARE_LOADED", "STARTING", "ONLINE", "SSR"}
    /\ aoc_process_active \in 0..Cardinality(Thread) + 1
    /\ devices \in 0..MaxRestart + 1
    /\ services \in 0..devices
    /\ dead \subseteq 1..devices /\ open \subseteq 1..devices
    /\ blocked \subseteq {"read", "write"}
    /\ up \in Region(UpSlots) /\ down \in Region(DownSlots)
    /\ thread \in [Thread ->
         [pc : {"idle", "inc", "check", "ready", "wait", "sleep", "unblock", "recheck",
                "copy", "advance", "leave"},
          call : Readers \cup Writers \cup {"none"}, dev : 0..devices, failed : BOOLEAN,
          was_full : BOOLEAN, buffer : 0..Modulus - 1]]
    /\ irq \in [pending : BOOLEAN, pc : {"idle", "inc", "check", "scan", "leave"}]
    /\ watchdog \in [queued : BOOLEAN,
                     pc : {"idle", "dump", "cancelled", "drain", "remove", "restart"}]
    /\ online_work \in BOOLEAN /\ monitor_work \in BOOLEAN /\ loading \in BOOLEAN
    /\ crash_irq \in 0..MaxDisable
    /\ total_restarts \in 0..MaxRestart
    /\ fw \in {"off", "booting", "up", "crashed"} /\ fw_waits \in BOOLEAN

\* After the probe: the first load of the firmware is under way.
Init ==
    /\ aoc_state = "OFFLINE" /\ aoc_process_active = 0
    /\ devices = 0 /\ services = 0 /\ dead = {} /\ open = {} /\ blocked = {}
    /\ up = NewRegion(UpSlots) /\ down = NewRegion(DownSlots)
    /\ thread = [t \in Thread |-> IdleThread]
    /\ irq = [pending |-> FALSE, pc |-> "idle"]
    /\ watchdog = [queued |-> FALSE, pc |-> "idle"]
    /\ online_work = FALSE /\ monitor_work = FALSE /\ loading = TRUE /\ crash_irq = 1 /\ total_restarts = 0
    /\ fw = "off" /\ fw_waits = FALSE

-----------------------------------------------------------------------------
(* The character device of the service: one open file at a time. *)

acd_open ==
    /\ services # 0 /\ services \notin open
    /\ open' = open \cup {services}
    /\ UNCHANGED <<apVars, aoc_process_active, dead, blocked, up, down, thread, irq, fwVars>>

acd_release(d) ==
    /\ d \in open /\ \A t \in Thread : thread[t].dev # d
    /\ open' = open \ {d}
    /\ UNCHANGED <<apVars, aoc_process_active, dead, blocked, up, down, thread, irq, fwVars>>

-----------------------------------------------------------------------------
(* aoc_service_read, aoc_service_write and their _timeout variants. *)

IsRead(t) == thread[t].call \in Readers
QueueOf(t) == IF IsRead(t) THEN "read" ELSE "write"
IsBlocking(t) == thread[t].call \notin {"read_nonblock", "write_nonblock"}

can_proceed(t) ==
    IF IsRead(t) THEN aoc_service_can_read_message(up) ELSE aoc_service_can_write_message(down)

\* The condition of the wait.
WaitOver(t) == aoc_state # "ONLINE" \/ thread[t].dev \in dead \/ can_proceed(t)

Go(t, from, to) == thread[t].pc = from /\ thread' = [thread EXCEPT ![t].pc = to]

callVars == <<apVars, dead, open, fw>>

\* The tests before the shared memory is claimed; the _timeout variants do not
\* look at aoc_state here.
service_call(t, call, d) ==
    /\ thread[t].pc = "idle" /\ call \in Calls[t]
    /\ d \in open /\ d \notin dead
    /\ call \in {"read_timeout", "write_timeout"} \/ aoc_state = "ONLINE"
    /\ thread' = [thread EXCEPT ![t] = [IdleThread EXCEPT !.pc = "inc", !.call = call, !.dev = d]]
    /\ UNCHANGED <<callVars, aoc_process_active, blocked, up, down, irq, fw_waits>>

\* The claim, and aoc_state again.
service_inc(t) ==
    /\ Go(t, "inc", "check")
    /\ aoc_process_active' = aoc_process_active + 1
    /\ UNCHANGED <<callVars, blocked, up, down, irq, fw_waits>>

\* Mutant: aoc_state is not tested again after the claim.
service_check_mutant(t) ==
    /\ Go(t, "check", "ready")
    /\ UNCHANGED <<callVars, aoc_process_active, blocked, up, down, irq, fw_waits>>

service_check(t) ==
    /\ Go(t, "check", IF aoc_state = "ONLINE" THEN "ready" ELSE "leave")
    /\ UNCHANGED <<callVars, aoc_process_active, blocked, up, down, irq, fw_waits>>

\* Mutant: the bit in the blocked mask is set by the first wait only after it was over.
service_ready_mutant(t) ==
    /\ Go(t, "ready", IF can_proceed(t) THEN "recheck" ELSE IF IsBlocking(t) THEN "wait" ELSE "leave")
    /\ UNCHANGED <<callVars, aoc_process_active, blocked, up, down, irq, fw_waits>>

\* Nothing to read, or no room: announce the waiter.
service_ready(t) ==
    /\ Go(t, "ready", IF can_proceed(t) THEN "recheck" ELSE IF IsBlocking(t) THEN "wait" ELSE "leave")
    /\ blocked' = IF ~can_proceed(t) /\ IsBlocking(t) THEN blocked \cup {QueueOf(t)} ELSE blocked
    /\ UNCHANGED <<callVars, aoc_process_active, up, down, irq, fw_waits>>

\* wait_event_interruptible: already on the wait queue when it tests the condition.
service_wait(t) ==
    /\ Go(t, "wait", IF WaitOver(t) THEN "unblock" ELSE "sleep")
    /\ UNCHANGED <<callVars, aoc_process_active, blocked, up, down, irq, fw_waits>>

\* A signal, or the end of the timeout: the condition is tested a last time.
service_interrupted(t) ==
    /\ thread[t].pc = "sleep"
    /\ thread' = [thread EXCEPT ![t].pc = "unblock", ![t].failed = ~WaitOver(t)]
    /\ UNCHANGED <<callVars, aoc_process_active, blocked, up, down, irq, fw_waits>>

service_unblock(t) ==
    /\ Go(t, "unblock", "recheck")
    /\ blocked' = blocked \ {QueueOf(t)}
    /\ UNCHANGED <<callVars, aoc_process_active, up, down, irq, fw_waits>>

\* The device may have died and the AoC gone while the caller slept; a message
\* may be larger than the buffer.
service_recheck(t) ==
    /\ thread[t].pc = "recheck"
    /\ \E goOn \in {FALSE, ~(thread[t].dev \in dead \/ aoc_state # "ONLINE" \/ thread[t].failed)} :
         /\ goOn \/ IsRead(t) \/ thread[t].dev \in dead \/ aoc_state # "ONLINE" \/ thread[t].failed
         /\ thread' = [thread EXCEPT
              ![t].pc = IF goOn THEN "copy" ELSE "leave",
              ![t].was_full = goOn /\ IsRead(t) /\ ~aoc_service_can_write_message(up)]
    /\ UNCHANGED <<callVars, aoc_process_active, blocked, up, down, irq, fw_waits>>

\* Mutant: the message at the write pointer is read.
service_copy_mutant(t) ==
    /\ thread[t].pc = "copy"
    /\ thread' = [thread EXCEPT
         ![t].pc = "advance", ![t].failed = ~can_proceed(t),
         ![t].buffer = IF IsRead(t) THEN up.mem[aoc_service_current_write_pointer(up)] ELSE @]
    /\ down' = IF ~IsRead(t) /\ can_proceed(t) THEN _aoc_queue_write_buffer(down, down.tx) ELSE down
    /\ UNCHANGED <<callVars, aoc_process_active, blocked, up, irq, fw_waits>>

\* aoc_service_read_message or aoc_service_write_message: the copy.  They give up
\* when there is nothing to read or no room; their callers do not look at the result.
service_copy(t) ==
    /\ thread[t].pc = "copy"
    /\ thread' = [thread EXCEPT
         ![t].pc = "advance", ![t].failed = ~can_proceed(t),
         ![t].buffer = IF IsRead(t) /\ can_proceed(t) THEN current_message(up) ELSE @]
    /\ down' = IF ~IsRead(t) /\ can_proceed(t) THEN _aoc_queue_write_buffer(down, down.tx) ELSE down
    /\ UNCHANGED <<callVars, aoc_process_active, blocked, up, irq, fw_waits>>

\* Does the call signal the AoC when it is done?
signals_aoc(t) == ~IsRead(t) \/ (thread[t].was_full /\ thread[t].call # "read_timeout")

\* The other half: the index moves when a message was copied, and the AoC is told in any case.
service_advance(t) ==
    /\ Go(t, "advance", "leave")
    /\ up' = IF IsRead(t) /\ ~thread[t].failed THEN aoc_service_increment_read_index(up) ELSE up
    /\ down' = IF IsRead(t) \/ thread[t].failed THEN down
               ELSE aoc_service_increment_write_index(down)
    /\ fw_waits' = (fw_waits /\ ~signals_aoc(t))
    /\ UNCHANGED <<callVars, aoc_process_active, blocked, irq>>

\* Mutant: an error path that does not give the claim back.
service_leave_mutant(t) ==
    /\ thread[t].pc = "leave"
    /\ thread' = [thread EXCEPT ![t] = IdleThread]
    /\ aoc_process_active' = IF thread[t].failed THEN aoc_process_active ELSE aoc_process_active - 1
    /\ UNCHANGED <<callVars, blocked, up, down, irq, fw_waits>>

service_leave(t) ==
    /\ thread[t].pc = "leave"
    /\ thread' = [thread EXCEPT ![t] = IdleThread]
    /\ aoc_process_active' = aoc_process_active - 1
    /\ UNCHANGED <<callVars, blocked, up, down, irq, fw_waits>>

\* Everybody who sleeps on the queue q of device d looks at the condition again.
woken(ths, d, q) ==
    [t \in Thread |-> IF ths[t].pc = "sleep" /\ ths[t].dev = d
                            /\ (ths[t].call \in Readers <=> q = "read")
                        THEN [ths[t] EXCEPT !.pc = "wait"] ELSE ths[t]]

-----------------------------------------------------------------------------
(* The mailbox interrupt. *)

irqVars == <<devices, services, watchdog, monitor_work, loading, crash_irq, total_restarts, dead, open, blocked,
             up, down, fwVars>>

aoc_mbox_rx_callback ==
    /\ irq.pending /\ irq.pc = "idle"
    /\ irq' = [pending |-> FALSE, pc |-> IF aoc_state = "ONLINE" THEN "inc" ELSE "idle"]
    /\ LET ready == aoc_state = "FIRMWARE_LOADED" /\ fw # "booting" IN
         /\ aoc_state' = IF ready THEN "STARTING" ELSE aoc_state
         /\ online_work' = (online_work \/ ready)
    /\ UNCHANGED <<irqVars, aoc_process_active, thread>>

\* aoc_process_services, in the same three parts as a call.
process_inc ==
    /\ irq.pc = "inc" /\ irq' = [irq EXCEPT !.pc = "check"]
    /\ aoc_process_active' = aoc_process_active + 1
    /\ UNCHANGED <<irqVars, aoc_state, online_work, thread>>

process_check ==
    /\ irq.pc = "check"
    /\ irq' = [irq EXCEPT !.pc = IF aoc_state = "ONLINE" THEN "scan" ELSE "leave"]
    /\ UNCHANGED <<irqVars, aoc_state, online_work, aoc_process_active, thread>>

process_scan ==
    /\ irq.pc = "scan" /\ irq' = [irq EXCEPT !.pc = "leave"]
    /\ LET r == "read" \in blocked /\ aoc_service_can_read_message(up)
           w == "write" \in blocked /\ aoc_service_can_write_message(down)
           ths == IF r THEN woken(thread, services, "read") ELSE thread
       IN thread' = IF w THEN woken(ths, services, "write") ELSE ths
    /\ UNCHANGED <<irqVars, aoc_state, online_work, aoc_process_active>>

process_leave ==
    /\ irq.pc = "leave" /\ irq' = [irq EXCEPT !.pc = "idle"]
    /\ aoc_process_active' = aoc_process_active - 1
    /\ UNCHANGED <<irqVars, aoc_state, online_work, thread>>

-----------------------------------------------------------------------------
(* Up: the firmware is loaded, and the work that creates the device. *)

lifeVars == <<open, blocked, irq>>

\* The watchdog work holds aoc_service_lock from aoc_take_offline to its end.
aoc_service_lock == watchdog.pc \in {"drain", "remove", "restart"}

\* The image may be missing, invalid or refused by the GSA.
aoc_fw_callback ==
    /\ loading /\ loading' = FALSE
    /\ \/ /\ aoc_state' = "FIRMWARE_LOADED" /\ fw' = "booting"
          /\ crash_irq' = crash_irq - 1 /\ monitor_work' = TRUE
       \/ /\ aoc_state' = "OFFLINE"
          /\ UNCHANGED <<fw, crash_irq, monitor_work>>
    /\ UNCHANGED <<lifeVars, aoc_process_active, devices, services, dead, watchdog, online_work,
                   total_restarts, fw_waits, up, down, thread>>

\* A device or its table cannot be created: the AoC stays in STARTING.
aoc_did_become_online ==
    /\ online_work /\ ~aoc_service_lock
    /\ online_work' = FALSE /\ monitor_work' = FALSE
    /\ \/ /\ devices' = devices + 1 /\ services' = devices + 1
          /\ aoc_state' = "ONLINE"
       \/ UNCHANGED <<devices, services, aoc_state>>
    /\ UNCHANGED <<lifeVars, aoc_process_active, dead, watchdog, loading, crash_irq, total_restarts,
                   fwVars, up, down, thread>>

-----------------------------------------------------------------------------
(* Down: the reset, and the watchdog work. *)

\* The bounds of the model on resets.
may_reset == total_restarts < MaxRestart /\ crash_irq < MaxDisable

trigger_aoc_ssr ==
    IF ~aoc_service_lock /\ aoc_state # "SSR"
      THEN /\ crash_irq' = crash_irq + 1
           /\ watchdog' = [watchdog EXCEPT !.queued = TRUE]
      ELSE UNCHANGED <<crash_irq, watchdog>>

resetVars == <<lifeVars, aoc_state, aoc_process_active, devices, services, dead, online_work,
               loading, total_restarts, fwVars, up, down, thread>>

watchdog_int_handler ==
    crash_irq = 0 /\ fw = "crashed" /\ may_reset /\ trigger_aoc_ssr /\ UNCHANGED <<resetVars, monitor_work>>

reset_store ==
    /\ aoc_state = "ONLINE" /\ may_reset /\ (ResetsOverlap \/ watchdog.pc = "idle")
    /\ trigger_aoc_ssr /\ UNCHANGED <<resetVars, monitor_work>>

\* Five seconds after the firmware was started.
aoc_monitor_online ==
    /\ monitor_work /\ may_reset
    /\ monitor_work' = FALSE
    /\ IF aoc_state = "FIRMWARE_LOADED" THEN trigger_aoc_ssr ELSE UNCHANGED <<crash_irq, watchdog>>
    /\ UNCHANGED resetVars

aoc_watchdog ==
    /\ watchdog.queued /\ watchdog.pc = "idle" /\ ~aoc_service_lock
    /\ watchdog' = [queued |-> FALSE, pc |-> IF aoc_state = "SSR" THEN "idle" ELSE "dump"]
    /\ aoc_state' = "SSR"
    /\ total_restarts' = IF aoc_state = "SSR" THEN total_restarts ELSE total_restarts + 1
    /\ UNCHANGED <<lifeVars, aoc_process_active, devices, services, dead, online_work, monitor_work, loading,
                   crash_irq, fwVars, up, down, thread>>

\* After the core dump: no start-up work may be left.
watchdog_cancel ==
    /\ watchdog.pc = "dump" /\ watchdog' = [watchdog EXCEPT !.pc = "cancelled"]
    /\ online_work' = FALSE
    /\ UNCHANGED <<lifeVars, aoc_process_active, aoc_state, devices, services, dead, monitor_work, loading,
                   total_restarts, crash_irq, fwVars, up, down, thread>>

aoc_take_offline ==
    /\ watchdog.pc = "cancelled"
    /\ LET up_ == aoc_state \in {"ONLINE", "SSR"} IN
         /\ watchdog' = [watchdog EXCEPT !.pc = IF up_ THEN "drain" ELSE "restart"]
         /\ aoc_state' = IF up_ THEN "OFFLINE" ELSE aoc_state
    /\ UNCHANGED <<lifeVars, aoc_process_active, devices, services, dead, online_work, monitor_work, loading,
                   total_restarts, crash_irq, fwVars, up, down, thread>>

\* aoc_wakeup_queues on every device of the bus, as long as somebody is inside.
aoc_wakeup_queues ==
    /\ watchdog.pc = "drain" /\ aoc_process_active # 0
    /\ dead' = IF services = 0 THEN dead ELSE dead \cup {services}
    /\ thread' = woken(woken(thread, services, "read"), services, "write")
    /\ UNCHANGED <<lifeVars, apVars, aoc_process_active, fwVars, up, down>>

drained ==
    /\ watchdog.pc = "drain" /\ aoc_process_active = 0
    /\ watchdog' = [watchdog EXCEPT !.pc = "remove"]
    /\ UNCHANGED <<lifeVars, aoc_process_active, aoc_state, devices, services, dead, online_work, monitor_work,
                   loading, total_restarts, crash_irq, fwVars, up, down, thread>>

\* The devices leave the bus, and acd_remove takes the file's entry off the list;
\* the device table is freed.
aoc_remove_device ==
    /\ watchdog.pc = "remove"
    /\ watchdog' = [watchdog EXCEPT !.pc = "restart"]
    /\ services' = 0
    /\ UNCHANGED <<lifeVars, aoc_process_active, aoc_state, devices, dead, online_work, monitor_work, loading,
                   total_restarts, crash_irq, fwVars, up, down, thread>>

\* The reset may fail, or be disabled: the AoC stays down.  Otherwise the next
\* firmware finds empty queues.
aoc_watchdog_restart ==
    /\ watchdog.pc = "restart" /\ watchdog' = [watchdog EXCEPT !.pc = "idle"]
    /\ \/ /\ loading' = TRUE /\ fw' = "off"
          /\ up' = NewRegion(UpSlots) /\ down' = NewRegion(DownSlots)
          /\ fw_waits' = FALSE
       \/ UNCHANGED <<loading, fwVars, up, down>>
    /\ UNCHANGED <<lifeVars, aoc_process_active, aoc_state, devices, services, dead, online_work, monitor_work,
                   total_restarts, crash_irq, thread>>

-----------------------------------------------------------------------------
(* The firmware: external. *)

fwUnchanged == <<apVars, aoc_process_active, dead, open, blocked, thread>>

fw_ready ==
    /\ fw = "booting" /\ fw' = "up"
    /\ irq' = [irq EXCEPT !.pending = TRUE]
    /\ UNCHANGED <<fwUnchanged, up, down, fw_waits>>

\* A message and its interrupt, or a full queue.
fw_write ==
    /\ fw = "up" /\ ~fw_waits
    /\ IF aoc_service_can_write_message(up)
         THEN /\ up' = aoc_service_increment_write_index(_aoc_queue_write_buffer(up, up.tx))
              /\ irq' = [irq EXCEPT !.pending = TRUE]
              /\ UNCHANGED fw_waits
         ELSE FirmwareWaits /\ fw_waits' = TRUE /\ UNCHANGED <<up, irq>>
    /\ UNCHANGED <<fwUnchanged, fw, down>>

fw_read ==
    /\ fw = "up" /\ aoc_service_can_read_message(down)
    /\ down' = aoc_service_increment_read_index(down)
    /\ irq' = [irq EXCEPT !.pending = TRUE]
    /\ UNCHANGED <<fwUnchanged, fwVars, up>>

fw_crash ==
    /\ fw \in {"booting", "up"} /\ fw' = "crashed"
    /\ UNCHANGED <<fwUnchanged, irq, up, down, fw_waits>>

-----------------------------------------------------------------------------
Call(t) == \E c \in Calls[t], d \in open : service_call(t, c, d)

Progress(t) ==
    \/ service_inc(t) \/ service_check(t) \/ service_ready(t) \/ service_wait(t)
    \/ service_unblock(t) \/ service_recheck(t) \/ service_copy(t) \/ service_advance(t)
    \/ service_leave(t)

Interrupt == aoc_mbox_rx_callback \/ process_inc \/ process_check \/ process_scan \/ process_leave

Watchdog ==
    \/ aoc_watchdog \/ watchdog_cancel \/ aoc_take_offline \/ aoc_wakeup_queues \/ drained
    \/ aoc_remove_device \/ aoc_watchdog_restart

Next ==
    \/ acd_open \/ \E d \in Device : acd_release(d)
    \/ \E t \in Thread : Call(t) \/ Progress(t) \/ service_interrupted(t)
    \/ Interrupt \/ Watchdog
    \/ aoc_fw_callback \/ aoc_did_become_online
    \/ watchdog_int_handler \/ reset_store \/ aoc_monitor_online
    \/ fw_ready \/ fw_write \/ fw_read \/ fw_crash

Spec == Init /\ [][Next]_vars

\* The kernel runs its threads, interrupt handlers and queued work.  Nobody has
\* to call, send a signal, crash or send a message.
FairSpec ==
    /\ Spec
    /\ \A t \in Thread : WF_vars(Progress(t))
    /\ WF_vars(Interrupt) /\ WF_vars(Watchdog)
    /\ WF_vars(aoc_fw_callback) /\ WF_vars(aoc_did_become_online)

-----------------------------------------------------------------------------
\* Past the second test of aoc_state, until the claim is given back.
Inside(t) == thread[t].pc \in {"ready", "wait", "sleep", "unblock", "recheck", "copy", "advance"}

\* Nobody is using a region or the device table, neither a call nor the interrupt
\* handler, while the watchdog work removes the devices and resets the AoC: the
\* claim before the test in the callers, and the OFFLINE before the drain in
\* aoc_take_offline, exclude each other without a lock.
InsideMeansUp ==
    (irq.pc = "scan" \/ \E t \in Thread : Inside(t)) =>
        services # 0 /\ watchdog.pc \notin {"remove", "restart"}

\* A caller asleep on the current device whose wait is over (a message came, room
\* was made, the AoC goes down) is about to be woken: an interrupt is pending or
\* in its handler, or the watchdog work is on its way to the drain.
SleeperHasWaker ==
    \A t \in Thread :
        thread[t].pc = "sleep" /\ thread[t].dev = services /\ WaitOver(t) =>
            irq.pending \/ irq.pc \in {"inc", "check", "scan"}
            \/ watchdog.pc \in {"dump", "cancelled", "drain"}

\* Each direction of the service is a FIFO: what the readers take is what the
\* writers put, once and in order, across the wrap of the counters, interrupted
\* and failed calls, and restarts of the firmware.
Up == INSTANCE FifoChannel WITH Capacity <- UpSlots, sent <- up.tx, queue <- Content(up)
Down == INSTANCE FifoChannel WITH Capacity <- DownSlots, sent <- down.tx, queue <- Content(down)

QueuesAreFifo == Up!Spec /\ Down!Spec

\* A reader about to move the index holds the oldest message: nothing overwrote the
\* slot, and nobody else took it, while it was copied.
ReadsTheOldest ==
    \A t \in Thread :
        thread[t].pc = "advance" /\ IsRead(t) /\ ~thread[t].failed =>
            Content(up) # <<>> /\ thread[t].buffer = Head(Content(up))

\* "wait until aoc_process or service write/read finish": aoc_take_offline gets
\* past its drain.
OfflineFinishes == watchdog.pc = "drain" ~> watchdog.pc # "drain"

\* "If the service queue was full right before reading, signal AoC that there is
\* now space available to write": firmware that waits for room has a full queue,
\* or a reader that is going to signal it.
FullQueueIsSignalled ==
    fw_waits => ~aoc_service_can_write_message(up)
                \/ \E t \in Thread : thread[t].pc = "advance" /\ signals_aoc(t)

\* Running firmware has its crash interrupts enabled, unless a reset is under way.
CrashIsNoticed ==
    aoc_state = "ONLINE" /\ ~watchdog.queued /\ watchdog.pc = "idle" => crash_irq = 0
=============================================================================
