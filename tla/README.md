# A TLA+ verification project for the Pixel kernel modules

This directory models the concurrent core of the out-of-tree Pixel kernel modules in this
repository: the *GCIP* library (Google Common IP) that the EdgeTPU and GXP (DSP) drivers share and
the *IIF* (inter-IP fence) library inside it, the parts of the EdgeTPU driver that use them, the
driver and the message queues of the always-on processor *AoC*, and the transactions of the camera
framework *LWIS*.

Paths: `E` is `src/edgetpu/rio/drivers/edgetpu`, `G` is
`E/gcip-kernel-driver/drivers/gcip`. The copy under `src/gxp/zuma/gcip-kernel-driver` is the same
text for every file modelled here, so what is shown holds for it too.

## 1. Inventory

The repository is 24 directories of kernel modules, about seven million lines, without a common
README. Most of it is vendor code: Wi-Fi, modem, Mali GPU, touch, SoC tables. The logic that is
Google's own, shared by several drivers and concurrent, is in `edgetpu` and `gxp`, then `lwis`
(camera) and `aoc`. This project covers the accelerators, whose drivers keep a block powered,
exchange commands with firmware and order commands of different IPs by fences; the AoC, whose
services are queues in memory shared with a firmware that may crash; and the LWIS transactions,
which interrupts, fences and a worker thread move between lists.

How the parts meet:

```
 runtime (ioctl)        E/edgetpu-fs.c, edgetpu-device-group.c, edgetpu-core.c
   |  wakelock                | VII command                | fence fds
 edgetpu-wakelock.c     edgetpu-ikv.c, -mailbox-ops.c   gcip-fence.c, gcip-fence-array.c
   |  get / put               | put_cmd, awaiter callbacks | submit, signal, waited
 gcip-pm.c              gcip-mailbox.c  <--- IRQ ---      iif/iif-fence.c, iif-direct.c
   |  power_up/down           |  queues in memory          | fence table in memory
 -------------------------- block and firmware -------------------------------------

 AoC clients            aoc_char_dev.c, aoc_channel_dev.c (many channels over one service)
   |  read / write
 aoc_service_core.c     aoc.c: interrupt, start-up, reset and watchdog work
   |  aoc_ipc_core.c
 -------------------------- shared memory, AoC firmware ----------------------------

 camera HAL (ioctl)     lwis_ioctl.c: submit, cancel, enable, disable, reset
   |                        ^ events (interrupts), trigger fences
 lwis_transaction.c: event lists, pending map, process queue --> worker --> registers
```

| Part | State | Operations | What is hard | What makes it correct |
|---|---|---|---|---|
| Power manager, `G/gcip-pm.c` | `count`, `suspendable_count`, `power_down_pending`, `put_async_count`, two work items | get, get_if_powered, put, put_async, flush, shutdown, destroy | retries of a power down race new users; the count is read without the lock; destroy races workers | on while used; no retry lost; suspend only if all users allow it; nothing runs after destroy |
| Client wakelocks, `E/edgetpu-wakelock.c`, the ioctls of `edgetpu-fs.c`, `edgetpu_client_remove` | requests and events per client, suspendable flag, attached mailboxes | acquire, release, external mailbox, group creation, failure, removal | ioctls of several threads overlap; half of an ioctl fails; a file is closed at any time | references conserved; registers touched only with power; mailbox follows the wakelock |
| Mailbox awaiters, `G/gcip-mailbox.c` | wait list, `refs`, time-out work per command | put_cmd, push/del_wait_resp, responses, time-outs, cancel | response, time-out and cancellation of one command meet | freed exactly when the last holder is gone; a pending command can still be completed |
| In-kernel VII, `E/edgetpu-ikv*.c`, `edgetpu-device-group.c` | pending and ready lists, credits, group status | send (directly or from a fence thread), callbacks, cancel on a fatal error, disband | the group goes away under its commands; fence threads hold no lock of it | answered once; credits conserved; answered at all |
| Inter-IP fences, `G/iif/` | counts of signalers and waiters, block wakelocks, fence table shared with firmware, two work items | create, submit, signal, waiter completed, poll, retire, destroy | signalling takes the lock twice; firmware writes the table without a lock; drivers signal for failed firmware | nothing lost, nothing counted twice; wakelocks released exactly when unused; retired only when unused |
| Bridges to DMA fences, `G/iif/iif-dma-fence.c` | callback, thread | bridge in both directions | lifetime of two fences | the DMA fence is signalled |
| Fence arrays, `G/gcip-fence*.c` | arrays of fences | signal, waited, submit over an array | partial failure | as their fences |
| KCI, `G/gcip-kci.c` | synchronous command, reverse queue | send_cmd, RKCI worker | wraparound, a full queue | FIFO, no loss |
| Submission waiter, `G/iif/iif-signaler-submission-waiter.c` | pending counts, eventfd | wait for all signalers submitted | callbacks race removal | event exactly once |
| Other gcip helpers, rest of the EdgeTPU driver, GXP | see `PROJECT.json` | | registers, mappings, statistics | |
| AoC queues, `src/aoc_ipc/aoc_ipc_core.c` | `tx` and `rx` of each direction, slots | read, write, advance | two processors, no lock, counters that wrap | a FIFO, nothing lost or read twice |
| AoC services, `src/aoc/aoc.c`, `aoc_service_core.c` | `aoc_state`, `aoc_process_active`, service devices, wait queues, blocked masks | read and write (blocking, timed, non-blocking), interrupt, start-up, reset, watchdog work | the firmware crashes under its clients; a drain loop instead of a lock; wake-ups by a bit | nobody in the memory while it is reset; no lost wake-up; going offline ends |
| AoC channels, `src/aoc/aoc_channel_dev.c` | list of open files, pending messages and their count, blocked flag | open, release, read, demultiplexer, (un)block commands | count and list under different sections; commands that fail; removal | count exact, entry not used after release, readers woken |
| LWIS transactions, `src/lwis/lwis_transaction.c`, `lwis_fence.c` | event lists, pending map, process queue, worker, flush state | submit, cancel, event and fence triggers, processing in runs, flush, cleanup | the lock is dropped while a transaction is executed; iterations share memory with their parent; a flush races late triggers | each transaction in one place, none forgotten, nothing used after it was freed |
| Rest of LWIS: periodic I/O, event queues, bus manager | timers, queues | | as transactions | later |
| All other directories | | | vendored or hardware programming | not modelled |

`PROJECT.json` lists each component with its status and the hazards at the lines where they bite.

## 2. Plan

In order of what the rest depends on:

1. **GcipPm**, with **PowerContract** as the abstract specification it implements: done, proved.
2. **EdgetpuWakelock**, the users of the power manager: done, proved.
3. **EdgetpuIkv**, mailbox awaiters composed with the VII callbacks and the device group: done,
   its safety properties proved.
4. **IifFence**, direct single-shot fences with two IPs and firmware: done, proved.
5. **AocIpc** and **AocService**, the queues and the services over them with crash and restart, and
   **FifoChannel**, which their two directions implement: done, proved with the refinement. **AocChannel**, the
   channels of one service: done, proved.
6. **LwisTransaction**, one client's transactions: done, its safety properties proved.
7. Next: an abstract fence that IifFence implements; reusable fences and sync points; fences the AP
   signals and the thread of `iif_dma_fence`; fence-ID reuse after retirement, with the late
   writes of firmware and of `signaled_work` that make it a hazard.
8. `gcip-kci.c` and the circular queues (wrap bit, full queue, synchronous waiters), shown to
   implement FifoChannel; `gcip_mailbox_release`; the submission waiter.
9. LWIS conditions of several nodes (weak transactions) and periodic I/O; AoC ring services, poll
    and the control client, whose late responses can be taken for those of the next command.

## 3. Modules

All actions carry the name of the function they model, or `function_part` where a function is
several steps. A critical section is one step; a callback or a wait inside it splits it in two,
and everything another thread can do without the lock may happen in between. Definitions commented
`Mutant:` are plausible bugs, one for each property; they are used by no specification.

**GcipPm** (`G/gcip-pm.c`, all of it). A member of `Holder` is one get/put pair. `pm->lock` is held
while the driver's `power_up` or `power_down` runs, so those calls are two steps; readers of
`count`, the two work items, a flush, a shutdown and destroy interleave. A power down returns
success, `-EAGAIN` (retried) or another error (given up). `left_on` and `forced` are history
variables.

**PowerContract** is what the users of a power manager rely on: the block is on while somebody uses
it, a get may be refused only while nobody does, and only an idle or forced manager switches the
block off. GcipPm refines it with `users` computed from the holders' states.

**EdgetpuWakelock** (`E/edgetpu-wakelock.c`, wakelock and external-mailbox ioctls of `edgetpu-fs.c`,
`edgetpu_client_remove` of `edgetpu-core.c`, mailbox attachment of the device group). The ioctl
takes its power reference before and drops it after the section under `wakelock->lock`; these are
separate steps. The power manager is seen through its two counters, with `gcip_pm_get_flags` and
`gcip_pm_put_flags` clamping as in the code; its internals are GcipPm's subject. `IntMax` stands
for `INT_MAX`, so that the overflow path is reached; `MaxLeak` bounds the drift of
`suspendable_count` that two of the counterexamples produce.

**EdgetpuIkv** (`G/gcip-mailbox.c`, `E/edgetpu-ikv.c`, `edgetpu-ikv-mailbox-ops.c`,
`edgetpu-device-group.c`). A command, its awaiter and its `edgetpu_ikv_response` are one identity.
Senders (with `group->lock` and `vii_lock`, or a fence thread with neither), time-out workers, the
interrupt handler, flushing threads, a firmware crash and disbanding interleave between sections
under `wait_list_lock` and `ikv_resp_lock`. `gcip_mailbox_del_wait_resp` is modelled with its real
comparison, of sequence numbers only, and in list order.

**IifFence** (`G/iif/iif-fence.c`, `iif-direct.c`, `iif-fence-table.c`, `iif-sync-file.c`, the
polling bridge of `iif-dma-fence.c`, `gcip-fence.c`, and from the EdgeTPU driver
`signal_response_waiters` and `edgetpu_group_clear_responses`). Direct single-shot fences. A
command is looked up, acquires block wakelocks, submits itself as waiter of `In` and signaler of
`Out` in one section, is processed by firmware and answered by firmware or by the driver, signals
each out-fence in two sections (`signal_reads`, `signal_writes`, `sync_status` under the lock, then
`inc_signaled_signalers`), is removed from each in-fence and puts its references. Firmware shares
only the table: it decrements `remaining_signals` at any moment, also long after the driver gave up
the command. The kernel's read, check and write of the count are distinct, so updates can be lost as
in the code. Errors are two bits: the table's flag and the status the kernel fence reports. Block
wakelocks are released in the section that decides it, the earliest moment. `MaySleep` selects
commands whose driver may use the sleeping variants of signal and waited, `FirmwareErrs` those
firmware may process with an error, `Disbands` whether pending commands may be dropped.

**AocIpc** (`src/aoc_ipc/aoc_ipc_core.c`, queue services). Operators without state: the region of one
direction (`tx`, `rx`, slots), `_read_write_delta`, the tests and pointers, and the two steps of a
message, the copy and the move of the index. `Modulus` stands for 2^32, small enough for the counters
to wrap in a run; the code's `SIZE_MAX` of 64 bits, which its own reduction to 32 bits makes right, is
kept.

**FifoChannel** is what each direction promises: messages leave in the order in which they came, and
only a restart of the firmware empties the channel. `QueuesAreFifo` is the refinement of it by both
directions of AocService.

**AocService** (`src/aoc/aoc_service_core.c`, `aoc.c`, `aoc_char_dev.c`, `aoc_v1.c`). A thread has a file
open on a service device and calls read or write with one of the variants. The parts of a call are
steps: claim the memory (`aoc_process_active`), test the state and the device, test the queue, set the
bit of the blocked mask, sleep, test again, copy, move the index, leave. Beside them run the mailbox
interrupt, the firmware (external; it writes, reads, crashes and starts), the start-up work, requests
for a reset and the watchdog work with its drain loop. Every device has an identity, so that a file
opened before a restart holds the old one. `ResetsOverlap` says whether user space asks for a reset also
while the watchdog work of an earlier one runs.

**AocChannel** (`src/aoc/aoc_channel_dev.c`). One service shared by channels. The demultiplexer, readers,
open and release are split where they drop `pending_msg_lock` or the list lock; commands to the AoC
fail when the queue is full or the device is dead. `is_channel_blocked` starts with any value, as the
allocation leaves it.

**LwisTransaction** (`src/lwis/lwis_transaction.c`, the trigger fences of `lwis_fence.c`, enable,
disable and reset of `lwis_ioctl.c`). `mem` is the memory of each transaction and of the iterations of
repeating ones, `io_entries` the allocation they share. `transaction_lock` is held from step to step
only where a loop goes over a list or waits for another lock; a list walk keeps its saved next node in
`next`. A thread whose saved node or transaction is no longer there takes no further step: its memory
was freed, or `list_del` has poisoned its links, so `list_for_each_safe` goes on through a pointer that
no outcome of the program is defined for (`NoUseAfterFree` says whether that happens, and is what such a
step violates). `list_del` and the saved node go by the position of a node in its list.
`add_transaction_to_queue_locked`, with which everything enters the queue, puts a high-priority
transaction at its head, before what the worker is executing; that is all there is to it in a device
without a bus manager (`lwis_bus_manager_add_high_priority_client` returns at once, and the worker's
pass does not tell priorities apart).
Signalling a fence is split into taking its lock, each callback and its wait for `transaction_lock`.
`flush.runs` is what `kthread_flush_worker` waits for: the run under way and the queued one. `AnyTime`
selects user space that submits while the client is disabled or being flushed.

The `MC*` modules give names to instances and symmetry sets.

## 4. Runs

Deadlock checking is off where the system may stop (everything closed, freed or answered).
Symmetry is used in safety runs only.

| Run | Instance | What it shows |
|---|---|---|
| `gcip_pm` | 2 holders, 1 flush retry | block on while held; an idle powered block has a power down pending or given up; the suspend decision is right; freed means quiescent; asynchronous puts and pending power downs come to an end; GcipPm implements PowerContract |
| `wakelock` | 2 clients, 2 threads: one client with plain flags and overlapping ioctls, one with both flags and one ioctl at a time | references conserved, a held wakelock has power, no unpowered register access, the mailbox follows the wakelock |
| `wakelock_close_leak` | both flags | **violated**: `PlainUserBlocksSuspend` |
| `ikv_commands` | 2 commands of one group, one direct and one of a fence thread, with and without time-outs | reference counts exact, pending commands tracked, credits conserved, answered once |
| `ikv_answered` | 2 direct commands with time-outs, 1 credit | every sent command is answered whatever firmware does; an entry of the wait list has somebody who waits for it |
| `ikv_same_number` | 2 groups, the same number | **violated**: `PendingIsTracked` |
| `iif_fence` | 1 fence, 2 signalers on one IP, a waiter on another that was announced at creation, a bridge | no signal refused, counts exact, retired means unused, wakelocks accounted for and held for signalers, kernel count and table agree, no poller forgotten |
| `iif_lost_error` | 1 fence, 2 signalers | **violated**: `FailureIsVisible` |
| `aoc_service` | 1 client that reads and writes in every variant, 1 crash or reset, counters modulo 4 over 2 and 1 slots | nobody inside the shared memory unless the AoC is up; a sleeper has somebody who wakes it; a read returns the oldest message; both directions implement FifoChannel across the restart |
| `aoc_offline_hang` | 1 reader whose file stays open over a restart | **violated**: `OfflineFinishes` |
| `aoc_channel` | 2 channels, 2 readers each, threshold 1, 2 messages in flight | the count of pending messages is the length of the list between the sections; an entry in use is not freed; a reader with a message is woken; a channel the AoC holds back is known to be |
| `lwis_transactions` | an immediate transaction of two runs, one that an event triggers repeatedly or in its own context, one of high priority with a fence, or of cleanup; one interrupt | a transaction, or iteration, is in exactly one place; one in the process queue of an enabled client has a worker coming |

The largest are `lwis_transactions` (3.4 million states) and `aoc_service` (2.6 million).

Why the bounds are enough. The races are between kinds of threads, and each instance has one of
every kind plus a second user, so that "the last one" and "not the last one" both occur: two
holders in GcipPm, two commands of a group, two signalers of a fence, two readers of a channel.
Counters are bounded by the number of users. The bounds that cut behaviour are:

* `MaxRetry` of GcipPm: longer retries repeat the loop.
* `IntMax` and `MaxLeak` of EdgetpuWakelock, see section 3.
* `Modulus` of AocIpc, 2^32 in the code: 4, a multiple of the slots, so that a few messages wrap both
  counters. `MaxRestart` of AocService: one restart separates an old device from the new one; the hang
  needs a second way down and is checked with two. The safety properties are proved for any number of
  restarts that do not overlap; with overlapping ones `InsideMeansUp` fails, which takes three
  (`MCAocServiceOverlap`).
* `MaxInFlight` of AocChannel: messages in the service. With `MaxPending` and `Threshold`, the code's
  module parameters, at 2 and 1 both limits are crossed.
* `Instance` of LwisTransaction: iterations of repeating transactions that are in memory at once.
  `Limit` is the code's `transaction_process_limit`, 1 so that a transaction of two runs is cut.

The proofs remove these bounds: they are for any number of users
and, of the AoC, for any number of restarts, any width of the counters and any number of slots that
divides their range.

Fairness. GcipPm: work that is queued runs, callbacks return, and waiting for a mutex ends
(strong fairness for the two steps that wait for `pm->lock`, which the kernel's mutex hands off);
no caller has to make a call. EdgetpuIkv: work items, kernel threads, a pending interrupt and a
started cancellation proceed, and an armed timer expires. AocService, for `OfflineFinishes`: the parts
of a call that do not sleep, the interrupt, the firmware loader's callback, the start-up work and the
watchdog work proceed. Firmware is
not fair: it may never respond. Neither is user space. Of AocChannel and LwisTransaction only safety
is checked; "woken" and "served" are stated as who is going to do it.

### Violations

* `wakelock_close_leak`: `edgetpu_client_remove` drops suspendable references as plain ones, so
  `suspendable_count` stays too high and a later plain user does not block suspend.
* `ikv_same_number`: an entry is taken off the wait list by its number alone, while numbers are
  chosen per client; one client's time-out removes the other's entry.
* `iif_lost_error`: `propagate` belongs to the fence and is set without its lock. When the driver
  fails one command while the response of another is being signalled, that other command, already
  signalled by its firmware, is counted in the table a second time. The fence is unblocked without
  an error, and the error of the failed command is then dropped because no signal remains.
* `aoc_offline_hang`: `aoc_take_offline` marks devices dead only while `aoc_process_active` is not zero,
  so an idle device is unregistered with `dead` false. After the restart a reader whose file is open on
  it passes every test and sleeps on the old wait queue, which nobody wakes; the drain loop of the next
  `aoc_take_offline` waits for that reader for ever, with `aoc_service_lock` held.

### Further configurations

These check properties stated in the modules, with the same MC modules. TLC stops at the first
violation: where a configuration lists several violated properties, each is seen by leaving the others
out.

| Configuration | Property | Result |
|---|---|---|
| `MCGcipPmDoc` | `FailedPutIsRetried` | violated: only `-EAGAIN` arms the retry; `gcip-pm.h` line 125 promises it for every failure |
| `MCEdgetpuWakelockMixed` | `IdleDeviceSuspends` | violated: a plain and a suspendable request of one client are released as two suspendable ones, `suspendable_count` becomes -1, and suspend is rejected without users |
| `MCEdgetpuWakelockRace` | `HeldMeansPowered` | violated: a release overlapping the exchange of a plain for a suspendable reference, followed by a refused power up, drops another client's reference |
| `MCEdgetpuIkvDoc` | `NoHandlerAfterCancel`, `GroupOutlivesHandlers` | violated: `gcip_mailbox_cancel_awaiter` does not wait for an arrived handler (`gcip-mailbox.h` line 541 says it does); a response matched before its group was disbanded is completed with the group's lock after the group is freed |
| `MCEdgetpuIkvLate` | `TimeoutCoversWait` | violated without `PromptEnqueue`: the time-out starts before the command is enqueued; if it expires first the command waits without one |
| `MCEdgetpuIkvRace` | `EntryHasWaiter`, `ResponseOutlivesSignal` | violated: a fence thread pushes its entry after its command was cancelled; the runtime may free an error response before its waiters are signalled |
| `MCIifFenceChain` | those of `iif_fence`, `PendedWakelockReleased` and `FailureIsVisible` | hold: a command waits for one fence and signals another; with one signaler per fence no error is lost |
| `MCIifFenceError`, with `UnblockedByAll` for its property | `UnblockedByAll` | violated: firmware and driver both decrement for one command, and the fence is unblocked while a signaler is missing (`iif-direct.c` line 373) |
| `MCIifFenceDrop` | `SubmittedIsSignalled` | violated: disbanding drops pending commands without signalling their out-fences; the fence is errored out when its last reference goes |
| `MCIifFencePoll` | `RetiredNotPolled` | violated: a fence retires on the close of its file under a bridge that still waits for it |
| `MCAocServiceOverlap` | `InsideMeansUp` | violated: the start-up work sets ONLINE over the SSR of a watchdog work in its core dump (`aoc.c` line 1423), so a second reset is accepted; the callback of the firmware loader, which holds no lock, sets FIRMWARE_LOADED over its SSR (line 674), and `aoc_take_offline` (line 1587) neither drains nor removes the devices: the AoC is reset with callers inside |
| `MCAocServiceReaders` | `SleeperHasWaker` | violated: one of two readers clears the bit of both when it returns, and the next message wakes nobody |
| `MCAocServiceWriters` | `QueuesAreFifo` | violated: two writers of one service copy to the same slot before either moves the index |
| `MCAocServiceSlots` | `QueuesAreFifo` | violated: when the number of slots does not divide 2^32, the slot of a message changes as `tx` wraps |
| `MCAocServiceFull` | `FullQueueIsSignalled` | violated: `was_full` is read before the message is taken (`aoc_service_core.c` line 500), and firmware that waits for room is not signalled |
| `MCAocServiceCrash` | `CrashIsNoticed` | violated: two reset requests before the watchdog work disable the crash interrupts twice, the restart enables them once |
| `MCAocChannelGaps` | `NoSleeperOnDead`, `CountedIsThere`, `BlockedHasPending` | violated: `aocc_remove` wakes no reader; the count falls after the list, and a second reader returns 0 bytes; a failed UNBLOCK of the last reader leaves the AoC holding a channel back that has no message to retry with |
| `MCAocChannelThreshold` | `ThresholdBlocks` | violated: `is_channel_blocked` is never initialised |
| `MCLwisTransactionQuiet` | `TypeOK`, `NoUseAfterFree`, `EntriesFreedOnce`, `EntriesOutliveIteration`, `ExecutedIsSignaled`, `QueueOrder` | hold: immediate transactions of both priorities, cleanup ones, and a client that does not submit during a flush |
| `MCLwisTransactionFlush` | `NoUseAfterFree`, `CancelledIsSignaled` | violated: an event handler queues the worker after it has dropped the lock, so the worker may start behind the flush, which frees the transaction it executes; a flush drops completion fences without signalling them |
| `MCLwisTransactionRepeat` | `EntriesOutliveIteration`, `EntriesFreedOnce` | violated: a flush frees the `io_entries` of a repeating transaction under its iteration, and frees them twice when the iteration is still queued |
| `MCLwisTransactionAny` | `QueuedIsServed`, `ExecutedIsSignaled` | violated: a transaction submitted to a disabled client stays in the queue when the client is enabled; with a client that submits during the flush the worker executes one transaction, finds the client disabled at the next, and returns without signalling the fence of the first |
| `MCLwisTransactionLocks` | `NoLockCycle` | violated: the signaller of a fence holds its lock and waits for `transaction_lock`, a submitter the other way round |

## 5. Proofs

Checked by TLAPS for every value of the constants that satisfies the modules' assumptions.

**GcipPm_proofs** (any finite set of holders, any `MaxRetry`). The properties are not inductive: that
the block is on while references are held depends on who holds `pm->lock`, in which callback, and on
the counters being the numbers of holders in certain states. `IInv` is the conjunction of `TypeOK`,
`LockInv` (the lock's owner is the one thread inside a callback), `CountInv` (both counters are
cardinalities), `IdleInv` (power against count, pending flag and history), `PendingInv` (a pending
power down implies a powered block and no power up under way), `DestroyInv` (destroy shuts the
actors out one after the other), `NoForgottenPowerDown`, `PendingHasRetry` and `NoStrandedAsyncPut`; the
last two say at each moment what the liveness properties of `gcip_pm` promise of the future.
`CountEffect` says how one holder's change of state moves the cardinalities; there is one lemma
per operation. From `Invariance` follow `TypeCorrect`, `PoweredWhileHeldHolds`, `NoLostPowerDown`,
`SuspendGateHolds` and `WorkersAccounted`. `Refinement` proves `Spec => PowerContract`: each step is
a Get, a Put, a Refuse, a PowerDown, a forced one, or leaves the contract's variables alone.

**EdgetpuIkv_proofs** (any finite set of groups and commands, any numbers). `IInv` speaks of each
command by itself: `Phase` (how far the sender is bounds what time-out, wait list, firmware and
lists can be), `RefsExact`, and `OneToken` (signals given plus signals somebody has committed to give
are at most one, and none before the response is marked processed). Results: `RefsExactHolds`,
`SignalledOnceHolds`, `PendingTracked`, `CreditsBalancedHolds`. The first two and the last assume
`Separated`: time-outs do not expire before the command is in the wait list, or clients use distinct
numbers. Without it a time-out can take another client's entry and complete a command that is still
being sent. `PendingTracked` needs distinct numbers: `ikv_same_number` is the counterexample
otherwise.

`TypeCorrect` adds the types that no other part needs. `EntriesHaveWaiters` adds `Waits` (a thread that cancels
or disbands holds the locks of the group, so no command of it is on its way to the wait list; an entry
that a time-out took off does not come back). From the same invariant, and with time-outs that expire at any
moment, `TimeoutsKept` proves the action property `CoverKept`: no step takes the time-out from a command that
stays in the wait list. A command that waits without one can only have come to the list without it, which
happens, because the time-out starts before the enqueue (`MCEdgetpuIkvLate`). Both need commands that are sent
directly with distinct numbers: `MCEdgetpuIkvRace` is the counterexample otherwise.

**EdgetpuWakelock_proofs** (any finite sets of clients and threads, any `IntMax`). `PowerBalanced` is
stated with sets: `Held` has one pair for each request of a client, `Owing` the threads that are going
to put a reference, so that each step adds or removes one element and the cardinalities follow. `IInv`
is `TypeOK`, `CallInv` (a call keeps its file open; on a serial client it is the only one, and only there
references are exchanged), `RemoveInv` (what `edgetpu_client_remove` has done so far, and that the count
it read is still the right one), `EventInv` (the owner of the secure mailbox is the client with an event)
and the properties. The hypothesis `SuspendIsSerial`, that a client with
suspendable wakelocks makes one ioctl at a time, is what `MCEdgetpuWakelockRace` shows to be needed.

**IifFence_proofs** (any finite sets of fences, commands and IPs). `IInv` is the conjunction of
`Control` (which lists a command in each phase still has to go through), `Counting` (the submitted,
signalled and outstanding counts are cardinalities of sets of commands; a fence retires only when they
are empty), `Signals` (the table: what remains plus the number of commands whose signal the kernel has
written is at most the total. A decrement of firmware may be lost to a racing write of the kernel, but
only once `propagate` is set, and then every signal the kernel hears of is written; hence a fence counted
as signalled by all is unblocked), `Wakelocks` (each block is held once for each
element of `Recorded` and `InHand`; a submission has the wakelocks of all waiters of its
out-fences, or will be refused), `PollNotLost` and `PendedWakelockReleased`. All properties of
the run follow from `Invariance` without further hypotheses.

**AocService_proofs** (any finite set of threads; any `Modulus`, slots and `MaxRestart`). `IInv` is
`TypeOK`, `Claims` (`aoc_process_active` is the number of threads past the claim, plus the interrupt)
and `Budget` (loads, start-ups and resets under way are paid for by restarts and disabled interrupts).
`Phases` ties `aoc_state` to the device and the works, and makes `InsideMeansUp` inductive
(`GateHolds`): a call tests the state after its claim, and the drain ends only at claim 0. It holds
under `OneReset`; the attempt to prove it without was what led to `MCAocServiceOverlap`.
`NoLostSleeper` adds `Bits`: the bit of a waiting call is set, which needs `OneCaller`, at most one
reader and one writer (`MCAocServiceReaders`). `ReadsOldest` and `Fifo` rest on `Queues`: each region is
`Sound` (no more messages than slots, and each slot between the indices holds the message of that
number), and a call between its copy and the move of the index can still go on and has the right
message. Lemmas of AocIpc's operators say what `_aoc_queue_write_buffer` and the two moves do to a sound
region and its `Content`; they rest on division with remainder, proved from its definition, and on
`SlotsFit`, that the number of slots divides 2^32 (`MCAocServiceSlots` otherwise). `Fifo` is the
refinement `Spec => QueuesAreFifo`: every step is a `Send`, a `Take` or a `Restart` of each abstract
channel, or leaves it alone.

**AocChannel_proofs** (any finite sets of channels and readers, any limits). `IInv` is `TypeOK`,
`PendingCountExact`, `EntryStaysOpen`, `SleeperIsWoken`, `ReadKeepsOpen` (a read holds a reference of its
file), `AppendHasRoom` (the demultiplexer found its file below the limit, and only readers change the
count until it appends) and `BlockInv` (the AoC was asked to hold back only files that remember it).

**LwisTransaction_proofs** (any sets of transactions, iterations, handlers and fences, any `Limit`).
`OnePlace` counts occurrences; `IInv` says the same with sets: the live transactions are the union of
seven disjoint sets (on the event list, the cleanup list, the queue, pending, being submitted, being
cleaned up, being executed by a handler: `PlaceInv`), no list has a node twice (`ListInv`), no two
handlers execute the same transaction (`HandlerInv`), and whoever is inside a loop over a list has
`transaction_lock` (`LockInv`). Lemmas say what `list_add`, `list_add_tail`, `list_del`, the first node and the node
after another are, by positions. `TypeCorrect` and `OnePlaceHolds` follow without further
hypotheses, and so does `QueueOrderKept`, the action property `QueueOrder`: transactions are executed in
the order of their submission or trigger, and only one of high priority overtakes another. `OrderInv` says
that before the worker's transaction, and before its saved node, there are high-priority ones only, and
that the saved node is the next one, or that what the worker holds was freed. Between the moment the worker
saves a node and the moment it follows it, the others may put any number of transactions before both and
behind both, or free everything (`Others`, `GrownQueue`), and none of that comes between the two.

`QueuedServed` has the hypothesis `AnyTime = FALSE` (`MCLwisTransactionAny` is the counterexample
otherwise). `FlushInv` says which lists are empty in each phase of a flush and in a disabled client, so
that a worker that finds the client disabled leaves nothing behind, and one that does not queue itself
again during a flush leaves its transactions to the flush. `Kicked` is somebody other than the worker
who sees to the queue; `ServeInv` says at each point of the worker's loop that the queue ends where the
worker will stop, or that `Kicked` holds; a high-priority transaction that was put before the worker, which
does not go back, is covered by `Kicked` as well (`AtHead`).

One theorem is about a kind of client, and marks where the violations above begin. `QuietClientSafe`: with
immediate transactions, of either priority, and cleanup ones only, submitted to an enabled client outside
a flush, nothing freed is used and every executed transaction is signalled. `RunsInv` is the reason: every run of the worker was queued before
`kthread_flush_worker` counted them, so there is none when the flush frees the queue. An event or a
fence queues the worker after it has dropped the lock, and breaks exactly that
(`MCLwisTransactionFlush`).

Only model-checked: the liveness properties (`AsyncPutDone`, `PendingIsRetried`, `EveryCommandAnswered`),
which are outside what the prover handles. Every invariant of the passing runs is stated by a theorem.

## 6. Not modelled

* Of the mailbox: queue indices and wrap bit, synchronous commands, `gcip_mailbox_release`; responses
  are fetched from the queue one by one or in a batch by whoever drains it.
* Of VII: additional info, queue allocation, driver removal.
* Of IIF: reusable fences and sync points, fences signalled by the AP, the bridge from DMA fences,
  registration of operators in the manager, IDs and their reuse, error codes beyond their presence.
* Of the wakelock: buffer mapping, eventfd, telemetry ioctls.
* Of the AoC: ring services, poll, the doorbells and their masks, writes on channels, the control client,
  the firmware and reload files of sysfs, map handlers, suspend.
* Of LWIS: conditions of several nodes (weak transactions), level triggers, the bus manager
  and its own pass over the high-priority transactions of I2C and register devices (whose path at
  `lwis_transaction.c` line 654 unlinks through the pointer `process_transaction` has set to NULL),
  periodic I/O, event queues, the release of a client.
* Failing allocations are modelled only where they take an error path with state to undo.
* Hardware: registers and callbacks are external; a callback is what its result makes the caller do.
* The components listed as not modelled in `PROJECT.json`, each with its reason.
