-------------------------- MODULE EdgetpuWakelock --------------------------
(***************************************************************************)
(* Client wakelocks of the edgetpu driver and the power references behind  *)
(* them: edgetpu-wakelock.c, the acquire and release ioctls of             *)
(* edgetpu-fs.c, edgetpu_client_remove, the secure external mailbox, and   *)
(* the device group's mailbox that follows the wakelock.                   *)
(*                                                                         *)
(* wakelock->lock is held over each critical section, so a section is one  *)
(* step; what an ioctl does to the power manager before and after it are   *)
(* steps of their own, and other threads run in between.  The power        *)
(* manager is seen through its two counters: module GcipPm has the rest.   *)
(***************************************************************************)
EXTENDS Integers, FiniteSets

CONSTANTS
    Client,         \* slots for open file descriptors
    Thread,         \* threads of the runtime that make ioctls
    AcquireFlags,   \* flags each client is acquired with: "plain" (0) and "susp" (..._FLAG_SUSPEND)
    Serial,         \* clients on which the runtime makes one wakelock ioctl at a time
    IntMax,         \* INT_MAX, the largest request count before acquire overflows
    MaxLeak         \* bound: acquire while suspendable_count is at most this far from 0

Flags == {"plain", "susp"}

ASSUME ClientAssumption == IsFiniteSet(Client) /\ "none" \notin Client
ASSUME ThreadAssumption == IsFiniteSet(Thread)
ASSUME FlagsAssumption == AcquireFlags \in [Client -> SUBSET Flags] /\ Serial \subseteq Client
ASSUME BoundsAssumption == IntMax \in Nat /\ MaxLeak \in Nat

VARIABLES
    count,              \* gcip_pm.count
    suspendable_count,  \* gcip_pm.suspendable_count
    client,             \* where the life of each client is
    req_count,          \* wakelock.req_count
    suspendable,        \* clients with wakelock.suspendable
    event_count,        \* wakelock.event_count[EXT_MAILBOX]
    secure_client,      \* etmdev->secure_client
    group,              \* client->group and its status
    attached,           \* clients whose group has mailbox_attached
    ext_mailbox,        \* clients whose group has an ext_mailbox
    wakelock_count,     \* edgetpu_client_remove: references still to be put
    pc, on, flag,       \* the ioctl each thread is in, its client and its power flag
    \* history: device registers were accessed with no power reference held
    unpowered_access

pm == <<count, suspendable_count>>
wakelock == <<req_count, suspendable, event_count>>
groups == <<group, attached, ext_mailbox>>
calls == <<pc, on, flag>>
vars == <<count, suspendable_count, client, req_count, suspendable, event_count, secure_client,
          group, attached, ext_mailbox, wakelock_count, pc, on, flag, unpowered_access>>

\* "acquire": has the power reference, about to take wakelock->lock.
\* "fail_put": the acquisition failed.  "switch_get", "switch_put": exchange of
\* the plain reference for a suspendable one.  "release_put": after a release.
CallStates == {"idle", "acquire", "fail_put", "switch_get", "switch_put", "release_put"}

TypeOK ==
    /\ count \in Nat /\ suspendable_count \in Int
    /\ client \in [Client -> {"closed", "open", "disband", "ext", "put"}]
    /\ req_count \in [Client -> 0..IntMax + 1]
    /\ suspendable \in SUBSET Client
    /\ event_count \in [Client -> 0..1]
    /\ secure_client \in Client \cup {"none"}
    /\ group \in [Client -> {"none", "ready", "errored"}]
    /\ attached \in SUBSET Client /\ ext_mailbox \in SUBSET Client
    /\ wakelock_count \in [Client -> 0..IntMax + 1]
    /\ pc \in [Thread -> CallStates]
    /\ on \in [Thread -> Client \cup {"none"}]
    /\ flag \in [Thread -> Flags]
    /\ unpowered_access \in BOOLEAN

Init ==
    /\ count = 0 /\ suspendable_count = 0
    /\ client = [c \in Client |-> "closed"]
    /\ req_count = [c \in Client |-> 0]
    /\ suspendable = {}
    /\ event_count = [c \in Client |-> 0]
    /\ secure_client = "none"
    /\ group = [c \in Client |-> "none"]
    /\ attached = {} /\ ext_mailbox = {}
    /\ wakelock_count = [c \in Client |-> 0]
    /\ pc = [t \in Thread |-> "idle"]
    /\ on = [t \in Thread |-> "none"]
    /\ flag = [t \in Thread |-> "plain"]
    /\ unpowered_access = FALSE

-----------------------------------------------------------------------------
(* The power manager *)

clamp(s, c) == IF s > c THEN c ELSE s

gcip_pm_get(f) ==
    /\ count' = count + 1
    /\ suspendable_count' = IF f = "susp" THEN clamp(suspendable_count + 1, count + 1)
                                          ELSE suspendable_count

\* Only the first user can be refused: it is the one that powers the block up.
gcip_pm_get_fails == count = 0 /\ UNCHANGED pm

\* WARN_ON(!pm->count) returns without touching either counter.
gcip_pm_put(f) ==
    IF count = 0 THEN UNCHANGED pm
    ELSE /\ count' = count - 1
         /\ suspendable_count' = IF f = "susp" THEN clamp(suspendable_count - 1, count - 1)
                                               ELSE suspendable_count

\* edgetpu_pm_suspend, while no power down is pending.
edgetpu_pm_suspend == count <= suspendable_count

\* Mailbox and context registers are accessed.
touch == unpowered_access' = (unpowered_access \/ count = 0)
no_touch == UNCHANGED unpowered_access

-----------------------------------------------------------------------------
Busy(c) == {t \in Thread : pc[t] # "idle" /\ on[t] = c}

may_ioctl(c) == client[c] = "open" /\ (c \in Serial => Busy(c) = {})

enter(t, c, state, f) ==
    /\ pc' = [pc EXCEPT ![t] = state]
    /\ on' = [on EXCEPT ![t] = c]
    /\ flag' = [flag EXCEPT ![t] = f]

goto(t, state) == pc' = [pc EXCEPT ![t] = state] /\ UNCHANGED <<on, flag>>

return(t) ==
    /\ pc' = [pc EXCEPT ![t] = "idle"]
    /\ on' = [on EXCEPT ![t] = "none"]
    /\ flag' = [flag EXCEPT ![t] = "plain"]

\* edgetpu_client_add, with edgetpu_wakelock_init.
edgetpu_client_add(c) ==
    /\ client[c] = "closed"
    /\ client' = [client EXCEPT ![c] = "open"]
    /\ req_count' = [req_count EXCEPT ![c] = 0]
    /\ suspendable' = suspendable \ {c}
    /\ event_count' = [event_count EXCEPT ![c] = 0]
    /\ UNCHANGED <<pm, secure_client, groups, wakelock_count, calls, unpowered_access>>

-----------------------------------------------------------------------------
(* The group's mailbox.  attach and detach are called with wakelock->lock. *)

attach_ok(c) ==
    IF group[c] = "ready" THEN attached' = attached \cup {c} /\ touch
                          ELSE UNCHANGED attached /\ no_touch

\* An attempt that failed half way has touched the device and is undone.
attach_fails(c) == group[c] = "ready" /\ UNCHANGED attached /\ touch

\* (Mutant: an errored group keeps its mailbox.)
edgetpu_group_close_and_detach_mailbox_ready(c) ==
    IF group[c] = "ready" THEN attached' = attached \ {c} /\ touch
                          ELSE UNCHANGED attached /\ no_touch
edgetpu_group_close_and_detach_mailbox(c) ==
    IF group[c] # "none" THEN attached' = attached \ {c} /\ touch
                         ELSE UNCHANGED attached /\ no_touch

\* edgetpu_device_group_create and its finish_setup: a group created while the
\* wakelock is held gets its mailbox at once; the setup may fail.
edgetpu_device_group_create(c) ==
    /\ may_ioctl(c) /\ group[c] = "none"
    /\ IF req_count[c] > 0 THEN touch ELSE no_touch
    /\ \/ /\ group' = [group EXCEPT ![c] = "ready"]
          /\ attached' = IF req_count[c] > 0 THEN attached \cup {c} ELSE attached
       \/ UNCHANGED <<group, attached>>
    /\ UNCHANGED <<pm, client, wakelock, secure_client, ext_mailbox, wakelock_count, calls>>

\* edgetpu_group_fatal_error_notify
edgetpu_group_fatal_error_notify(c) ==
    /\ group[c] = "ready"
    /\ group' = [group EXCEPT ![c] = "errored"]
    /\ UNCHANGED <<pm, client, wakelock, secure_client, attached, ext_mailbox, wakelock_count,
                   calls, unpowered_access>>

\* The external mailboxes of a group, allocated whether or not the block is
\* powered, and programmed only under a reference taken for that purpose.
edgetpu_mailbox_external_alloc_enable(c) ==
    /\ may_ioctl(c) /\ group[c] # "none" /\ c \notin ext_mailbox
    /\ ext_mailbox' = ext_mailbox \cup {c}
    /\ IF count > 0 THEN touch ELSE no_touch
    /\ UNCHANGED <<pm, client, wakelock, secure_client, group, attached, wakelock_count, calls>>

edgetpu_mailbox_external_disable_free(c) ==
    /\ may_ioctl(c) /\ c \in ext_mailbox
    /\ ext_mailbox' = ext_mailbox \ {c}
    /\ IF count > 0 THEN touch ELSE no_touch
    /\ UNCHANGED <<pm, client, wakelock, secure_client, group, attached, wakelock_count, calls>>

-----------------------------------------------------------------------------
(* edgetpu_ioctl_acquire_wakelock *)

\* The power reference.  The thermal check before it, or a refused power up,
\* ends the call.
acquire_pm_get(t, c, f) ==
    /\ pc[t] = "idle" /\ may_ioctl(c)
    /\ suspendable_count \in -MaxLeak..MaxLeak
    /\ gcip_pm_get("plain")
    /\ enter(t, c, "acquire", f)
    /\ UNCHANGED <<client, wakelock, secure_client, groups, wakelock_count, unpowered_access>>

\* edgetpu_wakelock_acquire returned -EOVERFLOW.  (Mutant: it never does.)
overflows_never(c) == FALSE
overflows(c) == req_count[c] > IntMax

marked(c, f) == IF f = "susp" THEN suspendable \cup {c} ELSE suspendable

acquire_locked_ok(t, c) ==
    /\ ~overflows(c)
    /\ req_count' = [req_count EXCEPT ![c] = @ + 1]
    /\ suspendable' = marked(c, flag[t])
    /\ IF req_count[c] = 0 THEN attach_ok(c) ELSE UNCHANGED attached /\ no_touch
    /\ IF c \in suspendable' THEN goto(t, "switch_get") ELSE return(t)

acquire_locked_overflow(t, c) ==
    /\ overflows(c)
    /\ UNCHANGED <<req_count, suspendable, attached>> /\ no_touch
    /\ goto(t, "fail_put")

\* The mailbox cannot be attached: edgetpu_wakelock_release undoes the acquisition.
acquire_locked_no_mailbox(t, c) ==
    /\ ~overflows(c) /\ req_count[c] = 0 /\ attach_fails(c)
    /\ UNCHANGED req_count
    /\ suspendable' = suspendable \ {c}
    /\ goto(t, "fail_put")

edgetpu_wakelock_acquire(t) ==
    /\ pc[t] = "acquire"
    /\ \/ acquire_locked_ok(t, on[t])
       \/ acquire_locked_overflow(t, on[t])
       \/ acquire_locked_no_mailbox(t, on[t])
    /\ UNCHANGED <<pm, client, event_count, secure_client, group, ext_mailbox, wakelock_count>>

\* (Mutant: the failed acquisition keeps its power reference.)
fail_put_nothing == UNCHANGED pm
fail_put == gcip_pm_put("plain")

acquire_fail_put(t) ==
    /\ pc[t] = "fail_put"
    /\ fail_put
    /\ return(t)
    /\ UNCHANGED <<client, wakelock, secure_client, groups, wakelock_count, unpowered_access>>

\* (Mutant: the suspendable reference is not taken.)
switch_get_skipped == UNCHANGED pm
switch_get == gcip_pm_get("susp") \/ gcip_pm_get_fails

\* "Grab a suspendable powerup request and drop the non-suspendable one":
\* the drop does not depend on the result of the first call.
acquire_switch_get(t) ==
    /\ pc[t] = "switch_get"
    /\ switch_get
    /\ goto(t, "switch_put")
    /\ UNCHANGED <<client, wakelock, secure_client, groups, wakelock_count, unpowered_access>>

acquire_switch_put(t) ==
    /\ pc[t] = "switch_put"
    /\ gcip_pm_put("plain")
    /\ return(t)
    /\ UNCHANGED <<client, wakelock, secure_client, groups, wakelock_count, unpowered_access>>

-----------------------------------------------------------------------------
(* edgetpu_ioctl_release_wakelock *)

\* Events forbid the last release.  (Mutant: they do not.)
refused_never(c) == req_count[c] = 0
refused(c) == req_count[c] = 0 \/ (req_count[c] = 1 /\ event_count[c] > 0)

edgetpu_wakelock_release(t, c) ==
    /\ pc[t] = "idle" /\ may_ioctl(c)
    /\ ~refused(c)
    /\ req_count' = [req_count EXCEPT ![c] = @ - 1]
    /\ IF req_count[c] = 1
       THEN suspendable' = suspendable \ {c} /\ edgetpu_group_close_and_detach_mailbox(c)
       ELSE UNCHANGED <<suspendable, attached>> /\ no_touch
    /\ enter(t, c, "release_put", IF c \in suspendable THEN "susp" ELSE "plain")
    /\ UNCHANGED <<pm, client, event_count, secure_client, group, ext_mailbox, wakelock_count>>

release_pm_put(t) ==
    /\ pc[t] = "release_put"
    /\ gcip_pm_put(flag[t])
    /\ return(t)
    /\ UNCHANGED <<client, wakelock, secure_client, groups, wakelock_count, unpowered_access>>

-----------------------------------------------------------------------------
(* The secure (TrustZone) mailbox: tz_mailbox_lock and wakelock->lock are
   held over each of these.  Activation may fail. *)

edgetpu_acquire_ext_mailbox(c) ==
    /\ may_ioctl(c) /\ secure_client = "none" /\ req_count[c] > 0
    /\ touch
    /\ \/ event_count' = [event_count EXCEPT ![c] = @ + 1] /\ secure_client' = c
       \/ UNCHANGED <<event_count, secure_client>>
    /\ UNCHANGED <<pm, client, req_count, suspendable, groups, wakelock_count, calls>>

\* edgetpu_mailbox_external_disable_by_id
disable_by_id(c) ==
    IF req_count[c] > 0
    THEN touch /\ event_count' = [event_count EXCEPT ![c] = IF @ > 0 THEN @ - 1 ELSE 0]
    ELSE no_touch /\ UNCHANGED event_count

edgetpu_release_ext_mailbox(c) ==
    /\ may_ioctl(c) /\ secure_client = c
    /\ secure_client' = "none" /\ disable_by_id(c)
    /\ UNCHANGED <<pm, client, req_count, suspendable, groups, wakelock_count, calls>>

-----------------------------------------------------------------------------
(* edgetpu_client_remove: the file was closed, no ioctl is in progress. *)

remove_begin(c) ==
    /\ client[c] = "open" /\ Busy(c) = {}
    /\ client' = [client EXCEPT ![c] = "disband"]
    /\ wakelock_count' = [wakelock_count EXCEPT ![c] = req_count[c]]
    /\ UNCHANGED <<pm, wakelock, secure_client, groups, calls, unpowered_access>>

\* dev_inaccessible: a client without the wakelock leaves the device alone.
\* (Mutant: it is not looked at.)
dev_inaccessible_ignored(c) == FALSE
dev_inaccessible(c) == wakelock_count[c] = 0

\* edgetpu_device_group_disband: close the mailbox, free the external ones.
remove_disband(c) ==
    /\ client[c] = "disband"
    /\ client' = [client EXCEPT ![c] = "ext"]
    /\ group' = [group EXCEPT ![c] = "none"]
    /\ attached' = attached \ {c} /\ ext_mailbox' = ext_mailbox \ {c}
    /\ IF ~dev_inaccessible(c) /\ (c \in attached \/ c \in ext_mailbox) THEN touch ELSE no_touch
    /\ UNCHANGED <<pm, wakelock, secure_client, wakelock_count, calls>>

edgetpu_ext_client_remove(c) ==
    /\ client[c] = "ext"
    /\ client' = [client EXCEPT ![c] = "put"]
    /\ IF secure_client = c THEN secure_client' = "none" /\ disable_by_id(c)
                            ELSE UNCHANGED <<secure_client, event_count, unpowered_access>>
    /\ UNCHANGED <<pm, req_count, suspendable, groups, wakelock_count, calls>>

\* The client is freed, its power references are dropped one by one.
remove_put(c) ==
    /\ client[c] = "put" /\ wakelock_count[c] > 0
    /\ gcip_pm_put("plain")
    /\ wakelock_count' = [wakelock_count EXCEPT ![c] = @ - 1]
    /\ UNCHANGED <<client, wakelock, secure_client, groups, calls, unpowered_access>>

remove_end(c) ==
    /\ client[c] = "put" /\ wakelock_count[c] = 0
    /\ client' = [client EXCEPT ![c] = "closed"]
    /\ UNCHANGED <<pm, wakelock, secure_client, groups, wakelock_count, calls, unpowered_access>>

-----------------------------------------------------------------------------
ClientNext(c) ==
    \/ edgetpu_client_add(c)
    \/ edgetpu_device_group_create(c) \/ edgetpu_group_fatal_error_notify(c)
    \/ edgetpu_mailbox_external_alloc_enable(c) \/ edgetpu_mailbox_external_disable_free(c)
    \/ edgetpu_acquire_ext_mailbox(c) \/ edgetpu_release_ext_mailbox(c)
    \/ remove_begin(c) \/ remove_disband(c) \/ edgetpu_ext_client_remove(c)
    \/ remove_put(c) \/ remove_end(c)

ThreadNext(t) ==
    \/ \E c \in Client : \E f \in AcquireFlags[c] : acquire_pm_get(t, c, f)
    \/ edgetpu_wakelock_acquire(t) \/ acquire_fail_put(t)
    \/ acquire_switch_get(t) \/ acquire_switch_put(t)
    \/ \E c \in Client : edgetpu_wakelock_release(t, c)
    \/ release_pm_put(t)

Next == (\E c \in Client : ClientNext(c)) \/ (\E t \in Thread : ThreadNext(t))

Spec == Init /\ [][Next]_vars

-----------------------------------------------------------------------------
(* Properties *)

\* The references that are owed: one for each request of a client that is open,
\* for each reference that the removal of a client has still to put, and for each
\* call that is going to put one.
Live == {c \in Client : client[c] = "open"}
Refs(c) == IF client[c] = "open" THEN req_count[c] ELSE wakelock_count[c]
Held == {h \in Client \X (1..IntMax + 1) : h[2] <= Refs(h[1])}
OwingStates == {"acquire", "fail_put", "switch_put", "release_put"}
Owing == {t \in Thread : pc[t] \in OwingStates}
Owed == Cardinality(Held) + Cardinality(Owing)

\* Power references are conserved: whatever ioctls overlap, fail half way or
\* are cut short by closing the file, every reference of the power manager
\* belongs to a wakelock request or to a call that will drop it.
PowerBalanced == count = Owed

\* "Acquire the wakelock for this client, ensures firmware keeps running":
\* a client that holds its wakelock with no call under way has power.
HeldMeansPowered ==
    \A c \in Client : client[c] = "open" /\ req_count[c] > 0 /\ Busy(c) = {} => count > 0

\* No path, client removal included, programs mailbox registers of a block
\* that may be powered off.
NoUnpoweredAccess == ~unpowered_access

\* A mailbox is attached only while its client holds the wakelock, and a
\* client with a working group that holds the wakelock has its mailbox.
MailboxFollowsWakelock ==
    \A c \in Live : /\ c \in attached => req_count[c] > 0
                    /\ req_count[c] > 0 /\ group[c] = "ready" => c \in attached

\* The owner of the secure mailbox cannot lose its wakelock.
SecureClientHoldsWakelock ==
    secure_client # "none" => client[secure_client] # "closed" /\ req_count[secure_client] > 0

\* gcip-pm.h on gcip_pm_get: "system suspend will be rejected while the power
\* up remains in effect".
PlainUserBlocksSuspend ==
    edgetpu_pm_suspend =>
        \A c \in Client : client[c] = "open" /\ req_count[c] > 0 /\ Busy(c) = {}
                            => c \in suspendable

\* edgetpu_pm_suspend: "Not suspendable but count 0 means there is pending power
\* down transition": with no users at all, nothing but that rejects suspend.
IdleDeviceSuspends == count = 0 => edgetpu_pm_suspend
=============================================================================
