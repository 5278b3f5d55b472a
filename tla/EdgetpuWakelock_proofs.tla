----------------------- MODULE EdgetpuWakelock_proofs -----------------------
(* Theorems about the client wakelocks of the edgetpu driver, for any finite *)
(* sets of clients and threads and any limit of the request count.           *)
EXTENDS EdgetpuWakelock, FiniteSetTheorems, TLAPS

\* A client that uses suspendable wakelocks makes one ioctl at a time.  Without
\* it the exchange of references in edgetpu_ioctl_acquire_wakelock loses one.
SuspendIsSerial == \A c \in Client : "susp" \in AcquireFlags[c] => c \in Serial

-----------------------------------------------------------------------------
(* The inductive invariant. *)

\* A call keeps its file open; on a serial client it is the only one, and only
\* there references are exchanged, while the request they belong to exists.
CallInv ==
    /\ \A t \in Thread :
         /\ pc[t] # "idle" => on[t] \in Live
         /\ pc[t] = "acquire" /\ flag[t] = "susp" => on[t] \in Serial
         /\ pc[t] = "switch_get" => on[t] \in Serial /\ req_count[on[t]] > 0
    /\ \A t, u \in Thread :
         pc[t] # "idle" /\ pc[u] # "idle" /\ on[t] = on[u] /\ on[t] \in Serial => t = u
    /\ suspendable \subseteq Serial

\* What edgetpu_client_remove has done so far.
RemoveInv ==
    \A c \in Client :
        /\ client[c] \in {"closed", "open"} => wakelock_count[c] = 0
        /\ client[c] \in {"disband", "ext"} => wakelock_count[c] = req_count[c]
        /\ client[c] \in {"closed", "ext", "put"} => group[c] = "none" /\ c \notin ext_mailbox
        /\ c \in attached => group[c] # "none"

\* The owner of the secure mailbox is the client with an event.
EventInv ==
    /\ \A c \in Client : event_count[c] > 0 <=> secure_client = c
    /\ \A c \in Client : secure_client = c =>
         req_count[c] > 0 /\ client[c] \in {"open", "disband", "ext"}

IInv ==
    /\ TypeOK /\ CallInv /\ RemoveInv /\ EventInv
    /\ PowerBalanced /\ NoUnpoweredAccess /\ MailboxFollowsWakelock

-----------------------------------------------------------------------------
(* Counting references *)

\* The requests and the calls that owe a reference are finitely many.
LEMMA RefsFinite ==
    /\ IsFiniteSet(Held) /\ Cardinality(Held) \in Nat
    /\ IsFiniteSet(Owing) /\ Cardinality(Owing) \in Nat
<1>1. IsFiniteSet(1..IntMax + 1) BY BoundsAssumption, FS_Interval
<1>2. IsFiniteSet(Client \X (1..IntMax + 1)) BY <1>1, ClientAssumption, FS_Product
<1>3. Held \subseteq Client \X (1..IntMax + 1) /\ Owing \subseteq Thread BY DEF Held, Owing
<1> QED BY <1>2, <1>3, ThreadAssumption, FS_Subset, FS_CardinalityType

\* The references of a client are a number up to the limit.
LEMMA RefsType ==
    ASSUME TypeOK, NEW c \in Client
    PROVE  Refs(c) \in Nat /\ Refs(c) <= IntMax + 1 /\ IntMax \in Nat
BY BoundsAssumption DEF TypeOK, Refs

\* What one request more or less does to the number of references.
LEMMA HeldMore ==
    ASSUME TypeOK, NEW c \in Client, Refs(c) <= IntMax,
           \A d \in Client : Refs(d)' = IF d = c THEN Refs(c) + 1 ELSE Refs(d)
    PROVE  Cardinality(Held') = Cardinality(Held) + 1
<1> DEFINE h == <<c, Refs(c) + 1>>
<1>1. h \in Client \X (1..IntMax + 1) BY RefsType
<1>2. h \notin Held BY RefsType DEF Held
<1>3. Held' = Held \cup {h}
  <2>1. ASSUME NEW x \in Client \X (1..IntMax + 1)
        PROVE  x[2] <= Refs(x[1])' <=> x[2] <= Refs(x[1]) \/ x = h
    <3>1. x[1] \in Client /\ x[2] \in Nat /\ x = <<x[1], x[2]>> BY BoundsAssumption
    <3>2. CASE x[1] # c BY <3>1, <3>2
    <3>3. CASE x[1] = c
      <4>1. x = h <=> x[2] = Refs(c) + 1 BY <3>1, <3>3
      <4> QED BY <3>1, <3>3, <4>1, RefsType
    <3> QED BY <3>2, <3>3
  <2> HIDE DEF h
  <2> QED BY <1>1, <2>1 DEF Held
<1> QED BY <1>2, <1>3, RefsFinite, FS_AddElement

\* One request less.
LEMMA HeldLess ==
    ASSUME TypeOK, NEW c \in Client, Refs(c) > 0,
           \A d \in Client : Refs(d)' = IF d = c THEN Refs(c) - 1 ELSE Refs(d)
    PROVE  Cardinality(Held') = Cardinality(Held) - 1
<1> DEFINE h == <<c, Refs(c)>>
<1>1. h \in Held BY RefsType DEF Held
<1>2. Held' = Held \ {h}
  <2>1. ASSUME NEW x \in Client \X (1..IntMax + 1)
        PROVE  x[2] <= Refs(x[1])' <=> x[2] <= Refs(x[1]) /\ x # h
    <3>1. x[1] \in Client /\ x[2] \in Nat /\ x = <<x[1], x[2]>> BY BoundsAssumption
    <3>2. CASE x[1] # c BY <3>1, <3>2
    <3>3. CASE x[1] = c
      <4>1. x = h <=> x[2] = Refs(c) BY <3>1, <3>3
      <4> QED BY <3>1, <3>3, <4>1, RefsType
    <3> QED BY <3>2, <3>3
  <2> HIDE DEF h
  <2> QED BY <2>1 DEF Held
<1> QED BY <1>1, <1>2, RefsFinite, FS_RemoveElement

\* As many requests of every client.
LEMMA HeldSame ==
    ASSUME \A d \in Client : Refs(d)' = Refs(d)
    PROVE  Held' = Held
<1>1. ASSUME NEW x \in Client \X (1..IntMax + 1) PROVE Refs(x[1])' = Refs(x[1]) OBVIOUS
<1> QED BY <1>1 DEF Held

\* What a call's move does to the number of calls that owe a reference.
LEMMA OwingMove ==
    ASSUME TypeOK, NEW t \in Thread, NEW s \in CallStates, pc' = [pc EXCEPT ![t] = s]
    PROVE  Cardinality(Owing') =
             IF s \in OwingStates
             THEN IF pc[t] \in OwingStates THEN Cardinality(Owing) ELSE Cardinality(Owing) + 1
             ELSE IF pc[t] \in OwingStates THEN Cardinality(Owing) - 1 ELSE Cardinality(Owing)
<1>1. Owing' = IF s \in OwingStates THEN Owing \cup {t} ELSE Owing \ {t} BY DEF TypeOK, Owing
<1>2. pc[t] \in OwingStates <=> t \in Owing BY DEF Owing
<1>3. Cardinality(Owing \cup {t}) = IF t \in Owing THEN Cardinality(Owing) ELSE Cardinality(Owing) + 1
  BY RefsFinite, FS_AddElement
<1>4. Cardinality(Owing \ {t}) = IF t \in Owing THEN Cardinality(Owing) - 1 ELSE Cardinality(Owing)
  BY RefsFinite, FS_RemoveElement
<1> QED BY <1>1, <1>2, <1>3, <1>4

\* Whoever owes a reference keeps the block powered.
LEMMA OwedIsPowered ==
    ASSUME TypeOK, PowerBalanced
    PROVE  /\ \A c \in Client : Refs(c) > 0 => count > 0
           /\ \A t \in Thread : pc[t] \in OwingStates => count > 0
<1>1. ASSUME NEW c \in Client, Refs(c) > 0 PROVE count > 0
  <2>1. <<c, Refs(c)>> \in Held BY <1>1, RefsType DEF Held
  <2>2. Cardinality(Held) > 0 BY <2>1, RefsFinite, FS_EmptySet
  <2> QED BY <2>2, RefsFinite DEF PowerBalanced, Owed
<1>2. ASSUME NEW t \in Thread, pc[t] \in OwingStates PROVE count > 0
  <2>1. t \in Owing BY <1>2 DEF Owing
  <2>2. Cardinality(Owing) > 0 BY <2>1, RefsFinite, FS_EmptySet
  <2> QED BY <2>2, RefsFinite DEF PowerBalanced, Owed
<1> QED BY <1>1, <1>2

\* Steps that move no reference.
LEMMA BalanceFrame ==
    ASSUME PowerBalanced, UNCHANGED <<count, pc>>, \A d \in Client : Refs(d)' = Refs(d)
    PROVE  PowerBalanced'
<1>1. Held' = Held BY HeldSame
<1>2. Owing' = Owing BY DEF Owing
<1> QED BY <1>1, <1>2 DEF PowerBalanced, Owed

-----------------------------------------------------------------------------
(* The power manager *)

\* A put while references are held drops one.
LEMMA PutDrops ==
    ASSUME TypeOK, count > 0, NEW f \in Flags, gcip_pm_put(f)
    PROVE  count' = count - 1 /\ count' \in Nat /\ suspendable_count' \in Int
BY DEF TypeOK, gcip_pm_put, clamp

\* A get takes one.
LEMMA GetTakes ==
    ASSUME TypeOK, NEW f \in Flags, gcip_pm_get(f)
    PROVE  count' = count + 1 /\ count' \in Nat /\ suspendable_count' \in Int
BY DEF TypeOK, gcip_pm_get, clamp

\* Registers accessed with power are not accessed without it.
LEMMA TouchPowered ==
    ASSUME NoUnpoweredAccess, touch, count > 0, count \in Nat
    PROVE  NoUnpoweredAccess' /\ unpowered_access' \in BOOLEAN
<1>1. unpowered_access' = FALSE
  <2>1. count # 0 OBVIOUS
  <2>2. ~unpowered_access BY DEF NoUnpoweredAccess
  <2> QED BY <2>1, <2>2, Zenon DEF touch
<1> QED BY <1>1, Zenon DEF NoUnpoweredAccess

-----------------------------------------------------------------------------
(* The invariant holds at the start *)

\* No file is open, the block is off.
LEMMA InitInv == Init => IInv
<1> SUFFICES ASSUME Init PROVE IInv OBVIOUS
<1>1. TypeOK
  <2>1. 0 \in 0..IntMax + 1 BY BoundsAssumption
  <2>2. unpowered_access \in BOOLEAN BY Zenon DEF Init
  <2> QED BY <2>1, <2>2 DEF Init, TypeOK, CallStates, Flags
<1>2. CallInv /\ RemoveInv /\ MailboxFollowsWakelock
  BY DEF Init, CallInv, RemoveInv, MailboxFollowsWakelock, Live
<1>3. EventInv BY ClientAssumption DEF Init, EventInv
<1>4. PowerBalanced
  <2>1. \A c \in Client : Refs(c) = 0 BY DEF Init, Refs
  <2>2. ASSUME NEW h \in Client \X (1..IntMax + 1) PROVE ~(h[2] <= Refs(h[1]))
    <3>1. h[1] \in Client /\ h[2] \in 1..IntMax + 1 OBVIOUS
    <3> QED BY <2>1, <3>1, BoundsAssumption
  <2>3. Held = {} BY <2>2 DEF Held
  <2>4. Owing = {} BY DEF Init, Owing, OwingStates
  <2> QED BY <2>3, <2>4, FS_EmptySet DEF Init, PowerBalanced, Owed
<1>5. NoUnpoweredAccess BY Zenon DEF Init, NoUnpoweredAccess
<1> QED BY <1>1, <1>2, <1>3, <1>4, <1>5 DEF IInv

-----------------------------------------------------------------------------
(* Files, groups and mailboxes *)

\* edgetpu_client_add and edgetpu_group_fatal_error_notify.
LEMMA AddInv ==
    ASSUME IInv, NEW c \in Client, edgetpu_client_add(c) \/ edgetpu_group_fatal_error_notify(c)
    PROVE  IInv'
<1> USE DEF IInv, pm, wakelock, groups, calls
<1>1. CASE edgetpu_client_add(c)
  <2> USE <1>1 DEF edgetpu_client_add
  <2>1. TypeOK' BY BoundsAssumption DEF TypeOK
  <2>2. CallInv' BY DEF CallInv, TypeOK, Live
  <2>3. RemoveInv' BY DEF RemoveInv, TypeOK
  <2>4. EventInv' BY DEF EventInv, TypeOK
  <2>5. \A d \in Client : Refs(d)' = Refs(d) BY DEF Refs, RemoveInv, TypeOK
  <2>6. PowerBalanced' BY <2>5, BalanceFrame
  <2>7. NoUnpoweredAccess' BY DEF NoUnpoweredAccess
  <2>8. MailboxFollowsWakelock' BY DEF MailboxFollowsWakelock, Live, RemoveInv, TypeOK
  <2> QED BY <2>1, <2>2, <2>3, <2>4, <2>6, <2>7, <2>8
<1>2. CASE edgetpu_group_fatal_error_notify(c)
  <2> USE <1>2 DEF edgetpu_group_fatal_error_notify
  <2>1. TypeOK' BY DEF TypeOK
  <2>2. CallInv' /\ EventInv' BY DEF CallInv, EventInv, Live
  <2>3. RemoveInv' BY DEF RemoveInv, TypeOK
  <2>4. \A d \in Client : Refs(d)' = Refs(d) BY DEF Refs
  <2>5. PowerBalanced' BY <2>4, BalanceFrame
  <2>6. NoUnpoweredAccess' BY DEF NoUnpoweredAccess
  <2>7. MailboxFollowsWakelock' BY DEF MailboxFollowsWakelock, Live, TypeOK
  <2> QED BY <2>1, <2>2, <2>3, <2>5, <2>6, <2>7
<1> QED BY <1>1, <1>2

\* edgetpu_device_group_create.
LEMMA GroupInv == ASSUME IInv, NEW c \in Client, edgetpu_device_group_create(c) PROVE IInv'
<1> USE DEF IInv, pm, wakelock, calls, edgetpu_device_group_create
<1>1. client[c] = "open" /\ req_count[c] \in Nat /\ count \in Nat /\ group[c] = "none"
  BY DEF may_ioctl, TypeOK
<1>2. NoUnpoweredAccess' /\ unpowered_access' \in BOOLEAN
  <2>1. CASE req_count[c] > 0
    <3>1. count > 0 BY <1>1, <2>1, OwedIsPowered DEF Refs
    <3> QED BY <1>1, <2>1, <3>1, TouchPowered
  <2>2. CASE ~(req_count[c] > 0) BY <2>2 DEF no_touch, NoUnpoweredAccess, TypeOK
  <2> QED BY <2>1, <2>2
<1>3. TypeOK' BY <1>2 DEF TypeOK
<1>4. CallInv' /\ EventInv' BY DEF CallInv, EventInv, Live
<1>5. RemoveInv' BY <1>1 DEF RemoveInv, TypeOK
<1>6. \A d \in Client : Refs(d)' = Refs(d) BY DEF Refs
<1>7. PowerBalanced' BY <1>6, BalanceFrame
<1>8. MailboxFollowsWakelock' BY <1>1 DEF MailboxFollowsWakelock, Live, TypeOK
<1> QED BY <1>2, <1>3, <1>4, <1>5, <1>7, <1>8

\* The external mailboxes of a group.
LEMMA ExternalInv ==
    ASSUME IInv, NEW c \in Client,
           \/ edgetpu_mailbox_external_alloc_enable(c) \/ edgetpu_mailbox_external_disable_free(c)
    PROVE  IInv'
<1> USE DEF IInv, pm, wakelock, calls
<1>1. /\ client[c] = "open" /\ ext_mailbox' \subseteq ext_mailbox \cup {c}
      /\ IF count > 0 THEN touch ELSE no_touch
      /\ UNCHANGED <<count, suspendable_count, client, req_count, suspendable, event_count,
                     secure_client, group, attached, wakelock_count, pc, on, flag>>
  BY DEF edgetpu_mailbox_external_alloc_enable, edgetpu_mailbox_external_disable_free, may_ioctl
<1>2. NoUnpoweredAccess' /\ unpowered_access' \in BOOLEAN
  BY <1>1, TouchPowered DEF no_touch, NoUnpoweredAccess, TypeOK
<1>3. TypeOK' BY <1>1, <1>2 DEF TypeOK
<1>4. CallInv' /\ EventInv' BY <1>1 DEF CallInv, EventInv, Live
<1>5. RemoveInv' BY <1>1 DEF RemoveInv, TypeOK
<1>6. \A d \in Client : Refs(d)' = Refs(d) BY <1>1 DEF Refs
<1>7. PowerBalanced' BY <1>1, <1>6, BalanceFrame
<1>8. MailboxFollowsWakelock' BY <1>1 DEF MailboxFollowsWakelock, Live
<1> QED BY <1>2, <1>3, <1>4, <1>5, <1>7, <1>8

\* The secure mailbox: an event forbids the last release of its client's wakelock.
LEMMA SecureInv ==
    ASSUME IInv, NEW c \in Client, edgetpu_acquire_ext_mailbox(c) \/ edgetpu_release_ext_mailbox(c)
    PROVE  IInv'
<1> USE DEF IInv, pm, wakelock, groups, calls
<1>1. /\ client[c] = "open" /\ count \in Nat /\ req_count[c] > 0
      /\ UNCHANGED <<count, suspendable_count, client, req_count, suspendable, group, attached,
                     ext_mailbox, wakelock_count, pc, on, flag>>
      /\ touch
  BY DEF edgetpu_acquire_ext_mailbox, edgetpu_release_ext_mailbox, may_ioctl, TypeOK, EventInv,
         disable_by_id
<1>2. count > 0 BY <1>1, OwedIsPowered DEF Refs
<1>3. NoUnpoweredAccess' /\ unpowered_access' \in BOOLEAN BY <1>1, <1>2, TouchPowered
<1>4. /\ event_count' \in [Client -> 0..1] /\ secure_client' \in Client \cup {"none"}
      /\ EventInv'
  <2>1. CASE edgetpu_acquire_ext_mailbox(c)
    <3>1. event_count[c] = 0 /\ \A d \in Client : event_count[d] \in 0..1
      BY <2>1, ClientAssumption DEF edgetpu_acquire_ext_mailbox, EventInv, TypeOK
    <3> QED BY <1>1, <2>1, <3>1, ClientAssumption DEF edgetpu_acquire_ext_mailbox, EventInv, TypeOK
  <2>2. CASE edgetpu_release_ext_mailbox(c)
    <3>1. event_count' = [event_count EXCEPT ![c] = 0] /\ secure_client' = "none"
      BY <1>1, <2>2 DEF edgetpu_release_ext_mailbox, disable_by_id, TypeOK
    <3> QED BY <1>1, <2>2, <3>1, ClientAssumption DEF edgetpu_release_ext_mailbox, EventInv, TypeOK
  <2> QED BY <2>1, <2>2
<1>5. TypeOK' BY <1>1, <1>3, <1>4 DEF TypeOK
<1>6. CallInv' /\ RemoveInv' /\ MailboxFollowsWakelock'
  BY <1>1 DEF CallInv, RemoveInv, MailboxFollowsWakelock, Live
<1>7. \A d \in Client : Refs(d)' = Refs(d) BY <1>1 DEF Refs
<1>8. PowerBalanced' BY <1>1, <1>7, BalanceFrame
<1> QED BY <1>3, <1>4, <1>5, <1>6, <1>8

-----------------------------------------------------------------------------
(* edgetpu_client_remove *)

\* The file was closed: the references of the client are now those to be put.
LEMMA RemoveBeginInv == ASSUME IInv, NEW c \in Client, remove_begin(c) PROVE IInv'
<1> USE DEF IInv, pm, wakelock, groups, calls, remove_begin
<1>1. TypeOK' BY DEF TypeOK
<1>2. CallInv' BY DEF CallInv, Live, Busy, TypeOK
<1>3. RemoveInv' /\ EventInv' BY DEF RemoveInv, EventInv, TypeOK
<1>4. \A d \in Client : Refs(d)' = Refs(d) BY DEF Refs, TypeOK
<1>5. PowerBalanced' BY <1>4, BalanceFrame
<1>6. NoUnpoweredAccess' BY DEF NoUnpoweredAccess
<1>7. MailboxFollowsWakelock' BY DEF MailboxFollowsWakelock, Live, TypeOK
<1> QED BY <1>1, <1>2, <1>3, <1>5, <1>6, <1>7

\* The group goes; the device is accessed only if the wakelock was held.
LEMMA DisbandInv == ASSUME IInv, NEW c \in Client, remove_disband(c) PROVE IInv'
<1> USE DEF IInv, pm, wakelock, calls
<1>1. /\ client[c] = "disband" /\ client' = [client EXCEPT ![c] = "ext"]
      /\ group' = [group EXCEPT ![c] = "none"]
      /\ attached' = attached \ {c} /\ ext_mailbox' = ext_mailbox \ {c}
      /\ UNCHANGED <<count, suspendable_count, req_count, suspendable, event_count, secure_client,
                     wakelock_count, pc, on, flag>>
  BY DEF remove_disband
<1>2. NoUnpoweredAccess' /\ unpowered_access' \in BOOLEAN
  <2>1. CASE wakelock_count[c] = 0
    BY <2>1 DEF remove_disband, dev_inaccessible, no_touch, NoUnpoweredAccess, TypeOK
  <2>2. CASE wakelock_count[c] # 0
    <3>1. wakelock_count[c] > 0 /\ count \in Nat BY <2>2, BoundsAssumption DEF TypeOK
    <3>2. count > 0 BY <1>1, <3>1, OwedIsPowered DEF Refs
    <3> QED BY <3>1, <3>2, TouchPowered DEF remove_disband, no_touch, NoUnpoweredAccess, TypeOK
  <2> QED BY <2>1, <2>2
<1>3. TypeOK' BY <1>1, <1>2 DEF TypeOK
<1>4. CallInv' BY <1>1 DEF CallInv, Live, TypeOK
<1>5. RemoveInv' /\ EventInv' BY <1>1 DEF RemoveInv, EventInv, TypeOK
<1>6. \A d \in Client : Refs(d)' = Refs(d) BY <1>1 DEF Refs, TypeOK
<1>7. PowerBalanced' BY <1>1, <1>6, BalanceFrame
<1>8. MailboxFollowsWakelock' BY <1>1 DEF MailboxFollowsWakelock, Live, TypeOK
<1> QED BY <1>2, <1>3, <1>4, <1>5, <1>7, <1>8

\* The secure mailbox of the client is closed with the wakelock still counted.
LEMMA ExtRemoveInv == ASSUME IInv, NEW c \in Client, edgetpu_ext_client_remove(c) PROVE IInv'
<1> USE DEF IInv, pm, groups, calls
<1>1. /\ client[c] = "ext" /\ client' = [client EXCEPT ![c] = "put"]
      /\ UNCHANGED <<count, suspendable_count, req_count, suspendable, group, attached, ext_mailbox,
                     wakelock_count, pc, on, flag>>
  BY DEF edgetpu_ext_client_remove
<1>2. /\ NoUnpoweredAccess' /\ unpowered_access' \in BOOLEAN
      /\ event_count' \in [Client -> 0..1] /\ secure_client' \in Client \cup {"none"}
      /\ EventInv'
  <2>1. CASE secure_client = c
    <3>1. req_count[c] > 0 /\ wakelock_count[c] = req_count[c] /\ count \in Nat
      BY <1>1, <2>1 DEF EventInv, RemoveInv, TypeOK
    <3>2. count > 0 BY <1>1, <3>1, OwedIsPowered DEF Refs
    <3>3. touch /\ event_count' = [event_count EXCEPT ![c] = 0] /\ secure_client' = "none"
      BY <2>1, <3>1 DEF edgetpu_ext_client_remove, disable_by_id, TypeOK
    <3>4. NoUnpoweredAccess' /\ unpowered_access' \in BOOLEAN BY <3>1, <3>2, <3>3, TouchPowered
    <3> QED BY <1>1, <2>1, <3>3, <3>4, ClientAssumption DEF EventInv, TypeOK
  <2>2. CASE secure_client # c
    <3>1. UNCHANGED <<secure_client, event_count, unpowered_access>>
      BY <2>2 DEF edgetpu_ext_client_remove
    <3> QED BY <1>1, <2>2, <3>1 DEF EventInv, TypeOK, NoUnpoweredAccess
  <2> QED BY <2>1, <2>2
<1>3. TypeOK' BY <1>1, <1>2 DEF TypeOK
<1>4. CallInv' BY <1>1 DEF CallInv, Live, TypeOK
<1>5. RemoveInv' BY <1>1 DEF RemoveInv, TypeOK
<1>6. \A d \in Client : Refs(d)' = Refs(d) BY <1>1 DEF Refs, TypeOK
<1>7. PowerBalanced' BY <1>1, <1>6, BalanceFrame
<1>8. MailboxFollowsWakelock' BY <1>1 DEF MailboxFollowsWakelock, Live, TypeOK
<1> QED BY <1>2, <1>3, <1>4, <1>5, <1>7, <1>8

\* The references of the removed client are put one by one.
LEMMA RemovePutInv == ASSUME IInv, NEW c \in Client, remove_put(c) PROVE IInv'
<1> USE DEF IInv, wakelock, groups, calls
<1>1. /\ client[c] = "put" /\ wakelock_count[c] > 0 /\ wakelock_count[c] \in Nat
      /\ wakelock_count' = [wakelock_count EXCEPT ![c] = @ - 1]
      /\ UNCHANGED <<client, req_count, suspendable, event_count, secure_client, group, attached,
                     ext_mailbox, pc, on, flag, unpowered_access>>
  BY BoundsAssumption DEF remove_put, TypeOK
<1>2. Refs(c) > 0 /\ \A d \in Client : Refs(d)' = IF d = c THEN Refs(c) - 1 ELSE Refs(d)
  BY <1>1 DEF Refs, TypeOK
<1>3. count > 0 BY <1>2, OwedIsPowered
<1>4. count' = count - 1 /\ count' \in Nat /\ suspendable_count' \in Int
  BY <1>3, PutDrops DEF remove_put, Flags
<1>5. TypeOK' BY <1>1, <1>4, BoundsAssumption DEF TypeOK
<1>6. PowerBalanced'
  <2>1. Cardinality(Held') = Cardinality(Held) - 1 BY <1>2, HeldLess
  <2>2. Owing' = Owing BY <1>1 DEF Owing
  <2> QED BY <1>4, <2>1, <2>2, RefsFinite DEF PowerBalanced, Owed
<1>7. CallInv' /\ EventInv' /\ NoUnpoweredAccess' /\ MailboxFollowsWakelock'
  BY <1>1 DEF CallInv, EventInv, NoUnpoweredAccess, MailboxFollowsWakelock, Live
<1>8. RemoveInv' BY <1>1 DEF RemoveInv, TypeOK
<1> QED BY <1>5, <1>6, <1>7, <1>8

\* The removed client is gone.
LEMMA RemoveEndInv == ASSUME IInv, NEW c \in Client, remove_end(c) PROVE IInv'
<1> USE DEF IInv, pm, wakelock, groups, calls, remove_end
<1>1. TypeOK' BY DEF TypeOK
<1>2. CallInv' BY DEF CallInv, Live, TypeOK
<1>3. RemoveInv' /\ EventInv' BY DEF RemoveInv, EventInv, TypeOK
<1>4. \A d \in Client : Refs(d)' = Refs(d) BY DEF Refs, TypeOK
<1>5. PowerBalanced' BY <1>4, BalanceFrame
<1>6. NoUnpoweredAccess' BY DEF NoUnpoweredAccess
<1>7. MailboxFollowsWakelock' BY DEF MailboxFollowsWakelock, Live, TypeOK
<1> QED BY <1>1, <1>2, <1>3, <1>5, <1>6, <1>7

-----------------------------------------------------------------------------
(* The wakelock ioctls *)

\* Whether a call that moves keeps the rules of calls: while on a client that is
\* open, alone on a serial one, and exchanging references only for a request.
LEMMA CallMoves ==
    ASSUME TypeOK, CallInv, NEW t \in Thread, NEW s \in CallStates,
           pc' = [pc EXCEPT ![t] = s], s # "idle" => pc[t] # "idle",
           s # "idle" => on' = on, s = "idle" => on' = [on EXCEPT ![t] = "none"],
           \A u \in Thread : u # t => flag'[u] = flag[u], s # "acquire",
           s = "switch_get" => on[t] \in Serial /\ req_count'[on[t]] > 0,
           client' = client, suspendable' \subseteq Serial,
           \A u \in Thread : pc[u] = "switch_get" /\ u # t => req_count'[on[u]] > 0
    PROVE  CallInv'
<1>1. pc' \in [Thread -> CallStates] /\ on' \in [Thread -> Client \cup {"none"}]
  BY DEF TypeOK
<1>2. \A u \in Thread : u # t => pc'[u] = pc[u] /\ on'[u] = on[u] BY DEF TypeOK
<1>3. pc'[t] = s /\ (s # "idle" => on'[t] = on[t]) BY DEF TypeOK
<1> QED BY <1>2, <1>3 DEF CallInv, Live

\* The power reference before the acquisition.
LEMMA AcquireGetInv ==
    ASSUME SuspendIsSerial, IInv, NEW t \in Thread, NEW c \in Client, NEW f \in AcquireFlags[c],
           acquire_pm_get(t, c, f)
    PROVE  IInv'
<1> USE DEF IInv, wakelock, groups, enter
<1>1. f \in Flags /\ (f = "susp" => c \in Serial) BY FlagsAssumption DEF SuspendIsSerial
<1>2. /\ pc[t] = "idle" /\ client[c] = "open" /\ (c \in Serial => Busy(c) = {})
      /\ pc' = [pc EXCEPT ![t] = "acquire"] /\ on' = [on EXCEPT ![t] = c]
      /\ flag' = [flag EXCEPT ![t] = f]
      /\ UNCHANGED <<client, req_count, suspendable, event_count, secure_client, group, attached,
                     ext_mailbox, wakelock_count, unpowered_access>>
  BY DEF acquire_pm_get, may_ioctl
<1>3. count' = count + 1 /\ count' \in Nat /\ suspendable_count' \in Int
  BY GetTakes DEF acquire_pm_get, Flags
<1>4. TypeOK' BY <1>1, <1>2, <1>3 DEF TypeOK, CallStates
<1>5. CallInv'
  <2>1. /\ \A u \in Thread : u # t => pc'[u] = pc[u] /\ on'[u] = on[u] /\ flag'[u] = flag[u]
        /\ pc'[t] = "acquire" /\ on'[t] = c /\ flag'[t] = f
    BY <1>2 DEF TypeOK
  <2>2. c \in Serial => \A u \in Thread : pc[u] = "idle" \/ on[u] # c BY <1>2 DEF Busy
  <2> QED BY <1>1, <1>2, <2>1, <2>2 DEF CallInv, Live
<1>6. RemoveInv' /\ EventInv' /\ NoUnpoweredAccess' /\ MailboxFollowsWakelock'
  BY <1>2 DEF RemoveInv, EventInv, NoUnpoweredAccess, MailboxFollowsWakelock, Live
<1>7. PowerBalanced'
  <2>1. Held' = Held
    <3>1. \A d \in Client : Refs(d)' = Refs(d) BY <1>2 DEF Refs
    <3> QED BY <3>1, HeldSame
  <2>2. Cardinality(Owing') = Cardinality(Owing) + 1
    BY <1>2, OwingMove DEF CallStates, OwingStates
  <2> QED BY <1>3, <2>1, <2>2, RefsFinite DEF PowerBalanced, Owed
<1> QED BY <1>4, <1>5, <1>6, <1>7

\* edgetpu_wakelock_acquire: the reference passes from the call to the request.
LEMMA AcquireOkInv ==
    ASSUME IInv, NEW t \in Thread, edgetpu_wakelock_acquire(t), acquire_locked_ok(t, on[t])
    PROVE  IInv'
<1> USE DEF IInv, pm
<1> DEFINE c == on[t]
<1>1. /\ c \in Client /\ client[c] = "open" /\ pc[t] = "acquire" /\ count \in Nat
      /\ req_count[c] \in Nat /\ req_count[c] <= IntMax /\ IntMax \in Nat
      /\ (flag[t] = "susp" => c \in Serial)
      /\ req_count' = [req_count EXCEPT ![c] = @ + 1] /\ suspendable' = marked(c, flag[t])
      /\ UNCHANGED <<count, suspendable_count, client, event_count, secure_client, group,
                     ext_mailbox, wakelock_count>>
  BY BoundsAssumption
  DEF edgetpu_wakelock_acquire, acquire_locked_ok, overflows, CallInv, Live, TypeOK
<1>2. count > 0 BY <1>1, OwedIsPowered DEF OwingStates
<1>3. /\ NoUnpoweredAccess' /\ unpowered_access' \in BOOLEAN
      /\ attached' = IF req_count[c] = 0 /\ group[c] = "ready" THEN attached \cup {c} ELSE attached
  <2>1. CASE req_count[c] = 0 /\ group[c] = "ready"
    BY <1>1, <1>2, <2>1, TouchPowered DEF acquire_locked_ok, attach_ok
  <2>2. CASE ~(req_count[c] = 0 /\ group[c] = "ready")
    BY <2>2 DEF acquire_locked_ok, attach_ok, no_touch, NoUnpoweredAccess, TypeOK
  <2> QED BY <2>1, <2>2
<1>4. suspendable' \subseteq Serial \cap Client /\ (c \in suspendable' => c \in Serial)
  BY <1>1, FlagsAssumption DEF marked, CallInv
<1>5. PICK s \in {"idle", "switch_get"} :
        /\ pc' = [pc EXCEPT ![t] = s] /\ (s = "switch_get" => c \in Serial)
        /\ s # "idle" => on' = on /\ flag' = flag
        /\ s = "idle" => on' = [on EXCEPT ![t] = "none"] /\ flag' = [flag EXCEPT ![t] = "plain"]
  BY <1>4 DEF acquire_locked_ok, goto, return
<1>6. TypeOK'
  <2>1. pc' \in [Thread -> CallStates] BY <1>5 DEF TypeOK, CallStates
  <2>2. on' \in [Thread -> Client \cup {"none"}] /\ flag' \in [Thread -> Flags]
    BY <1>5 DEF TypeOK, Flags
  <2>3. req_count' \in [Client -> 0..IntMax + 1] BY <1>1 DEF TypeOK
  <2>4. attached' \in SUBSET Client /\ suspendable' \in SUBSET Client BY <1>1, <1>3, <1>4 DEF TypeOK
  <2> QED BY <1>1, <1>3, <2>1, <2>2, <2>3, <2>4 DEF TypeOK
<1>7. /\ req_count'[c] = req_count[c] + 1
      /\ \A d \in Client : d # c => req_count'[d] = req_count[d]
  BY <1>1 DEF TypeOK
<1>8. CallInv'
  <2>1. s \in CallStates BY <1>5 DEF CallStates
  <2>2. \A u \in Thread : u # t => flag'[u] = flag[u] BY <1>5 DEF TypeOK
  <2>3. \A u \in Thread : pc[u] = "switch_get" => on[u] \in Client /\ req_count[on[u]] > 0
    BY DEF CallInv, Live
  <2>4. \A u \in Thread : pc[u] = "switch_get" => req_count'[on[u]] > 0 BY <1>1, <1>7, <2>3
  <2>5. /\ suspendable' \subseteq Serial /\ s # "acquire" /\ pc[t] # "idle"
        /\ (s = "switch_get" => req_count'[on[t]] > 0)
    BY <1>1, <1>4, <1>5, <1>7
  <2> QED BY <1>1, <1>5, <2>1, <2>2, <2>4, <2>5, CallMoves
<1>9. RemoveInv' BY <1>1, <1>3 DEF RemoveInv, TypeOK
<1>10. EventInv' BY <1>1, <1>7 DEF EventInv, TypeOK
<1>11. MailboxFollowsWakelock' BY <1>1, <1>3, <1>7 DEF MailboxFollowsWakelock, Live, TypeOK
<1>12. PowerBalanced'
  <2>1. \A d \in Client : Refs(d)' = IF d = c THEN Refs(c) + 1 ELSE Refs(d)
    BY <1>1, <1>7 DEF Refs
  <2>2. Refs(c) <= IntMax BY <1>1 DEF Refs
  <2>3. Cardinality(Held') = Cardinality(Held) + 1 BY <1>1, <2>1, <2>2, HeldMore
  <2>4. Cardinality(Owing') = Cardinality(Owing) - 1
    BY <1>1, <1>5, OwingMove DEF CallStates, OwingStates
  <2> QED BY <1>1, <2>3, <2>4, RefsFinite DEF PowerBalanced, Owed
<1> QED BY <1>3, <1>6, <1>8, <1>9, <1>10, <1>11, <1>12

\* The acquisition fails: the request count at its limit, or no mailbox.
LEMMA AcquireFailsInv ==
    ASSUME IInv, NEW t \in Thread, edgetpu_wakelock_acquire(t),
           acquire_locked_overflow(t, on[t]) \/ acquire_locked_no_mailbox(t, on[t])
    PROVE  IInv'
<1> USE DEF IInv, pm
<1> DEFINE c == on[t]
<1>1. /\ c \in Client /\ client[c] = "open" /\ pc[t] = "acquire" /\ count \in Nat
      /\ UNCHANGED <<count, suspendable_count, client, event_count, secure_client, group,
                     ext_mailbox, wakelock_count, req_count, attached, on, flag>>
      /\ pc' = [pc EXCEPT ![t] = "fail_put"] /\ suspendable' \subseteq suspendable
  BY DEF edgetpu_wakelock_acquire, acquire_locked_overflow, acquire_locked_no_mailbox, CallInv, Live,
         TypeOK, goto, attach_fails
<1>2. count > 0 BY <1>1, OwedIsPowered DEF OwingStates
<1>3. NoUnpoweredAccess' /\ unpowered_access' \in BOOLEAN
  BY <1>1, <1>2, TouchPowered
  DEF acquire_locked_overflow, acquire_locked_no_mailbox, attach_fails, no_touch, NoUnpoweredAccess,
      TypeOK
<1>4. TypeOK' BY <1>1, <1>3 DEF TypeOK, CallStates
<1>5. CallInv'
  <2>1. \A u \in Thread : pc[u] = "switch_get" => req_count'[on[u]] > 0 BY <1>1 DEF CallInv
  <2>2. suspendable' \subseteq Serial BY <1>1 DEF CallInv
  <2> QED BY <1>1, <2>1, <2>2, CallMoves DEF CallStates
<1>6. RemoveInv' /\ EventInv' /\ MailboxFollowsWakelock'
  BY <1>1 DEF RemoveInv, EventInv, MailboxFollowsWakelock, Live
<1>7. PowerBalanced'
  <2>1. Held' = Held
    <3>1. \A d \in Client : Refs(d)' = Refs(d) BY <1>1 DEF Refs
    <3> QED BY <3>1, HeldSame
  <2>2. Cardinality(Owing') = Cardinality(Owing)
    BY <1>1, OwingMove DEF CallStates, OwingStates
  <2> QED BY <1>1, <2>1, <2>2 DEF PowerBalanced, Owed
<1> QED BY <1>3, <1>4, <1>5, <1>6, <1>7

\* A call puts the reference it owes and returns.
LEMMA PutInv ==
    ASSUME IInv, NEW t \in Thread, NEW f \in Flags, pc[t] \in OwingStates, gcip_pm_put(f), return(t),
           UNCHANGED <<client, wakelock, secure_client, groups, wakelock_count, unpowered_access>>
    PROVE  IInv'
<1> USE DEF IInv, wakelock, groups, return
<1>1. count > 0 BY OwedIsPowered
<1>2. count' = count - 1 /\ count' \in Nat /\ suspendable_count' \in Int BY <1>1, PutDrops
<1>3. TypeOK' BY <1>2 DEF TypeOK, CallStates, Flags
<1>4. CallInv'
  <2>1. \A u \in Thread : pc[u] = "switch_get" => req_count'[on[u]] > 0 BY DEF CallInv
  <2>2. \A u \in Thread : u # t => flag'[u] = flag[u] BY DEF TypeOK
  <2>3. suspendable' \subseteq Serial BY DEF CallInv
  <2> QED BY <2>1, <2>2, <2>3, CallMoves DEF CallStates
<1>5. RemoveInv' /\ EventInv' /\ NoUnpoweredAccess' /\ MailboxFollowsWakelock'
  BY DEF RemoveInv, EventInv, NoUnpoweredAccess, MailboxFollowsWakelock, Live
<1>6. PowerBalanced'
  <2>1. Held' = Held
    <3>1. \A d \in Client : Refs(d)' = Refs(d) BY DEF Refs
    <3> QED BY <3>1, HeldSame
  <2>2. Cardinality(Owing') = Cardinality(Owing) - 1 BY OwingMove DEF CallStates, OwingStates
  <2> QED BY <1>2, <2>1, <2>2, RefsFinite DEF PowerBalanced, Owed
<1> QED BY <1>3, <1>4, <1>5, <1>6

\* The suspendable reference of the exchange is never refused: the request it is
\* for holds the plain one.
LEMMA SwitchGetInv == ASSUME IInv, NEW t \in Thread, acquire_switch_get(t) PROVE IInv'
<1> USE DEF IInv, wakelock, groups, goto
<1>1. /\ pc[t] = "switch_get" /\ pc' = [pc EXCEPT ![t] = "switch_put"]
      /\ UNCHANGED <<on, flag, client, req_count, suspendable, event_count, secure_client, group,
                     attached, ext_mailbox, wakelock_count, unpowered_access>>
  BY DEF acquire_switch_get
<1>2. on[t] \in Client /\ Refs(on[t]) > 0 BY <1>1 DEF CallInv, Live, Refs
<1>3. count > 0 /\ count \in Nat BY <1>2, OwedIsPowered DEF TypeOK
<1>4. gcip_pm_get("susp") BY <1>3 DEF acquire_switch_get, switch_get, gcip_pm_get_fails
<1>5. count' = count + 1 /\ count' \in Nat /\ suspendable_count' \in Int
  BY <1>4, GetTakes DEF Flags
<1>6. TypeOK' BY <1>1, <1>5 DEF TypeOK, CallStates
<1>7. CallInv'
  <2>1. \A u \in Thread : pc[u] = "switch_get" => req_count'[on[u]] > 0 BY <1>1 DEF CallInv
  <2>2. suspendable' \subseteq Serial BY <1>1 DEF CallInv
  <2> QED BY <1>1, <2>1, <2>2, CallMoves DEF CallStates
<1>8. RemoveInv' /\ EventInv' /\ NoUnpoweredAccess' /\ MailboxFollowsWakelock'
  BY <1>1 DEF RemoveInv, EventInv, NoUnpoweredAccess, MailboxFollowsWakelock, Live
<1>9. PowerBalanced'
  <2>1. Held' = Held
    <3>1. \A d \in Client : Refs(d)' = Refs(d) BY <1>1 DEF Refs
    <3> QED BY <3>1, HeldSame
  <2>2. Cardinality(Owing') = Cardinality(Owing) + 1
    BY <1>1, OwingMove DEF CallStates, OwingStates
  <2> QED BY <1>5, <2>1, <2>2, RefsFinite DEF PowerBalanced, Owed
<1> QED BY <1>6, <1>7, <1>8, <1>9

\* edgetpu_wakelock_release: the reference passes from the request to the call.
LEMMA ReleaseInv ==
    ASSUME IInv, NEW t \in Thread, NEW c \in Client, edgetpu_wakelock_release(t, c) PROVE IInv'
<1> USE DEF IInv, pm, enter
<1>1. /\ client[c] = "open" /\ pc[t] = "idle" /\ count \in Nat /\ req_count[c] \in Nat
      /\ req_count[c] > 0 /\ (event_count[c] > 0 => req_count[c] > 1)
      /\ (c \in Serial => Busy(c) = {})
      /\ req_count' = [req_count EXCEPT ![c] = @ - 1] /\ suspendable' \subseteq suspendable
      /\ pc' = [pc EXCEPT ![t] = "release_put"] /\ on' = [on EXCEPT ![t] = c]
      /\ UNCHANGED <<count, suspendable_count, client, event_count, secure_client, group,
                     ext_mailbox, wakelock_count>>
  BY BoundsAssumption DEF edgetpu_wakelock_release, refused, may_ioctl, TypeOK
<1>2. PICK f \in Flags : flag' = [flag EXCEPT ![t] = f]
  BY DEF edgetpu_wakelock_release, Flags
<1>3. count > 0 BY <1>1, OwedIsPowered DEF Refs
<1>4. /\ NoUnpoweredAccess' /\ unpowered_access' \in BOOLEAN
      /\ attached' = IF req_count[c] = 1 /\ group[c] # "none" THEN attached \ {c} ELSE attached
  <2>1. CASE req_count[c] = 1 /\ group[c] # "none"
    BY <1>1, <1>3, <2>1, TouchPowered
    DEF edgetpu_wakelock_release, edgetpu_group_close_and_detach_mailbox
  <2>2. CASE ~(req_count[c] = 1 /\ group[c] # "none")
    BY <2>2 DEF edgetpu_wakelock_release, edgetpu_group_close_and_detach_mailbox, no_touch,
                NoUnpoweredAccess, TypeOK
  <2> QED BY <2>1, <2>2
<1>5. /\ req_count'[c] = req_count[c] - 1
      /\ \A d \in Client : d # c => req_count'[d] = req_count[d]
  BY <1>1 DEF TypeOK
<1>6. TypeOK'
  <2>1. req_count' \in [Client -> 0..IntMax + 1] BY <1>1, BoundsAssumption DEF TypeOK
  <2>2. pc' \in [Thread -> CallStates] BY <1>1 DEF TypeOK, CallStates
  <2>3. on' \in [Thread -> Client \cup {"none"}] /\ flag' \in [Thread -> Flags]
    BY <1>1, <1>2 DEF TypeOK
  <2>4. attached' \in SUBSET Client /\ suspendable' \in SUBSET Client BY <1>1, <1>4 DEF TypeOK
  <2> QED BY <1>1, <1>4, <2>1, <2>2, <2>3, <2>4 DEF TypeOK
<1>7. CallInv'
  <2>1. /\ \A u \in Thread : u # t => pc'[u] = pc[u] /\ on'[u] = on[u] /\ flag'[u] = flag[u]
        /\ pc'[t] = "release_put" /\ on'[t] = c
    BY <1>1, <1>2 DEF TypeOK
  <2>2. c \in Serial => \A u \in Thread : pc[u] = "idle" \/ on[u] # c BY <1>1 DEF Busy
  <2>3. \A u \in Thread : pc[u] = "switch_get" => on[u] \in Client /\ req_count'[on[u]] > 0
    BY <1>5, <2>2 DEF CallInv, Live
  <2> QED BY <1>1, <2>1, <2>2, <2>3 DEF CallInv, Live
<1>8. RemoveInv' BY <1>1, <1>4, <1>5 DEF RemoveInv
<1>9. EventInv' BY <1>1, <1>5 DEF EventInv, TypeOK
<1>10. MailboxFollowsWakelock'
  BY <1>1, <1>4, <1>5 DEF MailboxFollowsWakelock, Live, RemoveInv, TypeOK
<1>11. PowerBalanced'
  <2>1. Refs(c) > 0 /\ \A d \in Client : Refs(d)' = IF d = c THEN Refs(c) - 1 ELSE Refs(d)
    BY <1>1, <1>5 DEF Refs
  <2>2. Cardinality(Held') = Cardinality(Held) - 1 BY <2>1, HeldLess
  <2>3. Cardinality(Owing') = Cardinality(Owing) + 1
    BY <1>1, OwingMove DEF CallStates, OwingStates
  <2> QED BY <1>1, <2>2, <2>3, RefsFinite DEF PowerBalanced, Owed
<1> QED BY <1>4, <1>6, <1>7, <1>8, <1>9, <1>10, <1>11

-----------------------------------------------------------------------------
(* The theorems *)

\* A step of a client.
LEMMA ClientInv == ASSUME IInv, NEW c \in Client, ClientNext(c) PROVE IInv'
BY AddInv, GroupInv, ExternalInv, SecureInv, RemoveBeginInv, DisbandInv, ExtRemoveInv, RemovePutInv,
   RemoveEndInv
DEF ClientNext

\* A step of an ioctl.
LEMMA ThreadInv == ASSUME SuspendIsSerial, IInv, NEW t \in Thread, ThreadNext(t) PROVE IInv'
<1>1. ASSUME NEW c \in Client, NEW f \in AcquireFlags[c], acquire_pm_get(t, c, f) PROVE IInv'
  BY <1>1, AcquireGetInv
<1>2. CASE edgetpu_wakelock_acquire(t)
  BY <1>2, AcquireOkInv, AcquireFailsInv DEF edgetpu_wakelock_acquire
<1>3. CASE acquire_fail_put(t)
  BY <1>3, PutInv DEF acquire_fail_put, fail_put, OwingStates, Flags
<1>4. CASE acquire_switch_get(t) BY <1>4, SwitchGetInv
<1>5. CASE acquire_switch_put(t)
  BY <1>5, PutInv DEF acquire_switch_put, OwingStates, Flags
<1>6. ASSUME NEW c \in Client, edgetpu_wakelock_release(t, c) PROVE IInv' BY <1>6, ReleaseInv
<1>7. CASE release_pm_put(t)
  <2>1. flag[t] \in Flags BY DEF IInv, TypeOK
  <2> QED BY <1>7, <2>1, PutInv DEF release_pm_put, OwingStates
<1> QED BY <1>1, <1>2, <1>3, <1>4, <1>5, <1>6, <1>7 DEF ThreadNext

\* Every step, or none, keeps the invariant.
LEMMA StepInv == ASSUME SuspendIsSerial PROVE IInv /\ [Next]_vars => IInv'
<1> SUFFICES ASSUME IInv, [Next]_vars PROVE IInv' OBVIOUS
<1>1. CASE UNCHANGED vars
  <2> USE <1>1 DEF vars, IInv
  <2>1. TypeOK' BY DEF TypeOK
  <2>2. CallInv' /\ RemoveInv' /\ EventInv' /\ NoUnpoweredAccess' /\ MailboxFollowsWakelock'
    BY DEF CallInv, RemoveInv, EventInv, NoUnpoweredAccess, MailboxFollowsWakelock, Live
  <2>3. \A d \in Client : Refs(d)' = Refs(d) BY DEF Refs
  <2>4. PowerBalanced' BY <2>3, BalanceFrame
  <2> QED BY <2>1, <2>2, <2>4
<1>2. CASE Next BY <1>2, ClientInv, ThreadInv DEF Next
<1> QED BY <1>1, <1>2

\* The invariant holds in every reachable state, if clients with suspendable
\* wakelocks make one ioctl at a time.
THEOREM Invariance == ASSUME SuspendIsSerial PROVE Spec => []IInv
<1>1. IInv /\ [Next]_vars => IInv' BY StepInv
<1> QED BY <1>1, InitInv, PTL DEF Spec

\* The variables keep their types: no request count overflows, no counter of the
\* power manager becomes negative.
THEOREM TypeCorrect == ASSUME SuspendIsSerial PROVE Spec => []TypeOK
<1>1. IInv => TypeOK BY DEF IInv
<1> QED BY <1>1, Invariance, PTL

\* Power references are conserved over every overlap of ioctls, every failure half
\* way and the removal of clients: gcip_pm.count is what requests and calls owe.
THEOREM ReferencesConserved == ASSUME SuspendIsSerial PROVE Spec => []PowerBalanced
<1>1. IInv => PowerBalanced BY DEF IInv
<1> QED BY <1>1, Invariance, PTL

\* A client that holds its wakelock has power.
THEOREM HeldIsPowered == ASSUME SuspendIsSerial PROVE Spec => []HeldMeansPowered
<1>1. IInv => HeldMeansPowered BY OwedIsPowered DEF IInv, HeldMeansPowered, Refs
<1> QED BY <1>1, Invariance, PTL

\* Mailbox registers are accessed only while the block has a user.
THEOREM AccessIsPowered == ASSUME SuspendIsSerial PROVE Spec => []NoUnpoweredAccess
<1>1. IInv => NoUnpoweredAccess BY DEF IInv
<1> QED BY <1>1, Invariance, PTL

\* The mailbox of a group follows the wakelock of its client.
THEOREM MailboxFollows == ASSUME SuspendIsSerial PROVE Spec => []MailboxFollowsWakelock
<1>1. IInv => MailboxFollowsWakelock BY DEF IInv
<1> QED BY <1>1, Invariance, PTL

\* The owner of the secure mailbox never loses its wakelock.
THEOREM SecureClientKeepsWakelock == ASSUME SuspendIsSerial PROVE Spec => []SecureClientHoldsWakelock
<1>1. IInv => SecureClientHoldsWakelock
  BY DEF IInv, EventInv, TypeOK, SecureClientHoldsWakelock
<1> QED BY <1>1, Invariance, PTL
=============================================================================
