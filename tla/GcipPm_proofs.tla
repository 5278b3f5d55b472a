--------------------------- MODULE GcipPm_proofs ---------------------------
(* Theorems about the GCIP power manager, for any finite set of callers    *)
(* and any number of flush retries.                                        *)
EXTENDS GcipPm, FiniteSetTheorems, TLAPS

\* A manager that was just created is well typed.
LEMMA InitType == gcip_pm_create => TypeOK
<1> SUFFICES ASSUME gcip_pm_create PROVE TypeOK OBVIOUS
<1>1. power_down_pending \in BOOLEAN /\ left_on \in BOOLEAN /\ forced \in BOOLEAN
  BY Zenon DEF gcip_pm_create
<1> QED BY <1>1, RetryAssumption DEF gcip_pm_create, TypeOK, HolderStates, Owners

\* Taking a reference, gcip_pm_get_locked, keeps the types of what it assigns.
LEMMA TakeType ==
    ASSUME TypeOK, NEW h \in Holder, NEW f \in Flags, take_reference(h, f)
    PROVE  count' \in Nat /\ suspendable_count' \in Int /\ st' \in [Holder -> HolderStates]
<1>1. count' \in Nat /\ st' \in [Holder -> HolderStates]
  BY DEF TypeOK, take_reference, Flags, HolderStates
<1>2. suspendable_count' \in Int BY DEF TypeOK, take_reference, clamp
<1> QED BY <1>1, <1>2

\* gcip_pm_get_locked keeps the types, on both of its paths.
LEMMA GetLockedType ==
    ASSUME TypeOK, NEW h \in Holder, NEW f \in Flags, gcip_pm_get_locked(h, f), lock = "free"
    PROVE  /\ lock' \in Owners \cup Holder
           /\ count' \in Nat /\ suspendable_count' \in Int /\ st' \in [Holder -> HolderStates]
           /\ power_down_pending' \in BOOLEAN
<1>1. CASE count > 0 \/ power_down_pending
  BY <1>1, TakeType DEF TypeOK, gcip_pm_get_locked, Owners
<1>2. CASE ~(count > 0 \/ power_down_pending)
  BY <1>2 DEF TypeOK, gcip_pm_get_locked, Owners, HolderStates
<1> QED BY <1>1, <1>2

\* A step of one caller keeps the types.
LEMMA HolderType == ASSUME TypeOK, NEW h \in Holder, HolderNext(h) PROVE TypeOK'
<1> USE DEF counters, works, flusher, threads, history
<1>1. ASSUME NEW f \in Flags, gcip_pm_get_flags(h, f) PROVE TypeOK'
  <2>1. gcip_pm_get_locked(h, f) /\ lock = "free" BY <1>1 DEF gcip_pm_get_flags
  <2> QED BY <1>1, <2>1, GetLockedType DEF TypeOK, gcip_pm_get_flags
<1>2. CASE power_up_returns(h)
  <2>1. count' \in Nat /\ suspendable_count' \in Int /\ st' \in [Holder -> HolderStates]
    BY <1>2, TakeType DEF TypeOK, power_up_returns, Flags, HolderStates
  <2>2. block' \in {"on", "off"} /\ left_on' \in BOOLEAN
    BY <1>2 DEF TypeOK, power_up_returns, power_up_ok, power_up_refused
  <2> QED BY <1>2, <2>1, <2>2 DEF TypeOK, power_up_returns, Owners
<1>3. CASE get_if_powered_peek(h)
  BY <1>3 DEF TypeOK, get_if_powered_peek, HolderStates
<1>4. ASSUME NEW blocking \in BOOLEAN, gcip_pm_get_if_powered(h, blocking) PROVE TypeOK'
  <2>1. CASE lock = "free" /\ count > 0 /\ gcip_pm_get_locked(h, "plain")
    BY <1>4, <2>1, GetLockedType DEF TypeOK, gcip_pm_get_if_powered, Flags
  <2>2. CASE /\ st' = [st EXCEPT ![h] = "none"]
             /\ UNCHANGED <<lock, count, suspendable_count, power_down_pending>>
    BY <1>4, <2>2 DEF TypeOK, gcip_pm_get_if_powered, HolderStates
  <2> QED BY <1>4, <2>1, <2>2 DEF gcip_pm_get_if_powered
<1>5. CASE gcip_pm_put_flags(h)
  <2>1. st' \in [Holder -> HolderStates] BY <1>5 DEF TypeOK, gcip_pm_put_flags, HolderStates
  <2>2. count' \in Nat /\ suspendable_count' \in Int
    BY <1>5 DEF TypeOK, gcip_pm_put_flags, drop_count, drop_suspendable, clamp
  <2> QED BY <1>5, <2>1, <2>2 DEF TypeOK, gcip_pm_put_flags, drop_count, Owners
<1>6. CASE put_power_down_returns(h)
  <2>1. st' \in [Holder -> HolderStates] BY <1>6 DEF TypeOK, put_power_down_returns, HolderStates
  <2>2. suspendable_count' \in Int
    BY <1>6 DEF TypeOK, put_power_down_returns, drop_suspendable, clamp
  <2> QED BY <1>6, <2>1, <2>2 DEF TypeOK, put_power_down_returns, gcip_pm_try_power_down,
                                  PowerDownResult, pending_after, armed_after, Owners
<1>7. CASE gcip_pm_put_async(h) BY <1>7 DEF TypeOK, gcip_pm_put_async, HolderStates
<1>8. CASE put_async_schedule(h) BY <1>8 DEF TypeOK, put_async_schedule
<1> QED BY <1>1, <1>2, <1>3, <1>4, <1>5, <1>6, <1>7, <1>8 DEF HolderNext

\* A step of a work item, of a flush, of a shutdown or of destroy keeps the types.
LEMMA SystemType ==
    ASSUME TypeOK,
           \/ gcip_pm_async_put_work \/ gcip_pm_async_power_down_work
           \/ gcip_pm_flush_delayed_power_down_work \/ gcip_pm_shutdown \/ gcip_pm_destroy
    PROVE  TypeOK'
<1> USE DEF TypeOK, Owners, counters, works, flusher, threads, history
<1>1. CASE pwork_start BY <1>1 DEF pwork_start
<1>2. CASE pwork_loop BY <1>2 DEF pwork_loop
<1>3. ASSUME NEW h \in Holder, pwork_put(h) PROVE TypeOK'
  BY <1>3 DEF pwork_put, drop_count, after_put, HolderStates
<1>4. CASE pwork_power_down_returns
  BY <1>4 DEF pwork_power_down_returns, gcip_pm_try_power_down, PowerDownResult, pending_after,
              armed_after
<1>5. CASE dwork_start BY <1>5 DEF dwork_start
<1>6. CASE dwork_lock BY <1>6 DEF dwork_lock, dwork_done, waits_left, not_cancelled
<1>7. CASE dwork_power_down_returns
  BY <1>7 DEF dwork_power_down_returns, gcip_pm_try_power_down, PowerDownResult, pending_after,
              armed_after, dwork_done, waits_left
<1>8. ASSUME NEW retry \in 0..MaxRetry, flush_call(retry) PROVE TypeOK'
  BY <1>8 DEF flush_call
<1>9. CASE flush_begin BY <1>9 DEF flush_begin
<1>10. CASE flush_end BY <1>10 DEF flush_end
<1>11. CASE flush_check
  <2>1. power_down_pending' \in BOOLEAN BY <1>11, Zenon DEF flush_check
  <2> QED BY <1>11, <2>1, RetryAssumption DEF flush_check
<1>12. ASSUME NEW force \in BOOLEAN, shutdown_call(force) PROVE TypeOK'
  BY <1>12 DEF shutdown_call
<1>13. CASE shutdown_power_down_returns
  BY <1>13 DEF shutdown_power_down_returns, gcip_pm_try_power_down, PowerDownResult, pending_after,
              armed_after
<1>14. CASE destroy_call BY <1>14 DEF destroy_call
<1>15. CASE destroy_flush_put BY <1>15 DEF destroy_flush_put
<1>16. CASE destroy_clear
  <2>1. power_down_pending' \in BOOLEAN BY <1>16, Zenon DEF destroy_clear
  <2> QED BY <1>16, <2>1 DEF destroy_clear
<1>17. CASE destroy_cancel BY <1>17 DEF destroy_cancel
<1> QED
  BY <1>1, <1>2, <1>3, <1>4, <1>5, <1>6, <1>7, <1>8, <1>9, <1>10, <1>11, <1>12, <1>13, <1>14,
     <1>15, <1>16, <1>17
  DEF gcip_pm_async_put_work, gcip_pm_async_power_down_work,
      gcip_pm_flush_delayed_power_down_work, gcip_pm_shutdown, gcip_pm_destroy

\* Every step, or none, keeps the types.
LEMMA StepType == TypeOK /\ [Next]_vars => TypeOK'
<1> SUFFICES ASSUME TypeOK, [Next]_vars PROVE TypeOK' OBVIOUS
<1>1. CASE UNCHANGED vars BY <1>1 DEF vars, TypeOK
<1>2. CASE Next BY <1>2, HolderType, SystemType DEF Next
<1> QED BY <1>1, <1>2

-----------------------------------------------------------------------------
(* The inductive invariant.  pm->lock is held exactly by whoever is inside a
   callback; the counters are the numbers of references; while a callback
   runs for the first get or the last put nobody has a reference; a pending
   power down has no users (short of a forced shutdown) and a block that is
   on; destroy shuts the actors out one after the other. *)

UpStates == {"up_plain", "up_susp"}
DownStates == {"down_plain", "down_susp"}

LockInv ==
    /\ \A h \in Holder : lock = h <=> st[h] \in UpStates \cup DownStates
    /\ lock = "dwork" <=> dwork = "power_down"
    /\ lock = "pwork" <=> pwork = "power_down"

CountInv == count = Cardinality(Counted) /\ suspendable_count = Cardinality(Susp)

IdleInv ==
    /\ lock \in Holder \cup {"pwork"} => count = 0
    /\ ~forced /\ lock \in {"dwork", "shutdown"} => count = 0
    /\ ~forced /\ power_down_pending => count = 0
    /\ ~forced /\ count > 0 => block = "on"

PendingInv ==
    /\ lock = "free" /\ power_down_pending => block = "on"
    /\ \A h \in Holder : st[h] \in UpStates => ~power_down_pending

DestroyInv ==
    /\ destroyer # "alive" =>
           /\ lock # "shutdown" /\ scheduling = {}
           /\ \A h \in Holder : st[h] \in {"none", "async"}
    /\ destroyer \in {"clear", "cancel", "freed"} =>
           "pwork" \notin queued /\ pwork = "idle" /\ put_async_count = 0
    /\ destroyer = "freed" => "dwork" \notin queued /\ dwork = "idle"

IInv ==
    /\ TypeOK /\ LockInv /\ CountInv /\ IdleInv /\ PendingInv /\ DestroyInv
    /\ NoForgottenPowerDown /\ PendingHasRetry /\ NoStrandedAsyncPut

-----------------------------------------------------------------------------
(* Counting references *)

\* The sets behind the two counters are finite.
LEMMA CountFinite ==
    /\ IsFiniteSet(Counted) /\ Cardinality(Counted) \in Nat
    /\ IsFiniteSet(Susp) /\ Cardinality(Susp) \in Nat
<1>1. Counted \subseteq Holder /\ Susp \subseteq Holder BY DEF Counted, Susp
<1> QED BY <1>1, HolderAssumption, FS_Subset, FS_CardinalityType

\* What one holder's change of state does to the numbers of references.
LEMMA CountEffect ==
    ASSUME TypeOK, NEW h \in Holder, NEW s \in HolderStates, st' = [st EXCEPT ![h] = s]
    PROVE  /\ Cardinality(Counted') =
                IF s \in CountedStates
                THEN IF st[h] \in CountedStates THEN Cardinality(Counted) ELSE Cardinality(Counted) + 1
                ELSE IF st[h] \in CountedStates THEN Cardinality(Counted) - 1 ELSE Cardinality(Counted)
           /\ Cardinality(Susp') =
                IF s \in SuspStates
                THEN IF st[h] \in SuspStates THEN Cardinality(Susp) ELSE Cardinality(Susp) + 1
                ELSE IF st[h] \in SuspStates THEN Cardinality(Susp) - 1 ELSE Cardinality(Susp)
<1>1. Counted' = IF s \in CountedStates THEN Counted \cup {h} ELSE Counted \ {h}
  BY DEF TypeOK, Counted
<1>2. Susp' = IF s \in SuspStates THEN Susp \cup {h} ELSE Susp \ {h}
  BY DEF TypeOK, Susp
<1>3. /\ st[h] \in CountedStates <=> h \in Counted
      /\ st[h] \in SuspStates <=> h \in Susp
  BY DEF Counted, Susp
<1>4. /\ Cardinality(Counted \cup {h}) = IF h \in Counted THEN Cardinality(Counted)
                                                          ELSE Cardinality(Counted) + 1
      /\ Cardinality(Susp \cup {h}) = IF h \in Susp THEN Cardinality(Susp) ELSE Cardinality(Susp) + 1
  BY CountFinite, FS_AddElement
<1>5. /\ Cardinality(Counted \ {h}) = IF h \in Counted THEN Cardinality(Counted) - 1
                                                       ELSE Cardinality(Counted)
      /\ Cardinality(Susp \ {h}) = IF h \in Susp THEN Cardinality(Susp) - 1 ELSE Cardinality(Susp)
  BY CountFinite, FS_RemoveElement
<1> QED BY <1>1, <1>2, <1>3, <1>4, <1>5

\* A held or suspendable reference makes its counter positive: the WARN_ONs of
\* __gcip_pm_put_flags are not reached.
LEMMA HeldCounts ==
    ASSUME TypeOK, CountInv, NEW h \in Holder
    PROVE  /\ st[h] \in CountedStates => count > 0
           /\ st[h] \in SuspStates => suspendable_count > 0
<1>1. /\ st[h] \in CountedStates => Counted # {}
      /\ st[h] \in SuspStates => Susp # {}
  BY DEF Counted, Susp
<1> QED BY <1>1, CountFinite, FS_EmptySet DEF CountInv

\* Outside a callback every suspendable reference is also counted, so the
\* correction of suspendable_count never applies.
LEMMA SuspBelowCount ==
    ASSUME TypeOK, LockInv, CountInv, \A h \in Holder : st[h] # "down_susp"
    PROVE  /\ Susp \subseteq Counted
           /\ suspendable_count <= count
<1>1. Susp \subseteq Counted BY DEF Susp, Counted, SuspStates, CountedStates
<1> QED BY <1>1, CountFinite, FS_Subset DEF CountInv

\* While somebody is inside power_up nobody else is inside a power_down.
LEMMA LockExcludes ==
    ASSUME LockInv, NEW h \in Holder, NEW g \in Holder, lock = h \/ lock = "free",
           st[g] \in UpStates \cup DownStates
    PROVE  g = h
<1>1. lock = g BY DEF LockInv
<1> QED BY <1>1, HolderAssumption DEF Owners

\* Steps that leave the holders and the counters alone keep CountInv.
LEMMA CountFrame ==
    ASSUME CountInv, UNCHANGED <<st, count, suspendable_count>>
    PROVE  CountInv'
BY DEF CountInv, Counted, Susp

\* Taking a reference keeps the counters exact.
LEMMA TakeCounts ==
    ASSUME IInv, NEW h \in Holder, NEW f \in Flags, take_reference(h, f),
           lock = h \/ lock = "free", st[h] \notin CountedStates \cup DownStates
    PROVE  CountInv'
<1> USE DEF IInv
<1>1. \A g \in Holder : st[g] # "down_susp"
  BY LockExcludes DEF DownStates
<1>2. suspendable_count <= count BY <1>1, SuspBelowCount
<1>3. /\ count' = count + 1
      /\ suspendable_count' = IF f = "susp" THEN suspendable_count + 1 ELSE suspendable_count
  BY <1>2 DEF take_reference, clamp, TypeOK
<1>4. f \in HolderStates /\ st' = [st EXCEPT ![h] = f]
  BY DEF take_reference, Flags, HolderStates
<1>5. /\ Cardinality(Counted') = Cardinality(Counted) + 1
      /\ Cardinality(Susp') = IF f = "susp" THEN Cardinality(Susp) + 1 ELSE Cardinality(Susp)
  BY <1>4, CountEffect DEF Flags, CountedStates, SuspStates, DownStates
<1> QED BY <1>3, <1>5 DEF CountInv

-----------------------------------------------------------------------------
(* One lemma per caller operation *)

\* gcip_pm_get and gcip_pm_get_flags.
LEMMA GetInv == ASSUME IInv, NEW h \in Holder, NEW f \in Flags, gcip_pm_get_flags(h, f) PROVE IInv'
<1> USE DEF counters, works, flusher, threads, history
<1>1. TypeOK' BY HolderType DEF IInv, HolderNext
<1>2. CASE count > 0 \/ power_down_pending
  <2>1. take_reference(h, f) /\ lock' = "free" /\ lock = "free" /\ st[h] = "none"
    BY <1>2 DEF gcip_pm_get_flags, gcip_pm_get_locked
  <2>2. CountInv' BY <2>1, TakeCounts DEF CountedStates, DownStates
  <2>3. count' = count + 1 /\ st' = [st EXCEPT ![h] = f] BY <2>1 DEF take_reference
  <2>4. LockInv'
    BY <2>1, <2>3 DEF IInv, TypeOK, LockInv, gcip_pm_get_flags, UpStates, DownStates, Flags
  <2>5. IdleInv' /\ PendingInv'
    BY <1>2, <2>1, <2>3, HolderAssumption
    DEF IInv, TypeOK, IdleInv, PendingInv, gcip_pm_get_flags, gcip_pm_get_locked, UpStates, Flags,
        Owners
  <2>6. DestroyInv' /\ NoForgottenPowerDown' /\ PendingHasRetry' /\ NoStrandedAsyncPut'
    BY <1>2, <2>1, <2>3
    DEF IInv, TypeOK, DestroyInv, NoForgottenPowerDown, PendingHasRetry, NoStrandedAsyncPut,
        gcip_pm_get_flags, gcip_pm_get_locked, may_call
  <2> QED BY <1>1, <2>2, <2>4, <2>5, <2>6 DEF IInv
<1>3. CASE ~(count > 0 \/ power_down_pending)
  <2> DEFINE s == IF f = "susp" THEN "up_susp" ELSE "up_plain"
  <2>1. /\ lock = "free" /\ lock' = h /\ st[h] = "none"
        /\ st' = [st EXCEPT ![h] = s] /\ s \in HolderStates /\ s \in UpStates
        /\ UNCHANGED <<count, suspendable_count, power_down_pending>>
    BY <1>3 DEF gcip_pm_get_flags, gcip_pm_get_locked, HolderStates, UpStates
  <2> HIDE DEF s
  <2>2. CountInv'
    BY <2>1, CountEffect DEF IInv, CountInv, UpStates, CountedStates, SuspStates
  <2>3. LockInv'
    BY <2>1, HolderAssumption DEF IInv, TypeOK, LockInv, gcip_pm_get_flags, UpStates, DownStates,
                                  Owners
  <2>4. IdleInv' /\ PendingInv'
    BY <1>3, <2>1, HolderAssumption
    DEF IInv, TypeOK, IdleInv, PendingInv, gcip_pm_get_flags, UpStates, Owners
  <2>5. DestroyInv' /\ NoForgottenPowerDown' /\ PendingHasRetry' /\ NoStrandedAsyncPut'
    BY <1>3, <2>1, HolderAssumption
    DEF IInv, TypeOK, DestroyInv, NoForgottenPowerDown, PendingHasRetry, NoStrandedAsyncPut,
        gcip_pm_get_flags, may_call, Owners
  <2> QED BY <1>1, <2>2, <2>3, <2>4, <2>5 DEF IInv
<1> QED BY <1>2, <1>3

\* power_up returns to gcip_pm_get_locked.
LEMMA PowerUpInv == ASSUME IInv, NEW h \in Holder, power_up_returns(h) PROVE IInv'
<1> USE DEF counters, works, flusher, threads, history
<1>1. TypeOK' BY HolderType DEF IInv, HolderNext
<1>2. /\ lock = h /\ lock' = "free" /\ st[h] \in UpStates /\ destroyer = "alive"
      /\ ~power_down_pending /\ power_down_pending' = power_down_pending /\ count = 0
  BY DEF IInv, power_up_returns, PendingInv, UpStates, IdleInv, DestroyInv
<1>3. CASE power_up_ok /\ take_reference(h, IF st[h] = "up_susp" THEN "susp" ELSE "plain")
  <2> DEFINE f == IF st[h] = "up_susp" THEN "susp" ELSE "plain"
  <2>1. f \in Flags /\ take_reference(h, f) BY <1>3 DEF Flags
  <2>2. CountInv' BY <1>2, <2>1, TakeCounts DEF CountedStates, UpStates, DownStates
  <2>3. count' = 1 /\ st' = [st EXCEPT ![h] = f] /\ block' = "on"
    BY <1>2, <1>3 DEF take_reference, power_up_ok
  <2>4. LockInv'
    BY <1>2, <2>1, <2>3, HolderAssumption DEF IInv, TypeOK, LockInv, power_up_returns, UpStates,
                                              DownStates, Owners, Flags
  <2>5. IdleInv' /\ PendingInv'
    BY <1>2, <2>3, HolderAssumption DEF IInv, TypeOK, IdleInv, PendingInv, UpStates, Owners
  <2>6. DestroyInv' /\ NoForgottenPowerDown' /\ PendingHasRetry' /\ NoStrandedAsyncPut'
    BY <1>2, <2>3 DEF IInv, DestroyInv, NoForgottenPowerDown, PendingHasRetry,
                      NoStrandedAsyncPut, power_up_returns
  <2> QED BY <1>1, <2>2, <2>4, <2>5, <2>6 DEF IInv
<1>4. CASE /\ power_up_refused
           /\ st' = [st EXCEPT ![h] = "none"]
           /\ UNCHANGED <<count, suspendable_count>>
  <2>1. CountInv'
    BY <1>2, <1>4, CountEffect DEF IInv, CountInv, UpStates, CountedStates, SuspStates, HolderStates
  <2>2. LockInv'
    BY <1>2, <1>4, HolderAssumption DEF IInv, TypeOK, LockInv, power_up_returns, UpStates,
                                        DownStates, Owners
  <2>3. IdleInv' /\ PendingInv'
    BY <1>2, <1>4, HolderAssumption DEF IInv, TypeOK, IdleInv, PendingInv, UpStates, Owners
  <2>4. NoForgottenPowerDown' BY <1>4 DEF NoForgottenPowerDown, power_up_refused
  <2>5. DestroyInv' /\ PendingHasRetry' /\ NoStrandedAsyncPut'
    BY <1>2, <1>4 DEF IInv, DestroyInv, PendingHasRetry, NoStrandedAsyncPut, power_up_returns
  <2> QED BY <1>1, <2>1, <2>2, <2>3, <2>4, <2>5 DEF IInv
<1> QED BY <1>3, <1>4 DEF power_up_returns

\* gcip_pm_get_if_powered, its check without the lock.
LEMMA PeekInv == ASSUME IInv, NEW h \in Holder, get_if_powered_peek(h) PROVE IInv'
<1> USE DEF counters, works, flusher, threads, history
<1>1. TypeOK' BY HolderType DEF IInv, HolderNext
<1>2. st[h] = "none" /\ st' = [st EXCEPT ![h] = "peek"] /\ destroyer = "alive"
  BY DEF get_if_powered_peek, may_call
<1>3. CountInv'
  BY <1>2, CountEffect DEF IInv, CountInv, CountedStates, SuspStates, HolderStates,
                           get_if_powered_peek
<1>4. LockInv' /\ PendingInv'
  BY <1>2 DEF IInv, TypeOK, LockInv, PendingInv, UpStates, DownStates, get_if_powered_peek
<1>5. IdleInv' /\ DestroyInv' /\ NoForgottenPowerDown' /\ PendingHasRetry' /\ NoStrandedAsyncPut'
  BY <1>2 DEF IInv, IdleInv, DestroyInv, NoForgottenPowerDown, PendingHasRetry,
              NoStrandedAsyncPut, get_if_powered_peek
<1> QED BY <1>1, <1>3, <1>4, <1>5 DEF IInv

\* gcip_pm_get_if_powered, the part with the lock: the second look at count
\* keeps it from taking a reference to a block that went down.
LEMMA GetIfPoweredInv ==
    ASSUME IInv, NEW h \in Holder, NEW blocking \in BOOLEAN, gcip_pm_get_if_powered(h, blocking)
    PROVE  IInv'
<1> USE DEF counters, works, flusher, threads, history
<1>1. TypeOK' BY HolderType DEF IInv, HolderNext
<1>2. st[h] = "peek" /\ destroyer = "alive" /\ destroyer' = destroyer
  BY DEF IInv, DestroyInv, gcip_pm_get_if_powered
<1>3. CASE lock = "free" /\ count > 0 /\ gcip_pm_get_locked(h, "plain")
  <2>1. take_reference(h, "plain") /\ lock' = "free" /\ "plain" \in Flags
    BY <1>3 DEF gcip_pm_get_locked, Flags
  <2>2. CountInv' BY <1>2, <1>3, <2>1, TakeCounts DEF CountedStates, DownStates
  <2>3. /\ count' = count + 1 /\ st' = [st EXCEPT ![h] = "plain"]
        /\ power_down_pending' = power_down_pending
    BY <1>3, <2>1 DEF take_reference, gcip_pm_get_locked, IInv, TypeOK
  <2>4. LockInv' /\ PendingInv'
    BY <1>2, <1>3, <2>1, <2>3 DEF IInv, TypeOK, LockInv, PendingInv, UpStates, DownStates,
                                  gcip_pm_get_if_powered
  <2>5. IdleInv'
    BY <1>3, <2>1, <2>3, HolderAssumption DEF IInv, TypeOK, IdleInv, Owners, gcip_pm_get_if_powered
  <2>6. DestroyInv' /\ NoForgottenPowerDown' /\ PendingHasRetry' /\ NoStrandedAsyncPut'
    BY <1>2, <1>3, <2>1, <2>3 DEF IInv, TypeOK, DestroyInv, NoForgottenPowerDown, PendingHasRetry,
                                  NoStrandedAsyncPut, gcip_pm_get_if_powered
  <2> QED BY <1>1, <2>2, <2>4, <2>5, <2>6 DEF IInv
<1>4. CASE /\ st' = [st EXCEPT ![h] = "none"]
           /\ UNCHANGED <<lock, count, suspendable_count, power_down_pending>>
  <2>1. CountInv'
    BY <1>2, <1>4, CountEffect DEF IInv, CountInv, CountedStates, SuspStates, HolderStates
  <2>2. LockInv' /\ PendingInv'
    BY <1>2, <1>4 DEF IInv, TypeOK, LockInv, PendingInv, UpStates, DownStates,
                      gcip_pm_get_if_powered
  <2>3. IdleInv' /\ DestroyInv' /\ NoForgottenPowerDown' /\ PendingHasRetry' /\ NoStrandedAsyncPut'
    BY <1>2, <1>4 DEF IInv, IdleInv, DestroyInv, NoForgottenPowerDown, PendingHasRetry,
                      NoStrandedAsyncPut, gcip_pm_get_if_powered
  <2> QED BY <1>1, <2>1, <2>2, <2>3 DEF IInv
<1> QED BY <1>3, <1>4 DEF gcip_pm_get_if_powered

\* gcip_pm_put and gcip_pm_put_flags, up to the callback.
LEMMA PutInv == ASSUME IInv, NEW h \in Holder, gcip_pm_put_flags(h) PROVE IInv'
<1> USE DEF counters, works, flusher, threads, history
<1>1. TypeOK' BY HolderType DEF IInv, HolderNext
<1>2. /\ st[h] \in Flags /\ destroyer = "alive" /\ destroyer' = destroyer
      /\ lock = "free" /\ count > 0 /\ count' = count - 1
      /\ power_down_pending' = (power_down_pending \/ count = 1)
  BY DEF gcip_pm_put_flags, drop_count, may_call
<1>3. CASE count = 1
  <2> DEFINE s == IF st[h] = "susp" THEN "down_susp" ELSE "down_plain"
  <2>1. /\ lock' = h /\ st' = [st EXCEPT ![h] = s] /\ s \in HolderStates /\ s \in DownStates
        /\ st[h] \in SuspStates <=> s \in SuspStates
        /\ suspendable_count' = suspendable_count /\ count' = 0
    BY <1>2, <1>3 DEF gcip_pm_put_flags, drop_count, HolderStates, DownStates, SuspStates, Flags
  <2> HIDE DEF s
  <2>2. CountInv'
    BY <1>2, <2>1, CountEffect DEF IInv, CountInv, CountedStates, DownStates, Flags
  <2>3. LockInv'
    BY <1>2, <2>1, HolderAssumption DEF IInv, TypeOK, LockInv, UpStates, DownStates, Owners,
                                        gcip_pm_put_flags
  <2>4. \A g \in Holder : st'[g] \notin UpStates
    BY <1>2, <2>1, HolderAssumption DEF IInv, TypeOK, LockInv, UpStates, DownStates, Owners
  <2>5. IdleInv' /\ PendingInv'
    BY <1>2, <2>1, <2>4, HolderAssumption DEF IInv, TypeOK, IdleInv, PendingInv, Owners
  <2>6. DestroyInv' /\ NoForgottenPowerDown' /\ PendingHasRetry' /\ NoStrandedAsyncPut'
    BY <1>2, <2>1, HolderAssumption
    DEF IInv, TypeOK, DestroyInv, NoForgottenPowerDown, PendingHasRetry, NoStrandedAsyncPut,
        gcip_pm_put_flags, Owners
  <2> QED BY <1>1, <2>2, <2>3, <2>5, <2>6 DEF IInv
<1>4. CASE count # 1
  <2>1. /\ lock' = "free" /\ st' = [st EXCEPT ![h] = "none"]
        /\ power_down_pending' = power_down_pending
    BY <1>2, <1>4 DEF gcip_pm_put_flags, drop_count, IInv, TypeOK
  <2>2. /\ Cardinality(Counted') = Cardinality(Counted) - 1
        /\ Cardinality(Susp') = IF st[h] = "susp" THEN Cardinality(Susp) - 1 ELSE Cardinality(Susp)
    BY <1>2, <2>1, CountEffect DEF IInv, CountedStates, SuspStates, Flags, HolderStates
  <2>3. \A g \in Holder : st[g] # "down_susp"
    BY <1>2, LockExcludes DEF IInv, DownStates, Flags
  <2>4. suspendable_count <= count BY <2>3, SuspBelowCount DEF IInv
  <2>5. suspendable_count' = IF st[h] = "susp" THEN suspendable_count - 1 ELSE suspendable_count
    BY <1>2, <1>4, <2>4 DEF gcip_pm_put_flags, drop_suspendable, clamp, IInv, TypeOK
  <2>6. CountInv' BY <1>2, <2>2, <2>5 DEF IInv, CountInv
  <2>7. LockInv' /\ PendingInv'
    BY <1>2, <2>1 DEF IInv, TypeOK, LockInv, PendingInv, UpStates, DownStates, Flags,
                      gcip_pm_put_flags
  <2>8. IdleInv'
    BY <1>2, <1>4, <2>1, HolderAssumption DEF IInv, TypeOK, IdleInv, Owners, gcip_pm_put_flags
  <2>9. DestroyInv' /\ NoForgottenPowerDown' /\ PendingHasRetry' /\ NoStrandedAsyncPut'
    BY <1>2, <1>4, <2>1 DEF IInv, TypeOK, DestroyInv, NoForgottenPowerDown, PendingHasRetry,
                            NoStrandedAsyncPut, gcip_pm_put_flags
  <2> QED BY <1>1, <2>6, <2>7, <2>8, <2>9 DEF IInv
<1> QED BY <1>3, <1>4

\* What gcip_pm_try_power_down leaves behind: a power down is pending exactly
\* when the work is armed for it, and a block that stays on is accounted for.
LEMMA TryPowerDown ==
    ASSUME TypeOK, NEW r \in PowerDownResults, gcip_pm_try_power_down(r)
    PROVE  /\ lock' = "free"
           /\ power_down_pending' => block' = "on" /\ "dwork" \in queued'
           /\ block' = "on" => power_down_pending' \/ left_on'
           /\ queued' = queued \/ queued' = queued \cup {"dwork"}
<1>1. CASE r = "eagain"
  BY <1>1 DEF TypeOK, gcip_pm_try_power_down, PowerDownResult, pending_after,
              armed_after
<1>2. CASE r = "ok"
  BY <1>2 DEF TypeOK, gcip_pm_try_power_down, PowerDownResult, pending_after,
              armed_after
<1>3. CASE r = "error"
  BY <1>3 DEF TypeOK, gcip_pm_try_power_down, PowerDownResult, pending_after,
              armed_after
<1> QED BY <1>1, <1>2, <1>3 DEF PowerDownResults

\* The return of the power_down callback, whoever called it, keeps everything
\* but the caller's own place and counters.
LEMMA PowerDownReturnsInv ==
    ASSUME IInv, NEW r \in PowerDownResults, gcip_pm_try_power_down(r),
           count' = count, ~forced => count = 0,
           destroyer' = destroyer, destroyer # "freed", put_async_count' = put_async_count,
           scheduling' = scheduling, forced' = forced,
           pwork' # "idle" \/ pwork' = pwork,
           \A g \in Holder : st'[g] \notin UpStates
    PROVE  /\ IdleInv' /\ PendingInv'
           /\ NoForgottenPowerDown' /\ PendingHasRetry' /\ NoStrandedAsyncPut'
<1>1. /\ lock' = "free"
      /\ power_down_pending' => block' = "on" /\ "dwork" \in queued'
      /\ block' = "on" => power_down_pending' \/ left_on'
      /\ queued' = queued \/ queued' = queued \cup {"dwork"}
  BY TryPowerDown DEF IInv
<1>2. IdleInv' BY <1>1, HolderAssumption DEF IInv, IdleInv, Owners
<1>3. PendingInv' BY <1>1 DEF PendingInv
<1>4. NoForgottenPowerDown' /\ PendingHasRetry'
  BY <1>1 DEF NoForgottenPowerDown, PendingHasRetry
<1>5. NoStrandedAsyncPut' BY <1>1 DEF IInv, NoStrandedAsyncPut
<1> QED BY <1>2, <1>3, <1>4, <1>5

\* power_down returns to __gcip_pm_put_flags.
LEMMA PutDownInv == ASSUME IInv, NEW h \in Holder, put_power_down_returns(h) PROVE IInv'
<1> USE DEF counters, works, flusher, threads, history
<1>1. TypeOK' BY HolderType DEF IInv, HolderNext
<1>2. PICK r \in PowerDownResults : gcip_pm_try_power_down(r) BY DEF put_power_down_returns
<1>3. /\ lock = h /\ st[h] \in DownStates /\ st' = [st EXCEPT ![h] = "none"]
      /\ count = 0 /\ count' = count /\ destroyer = "alive" /\ destroyer' = destroyer
      /\ lock' = "free"
  BY <1>2, TryPowerDown DEF put_power_down_returns, IInv, IdleInv, DestroyInv, DownStates
<1>4. \A g \in Holder : st'[g] \notin UpStates \cup DownStates
  BY <1>3, LockExcludes DEF IInv, TypeOK, UpStates, DownStates
<1>5. CountInv'
  <2>1. /\ Cardinality(Counted') = Cardinality(Counted)
        /\ Cardinality(Susp') = IF st[h] = "down_susp" THEN Cardinality(Susp) - 1 ELSE Cardinality(Susp)
    BY <1>3, CountEffect DEF IInv, CountedStates, SuspStates, DownStates, HolderStates
  <2>2. \A g \in Holder : st[g] \notin CountedStates
    BY <1>3, HeldCounts DEF IInv
  <2>3. Susp = IF st[h] = "down_susp" THEN {h} ELSE {}
    BY <1>3, <2>2, LockExcludes DEF IInv, Susp, SuspStates, CountedStates, DownStates
  <2>4. suspendable_count = IF st[h] = "down_susp" THEN 1 ELSE 0
    BY <2>3, FS_EmptySet, FS_Singleton DEF IInv, CountInv
  <2>5. suspendable_count' = 0
    BY <1>3, <2>4 DEF put_power_down_returns, drop_suspendable, clamp
  <2>6. Cardinality(Susp) = suspendable_count BY DEF IInv, CountInv
  <2>7. Cardinality(Susp') = 0 BY <2>1, <2>4, <2>6
  <2> QED BY <1>3, <2>1, <2>5, <2>7 DEF IInv, CountInv
<1>6. LockInv'
  BY <1>1, <1>3, <1>4, HolderAssumption DEF IInv, LockInv, TypeOK, put_power_down_returns, Owners
<1>7. IdleInv' /\ PendingInv' /\ NoForgottenPowerDown' /\ PendingHasRetry' /\ NoStrandedAsyncPut'
  BY <1>2, <1>3, <1>4, PowerDownReturnsInv DEF put_power_down_returns
<1>8. DestroyInv' BY <1>3 DEF DestroyInv
<1> QED BY <1>1, <1>5, <1>6, <1>7, <1>8 DEF IInv

\* gcip_pm_put_async, the increment and the schedule_work.
LEMMA PutAsyncInv ==
    ASSUME IInv, NEW h \in Holder, gcip_pm_put_async(h) \/ put_async_schedule(h)
    PROVE  IInv'
<1> USE DEF counters, works, flusher, threads, history
<1>1. TypeOK' BY HolderType DEF IInv, HolderNext
<1>2. CASE gcip_pm_put_async(h)
  <2>1. st[h] = "plain" /\ st' = [st EXCEPT ![h] = "async"] /\ destroyer = "alive"
    BY <1>2 DEF gcip_pm_put_async, may_call
  <2>2. CountInv'
    BY <1>2, <2>1, CountEffect DEF IInv, CountInv, CountedStates, SuspStates, HolderStates,
                                   gcip_pm_put_async
  <2>3. LockInv' /\ PendingInv'
    BY <1>2, <2>1 DEF IInv, TypeOK, LockInv, PendingInv, UpStates, DownStates, gcip_pm_put_async
  <2>4. IdleInv' /\ DestroyInv' /\ NoForgottenPowerDown' /\ PendingHasRetry' /\ NoStrandedAsyncPut'
    BY <1>2, <2>1 DEF IInv, IdleInv, DestroyInv, NoForgottenPowerDown, PendingHasRetry,
                      NoStrandedAsyncPut, gcip_pm_put_async
  <2> QED BY <1>1, <2>2, <2>3, <2>4 DEF IInv
<1>3. CASE put_async_schedule(h)
  <2>1. CountInv' BY <1>3, CountFrame DEF IInv, put_async_schedule
  <2>2. LockInv' /\ IdleInv' /\ PendingInv'
    BY <1>3 DEF IInv, LockInv, IdleInv, PendingInv, put_async_schedule
  <2>3. DestroyInv' /\ NoForgottenPowerDown' /\ PendingHasRetry' /\ NoStrandedAsyncPut'
    BY <1>3 DEF IInv, DestroyInv, NoForgottenPowerDown, PendingHasRetry, NoStrandedAsyncPut,
                put_async_schedule
  <2> QED BY <1>1, <2>1, <2>2, <2>3 DEF IInv
<1> QED BY <1>2, <1>3

-----------------------------------------------------------------------------
(* The work items *)

\* gcip_pm_async_put_work.
LEMMA PutWorkInv == ASSUME IInv, gcip_pm_async_put_work PROVE IInv'
<1> USE DEF counters, works, flusher, threads, history
<1>1. TypeOK' BY SystemType DEF IInv
<1>2. CASE pwork_start \/ pwork_loop
  <2>1. CountInv' BY <1>2, CountFrame DEF IInv, pwork_start, pwork_loop
  <2>2. LockInv' /\ IdleInv' /\ PendingInv'
    BY <1>2 DEF IInv, LockInv, IdleInv, PendingInv, pwork_start, pwork_loop
  <2>3. DestroyInv'
    BY <1>2 DEF IInv, TypeOK, DestroyInv, pwork_start, pwork_loop
  <2>4. NoForgottenPowerDown' /\ PendingHasRetry' /\ NoStrandedAsyncPut'
    BY <1>2 DEF IInv, TypeOK, NoForgottenPowerDown, PendingHasRetry, NoStrandedAsyncPut,
                pwork_start, pwork_loop
  <2> QED BY <1>1, <2>1, <2>2, <2>3, <2>4 DEF IInv
<1>3. ASSUME NEW h \in Holder, pwork_put(h) PROVE IInv'
  <2>1. /\ st[h] = "async" /\ st' = [st EXCEPT ![h] = "none"] /\ pwork = "put"
        /\ lock = "free" /\ count > 0 /\ count' = count - 1
        /\ suspendable_count' = suspendable_count
        /\ power_down_pending' = (power_down_pending \/ count = 1)
        /\ lock' = IF count = 1 THEN "pwork" ELSE "free"
        /\ pwork' = IF count = 1 THEN "power_down" ELSE "loop"
        /\ dwork' = dwork
    BY <1>3 DEF pwork_put, drop_count, after_put
  <2>2. CountInv'
    BY <2>1, CountEffect DEF IInv, CountInv, CountedStates, SuspStates, HolderStates
  <2>3. \A g \in Holder : st[g] \notin UpStates \cup DownStates
    BY <2>1, HolderAssumption DEF IInv, LockInv, Owners
  <2>4. \A g \in Holder : st'[g] \notin UpStates \cup DownStates
    BY <2>1, <2>3 DEF IInv, TypeOK, UpStates, DownStates
  <2>5. lock' \notin Holder BY <2>1, HolderAssumption DEF Owners
  <2>6. LockInv'
    BY <2>1, <2>4, <2>5 DEF IInv, LockInv
  <2>7. IdleInv' /\ PendingInv'
    BY <1>3, <2>1, <2>4, <2>5 DEF IInv, TypeOK, IdleInv, PendingInv, pwork_put
  <2>8. DestroyInv'
    BY <1>3, <2>1 DEF IInv, TypeOK, DestroyInv, pwork_put
  <2>9. NoForgottenPowerDown' /\ PendingHasRetry' /\ NoStrandedAsyncPut'
    BY <1>3, <2>1 DEF IInv, TypeOK, NoForgottenPowerDown, PendingHasRetry, NoStrandedAsyncPut,
                      pwork_put
  <2> QED BY <1>1, <2>2, <2>6, <2>7, <2>8, <2>9 DEF IInv
<1>4. CASE pwork_power_down_returns
  <2>1. PICK r \in PowerDownResults : gcip_pm_try_power_down(r) BY <1>4 DEF pwork_power_down_returns
  <2>2. /\ lock = "pwork" /\ lock' = "free" /\ pwork = "power_down" /\ pwork' = "loop"
        /\ dwork' = dwork /\ count = 0
        /\ queued' = queued \/ queued' = queued \cup {"dwork"}
        /\ destroyer' = destroyer /\ destroyer \in {"alive", "flush_put"}
    BY <1>4, <2>1, TryPowerDown DEF pwork_power_down_returns, IInv, IdleInv, DestroyInv, TypeOK
  <2>3. \A g \in Holder : st'[g] \notin UpStates \cup DownStates
    BY <1>4, <2>2, HolderAssumption DEF IInv, LockInv, Owners, pwork_power_down_returns
  <2>4. CountInv' BY <1>4, CountFrame DEF IInv, pwork_power_down_returns
  <2>5. LockInv'
    BY <2>2, <2>3, HolderAssumption DEF IInv, LockInv, Owners
  <2>6. IdleInv' /\ PendingInv' /\ NoForgottenPowerDown' /\ PendingHasRetry' /\ NoStrandedAsyncPut'
    BY <1>4, <2>1, <2>2, <2>3, PowerDownReturnsInv DEF pwork_power_down_returns
  <2>7. DestroyInv' BY <1>4, <2>2 DEF IInv, DestroyInv, pwork_power_down_returns
  <2> QED BY <1>1, <2>4, <2>5, <2>6, <2>7 DEF IInv
<1> QED BY <1>2, <1>3, <1>4 DEF gcip_pm_async_put_work

\* gcip_pm_async_power_down_work: it powers down only what is still pending.
LEMMA DownWorkInv == ASSUME IInv, gcip_pm_async_power_down_work PROVE IInv'
<1> USE DEF counters, works, flusher, threads, history
<1>1. TypeOK' BY SystemType DEF IInv
<1>2. CASE dwork_start \/ dwork_lock
  <2>1. CountInv' BY <1>2, CountFrame DEF IInv, dwork_start, dwork_lock, not_cancelled
  <2>2. LockInv'
    BY <1>2, HolderAssumption DEF IInv, LockInv, Owners, dwork_start, dwork_lock, not_cancelled
  <2>3. IdleInv' /\ PendingInv'
    BY <1>2, HolderAssumption DEF IInv, IdleInv, PendingInv, Owners, dwork_start, dwork_lock, not_cancelled
  <2>4. DestroyInv'
    BY <1>2 DEF IInv, DestroyInv, dwork_start, dwork_lock, not_cancelled
  <2>5. NoForgottenPowerDown' /\ PendingHasRetry' /\ NoStrandedAsyncPut'
    BY <1>2 DEF IInv, TypeOK, NoForgottenPowerDown, PendingHasRetry, NoStrandedAsyncPut,
                dwork_start, dwork_lock, not_cancelled
  <2> QED BY <1>1, <2>1, <2>2, <2>3, <2>4, <2>5 DEF IInv
<1>3. CASE dwork_power_down_returns
  <2>1. PICK r \in PowerDownResults : gcip_pm_try_power_down(r) BY <1>3 DEF dwork_power_down_returns
  <2>2. /\ lock = "dwork" /\ lock' = "free" /\ dwork = "power_down" /\ dwork' = "idle"
        /\ pwork' = pwork /\ (~forced => count = 0)
        /\ queued' = queued \/ queued' = queued \cup {"dwork"}
        /\ destroyer' = destroyer /\ destroyer # "freed"
    BY <1>3, <2>1, TryPowerDown DEF dwork_power_down_returns, IInv, IdleInv, DestroyInv
  <2>3. \A g \in Holder : st'[g] \notin UpStates \cup DownStates
    BY <1>3, <2>2, HolderAssumption DEF IInv, LockInv, Owners, dwork_power_down_returns
  <2>4. CountInv' BY <1>3, CountFrame DEF IInv, dwork_power_down_returns
  <2>5. LockInv'
    BY <2>2, <2>3, HolderAssumption DEF IInv, LockInv, Owners
  <2>6. IdleInv' /\ PendingInv' /\ NoForgottenPowerDown' /\ PendingHasRetry' /\ NoStrandedAsyncPut'
    BY <1>3, <2>1, <2>2, <2>3, PowerDownReturnsInv DEF dwork_power_down_returns
  <2>7. DestroyInv' BY <1>3, <2>2 DEF IInv, DestroyInv, dwork_power_down_returns
  <2> QED BY <1>1, <2>4, <2>5, <2>6, <2>7 DEF IInv
<1> QED BY <1>2, <1>3 DEF gcip_pm_async_power_down_work

-----------------------------------------------------------------------------
(* Flush, shutdown, destroy *)

\* gcip_pm_flush_delayed_power_down_work.
LEMMA FlushInv == ASSUME IInv, gcip_pm_flush_delayed_power_down_work PROVE IInv'
<1> USE DEF counters, works, flusher, threads, history
<1>1. TypeOK' BY SystemType DEF IInv
<1>2. CASE (\E retry \in 0..MaxRetry : flush_call(retry)) \/ flush_begin \/ flush_end
  <2>1. UNCHANGED <<lock, count, suspendable_count, put_async_count, power_down_pending, queued,
                    dwork, pwork, block, st, scheduling, destroyer, left_on, forced>>
    BY <1>2 DEF flush_call, flush_begin, flush_end
  <2>2. CountInv' BY <2>1, CountFrame DEF IInv
  <2>3. LockInv' /\ IdleInv' /\ PendingInv' BY <2>1 DEF IInv, LockInv, IdleInv, PendingInv
  <2>4. DestroyInv' /\ NoForgottenPowerDown' /\ PendingHasRetry' /\ NoStrandedAsyncPut'
    BY <2>1 DEF IInv, DestroyInv, NoForgottenPowerDown, PendingHasRetry, NoStrandedAsyncPut
  <2> QED BY <1>1, <2>2, <2>3, <2>4 DEF IInv
<1>3. CASE flush_check
  <2>1. /\ UNCHANGED <<lock, count, suspendable_count, put_async_count, queued, dwork, pwork, block,
                       st, scheduling, destroyer, forced>>
        /\ power_down_pending' => power_down_pending
        /\ left_on => left_on'
        /\ power_down_pending => power_down_pending' \/ left_on'
    BY <1>3 DEF flush_check
  <2>2. CountInv' BY <2>1, CountFrame DEF IInv
  <2>3. LockInv' /\ IdleInv' /\ PendingInv' BY <2>1 DEF IInv, LockInv, IdleInv, PendingInv
  <2>4. DestroyInv' /\ NoForgottenPowerDown' /\ PendingHasRetry' /\ NoStrandedAsyncPut'
    BY <2>1 DEF IInv, DestroyInv, NoForgottenPowerDown, PendingHasRetry, NoStrandedAsyncPut
  <2> QED BY <1>1, <2>2, <2>3, <2>4 DEF IInv
<1> QED BY <1>2, <1>3 DEF gcip_pm_flush_delayed_power_down_work

\* gcip_pm_shutdown.
LEMMA ShutdownInv == ASSUME IInv, gcip_pm_shutdown PROVE IInv'
<1> USE DEF counters, works, flusher, threads, history
<1>1. TypeOK' BY SystemType DEF IInv
<1>2. ASSUME NEW force \in BOOLEAN, shutdown_call(force) PROVE IInv'
  <2>1. /\ lock = "free" /\ lock' = "shutdown" /\ destroyer = "alive"
        /\ forced' = (forced \/ count > 0)
        /\ UNCHANGED <<count, suspendable_count, put_async_count, power_down_pending, queued,
                       dwork, pwork, block, st, scheduling, destroyer, left_on>>
    BY <1>2 DEF shutdown_call
  <2>2. CountInv' BY <2>1, CountFrame DEF IInv
  <2>3. LockInv' BY <2>1, HolderAssumption DEF IInv, LockInv, Owners
  <2>4. ~forced' => ~forced /\ count = 0
    <3>1. ~forced' => ~forced /\ ~(count > 0) BY <2>1, Zenon
    <3> QED BY <3>1 DEF IInv, TypeOK
  <2>5. IdleInv' BY <2>1, <2>4, HolderAssumption DEF IdleInv, Owners
  <2>6. PendingInv' BY <2>1 DEF IInv, PendingInv
  <2>7. DestroyInv' /\ NoForgottenPowerDown' /\ PendingHasRetry' /\ NoStrandedAsyncPut'
    BY <2>1 DEF IInv, DestroyInv, NoForgottenPowerDown, PendingHasRetry, NoStrandedAsyncPut
  <2> QED BY <1>1, <2>2, <2>3, <2>5, <2>6, <2>7 DEF IInv
<1>3. CASE shutdown_power_down_returns
  <2>1. PICK r \in PowerDownResults : gcip_pm_try_power_down(r)
    BY <1>3 DEF shutdown_power_down_returns
  <2>2. /\ lock = "shutdown" /\ lock' = "free" /\ dwork' = dwork /\ pwork' = pwork
        /\ (~forced => count = 0) /\ destroyer' = destroyer /\ destroyer = "alive"
    BY <1>3, <2>1, TryPowerDown DEF shutdown_power_down_returns, IInv, IdleInv, DestroyInv
  <2>3. \A g \in Holder : st'[g] \notin UpStates \cup DownStates
    BY <1>3, <2>2, HolderAssumption DEF IInv, LockInv, Owners, shutdown_power_down_returns
  <2>4. CountInv' BY <1>3, CountFrame DEF IInv, shutdown_power_down_returns
  <2>5. LockInv'
    BY <2>2, <2>3, HolderAssumption DEF IInv, LockInv, Owners
  <2>6. IdleInv' /\ PendingInv' /\ NoForgottenPowerDown' /\ PendingHasRetry' /\ NoStrandedAsyncPut'
    BY <1>3, <2>1, <2>2, <2>3, PowerDownReturnsInv DEF shutdown_power_down_returns
  <2>7. DestroyInv' BY <2>2 DEF IInv, DestroyInv
  <2> QED BY <1>1, <2>4, <2>5, <2>6, <2>7 DEF IInv
<1> QED BY <1>2, <1>3 DEF gcip_pm_shutdown

\* gcip_pm_destroy.
LEMMA DestroyStepInv == ASSUME IInv, gcip_pm_destroy PROVE IInv'
<1> USE DEF counters, works, flusher, threads, history
<1>1. TypeOK' BY SystemType DEF IInv
<1>2. /\ UNCHANGED <<lock, count, suspendable_count, put_async_count, dwork, pwork, block,
                     st, scheduling, forced>>
      /\ power_down_pending' => power_down_pending
      /\ left_on => left_on'
      /\ power_down_pending => power_down_pending' \/ left_on'
      /\ "pwork" \in queued' <=> "pwork" \in queued
      /\ "dwork" \in queued' => "dwork" \in queued
      /\ queued' = queued \/ destroyer' = "freed"
      /\ destroyer # "freed"
  <2>1. CASE destroy_call \/ destroy_flush_put BY <2>1 DEF destroy_call, destroy_flush_put
  <2>2. CASE destroy_clear BY <2>2 DEF destroy_clear
  <2>3. CASE destroy_cancel BY <2>3 DEF destroy_cancel
  <2> QED BY <2>1, <2>2, <2>3 DEF gcip_pm_destroy
<1>3. CountInv' BY <1>2, CountFrame DEF IInv
<1>4. LockInv' /\ IdleInv' /\ PendingInv' BY <1>2 DEF IInv, LockInv, IdleInv, PendingInv
<1>5. NoForgottenPowerDown' /\ PendingHasRetry' /\ NoStrandedAsyncPut'
  BY <1>2 DEF IInv, NoForgottenPowerDown, PendingHasRetry, NoStrandedAsyncPut
<1>6. CASE destroy_call
  BY <1>1, <1>3, <1>4, <1>5, <1>6 DEF IInv, DestroyInv, destroy_call
<1>7. CASE destroy_flush_put
  <2>1. put_async_count = 0
    BY <1>7 DEF IInv, TypeOK, NoStrandedAsyncPut, DestroyInv, destroy_flush_put,
                gcip_pm_flush_put_work
  <2> QED BY <1>1, <1>3, <1>4, <1>5, <1>7, <2>1 DEF IInv, DestroyInv, destroy_flush_put,
                                                    gcip_pm_flush_put_work
<1>8. CASE destroy_clear
  BY <1>1, <1>3, <1>4, <1>5, <1>8 DEF IInv, DestroyInv, destroy_clear
<1>9. CASE destroy_cancel
  BY <1>1, <1>3, <1>4, <1>5, <1>9 DEF IInv, DestroyInv, destroy_cancel,
                                          cancel_delayed_work_sync
<1> QED BY <1>6, <1>7, <1>8, <1>9 DEF gcip_pm_destroy

-----------------------------------------------------------------------------
(* The theorems *)

\* A new manager satisfies the invariant: no reference, no work, the block on
\* and known to be left on.
LEMMA InitInv == gcip_pm_create => IInv
<1> SUFFICES ASSUME gcip_pm_create PROVE IInv OBVIOUS
<1>1. TypeOK BY InitType
<1>2. Counted = {} /\ Susp = {}
  BY DEF gcip_pm_create, Counted, Susp, CountedStates, SuspStates
<1>3. CountInv BY <1>2, FS_EmptySet DEF CountInv, gcip_pm_create
<1>4. LockInv /\ PendingInv
  BY HolderAssumption DEF gcip_pm_create, LockInv, PendingInv, UpStates, DownStates, Owners
<1>5. IdleInv BY HolderAssumption DEF gcip_pm_create, IdleInv, Owners
<1>6. DestroyInv /\ NoForgottenPowerDown /\ PendingHasRetry /\ NoStrandedAsyncPut
  BY DEF gcip_pm_create, DestroyInv, NoForgottenPowerDown, PendingHasRetry, NoStrandedAsyncPut
<1> QED BY <1>1, <1>3, <1>4, <1>5, <1>6 DEF IInv

\* Every step, or none, keeps the invariant.
LEMMA StepInv == IInv /\ [Next]_vars => IInv'
<1> SUFFICES ASSUME IInv, [Next]_vars PROVE IInv' OBVIOUS
<1>1. CASE UNCHANGED vars
  <2>1. TypeOK' BY <1>1, StepType DEF IInv
  <2>2. CountInv' BY <1>1, CountFrame DEF IInv, vars
  <2>3. LockInv' /\ IdleInv' /\ PendingInv' BY <1>1 DEF IInv, LockInv, IdleInv, PendingInv, vars
  <2>4. DestroyInv' /\ NoForgottenPowerDown' /\ PendingHasRetry' /\ NoStrandedAsyncPut'
    BY <1>1 DEF IInv, DestroyInv, NoForgottenPowerDown, PendingHasRetry, NoStrandedAsyncPut, vars
  <2> QED BY <2>1, <2>2, <2>3, <2>4 DEF IInv
<1>2. CASE Next
  BY <1>2, GetInv, PowerUpInv, PeekInv, GetIfPoweredInv, PutInv, PutDownInv, PutAsyncInv,
     PutWorkInv, DownWorkInv, FlushInv, ShutdownInv, DestroyStepInv
  DEF Next, HolderNext
<1> QED BY <1>1, <1>2

\* The invariant holds in every reachable state.
THEOREM Invariance == Spec => []IInv
BY InitInv, StepInv, PTL DEF Spec

\* The counters, flags and work items of the manager keep their types in every
\* behaviour, whatever the callbacks answer.
THEOREM TypeCorrect == Spec => []TypeOK
<1>1. IInv => TypeOK BY DEF IInv
<1> QED BY <1>1, Invariance, PTL

\* The block is on as long as anybody holds a reference, unless a shutdown was
\* forced.
THEOREM PoweredWhileHeldHolds == Spec => []PoweredWhileHeld
<1>1. IInv => PoweredWhileHeld
  <2> SUFFICES ASSUME IInv, ~forced, NEW h \in Counted PROVE block = "on"
    BY DEF PoweredWhileHeld
  <2>1. count > 0 BY HeldCounts DEF IInv, Counted
  <2> QED BY <2>1 DEF IInv, IdleInv
<1> QED BY <1>1, Invariance, PTL

\* A power down that became due stays pending, with its work armed, until it
\* is done, taken back by a user, or given up for a reported reason.
THEOREM NoLostPowerDown == Spec => [](NoForgottenPowerDown /\ PendingHasRetry)
<1>1. IInv => NoForgottenPowerDown /\ PendingHasRetry BY DEF IInv
<1> QED BY <1>1, Invariance, PTL

\* System suspend is allowed exactly when every user is suspendable and no
\* power down is pending.
THEOREM SuspendGateHolds == Spec => []SuspendGate
<1>1. IInv => SuspendGate
  <2> SUFFICES ASSUME IInv, lock = "free"
               PROVE  gcip_pm_suspendable_locked
                        <=> ~power_down_pending /\ \A h \in Counted : st[h] = "susp"
    BY DEF SuspendGate
  <2>1. \A h \in Holder : st[h] # "down_susp"
    BY HolderAssumption DEF IInv, LockInv, Owners, UpStates, DownStates
  <2>2. Susp \subseteq Counted BY <2>1, SuspBelowCount DEF IInv
  <2>3. (\A h \in Counted : st[h] = "susp") <=> Susp = Counted
    BY <2>1, <2>2 DEF Susp, Counted, SuspStates
  <2>4. Susp = Counted => count <= suspendable_count
    BY CountFinite DEF IInv, CountInv, TypeOK
  <2>5. count <= suspendable_count => Susp = Counted
    BY <2>2, CountFinite, FS_Subset DEF IInv, CountInv, TypeOK
  <2> QED BY <2>3, <2>4, <2>5 DEF gcip_pm_suspendable_locked
<1> QED BY <1>1, Invariance, PTL

\* An asynchronous put always has somebody who will still look at it, and the
\* manager is freed only when no work item can touch it.
THEOREM WorkersAccounted == Spec => [](NoStrandedAsyncPut /\ FreedIsQuiescent)
<1>1. IInv => NoStrandedAsyncPut /\ FreedIsQuiescent
  <2> SUFFICES ASSUME IInv PROVE NoStrandedAsyncPut /\ FreedIsQuiescent OBVIOUS
  <2>1. ASSUME destroyer = "freed" PROVE lock = "free"
    BY <2>1 DEF IInv, TypeOK, LockInv, DestroyInv, Owners, UpStates, DownStates
  <2> QED BY <2>1 DEF IInv, DestroyInv, FreedIsQuiescent
<1> QED BY <1>1, Invariance, PTL
-----------------------------------------------------------------------------
(* The manager implements its contract *)

\* The contract is idle exactly when count is zero.
LEMMA IdleIsUnused == ASSUME IInv PROVE Contract!Idle <=> count = 0
<1>1. \A h \in Holder : st[h] \in CountedStates <=> users[h] # "none"
  BY DEF IInv, TypeOK, users, UserOf, CountedStates, Flags, HolderStates
<1>2. count = 0 => Contract!Idle BY <1>1, HeldCounts DEF IInv, Contract!Idle
<1>3. Contract!Idle => count = 0
  <2>1. Contract!Idle => Counted = {} BY <1>1 DEF Contract!Idle, Counted
  <2> QED BY <2>1, FS_EmptySet DEF IInv, CountInv
<1> QED BY <1>2, <1>3

\* How a holder's change of state looks to the users of the contract.
LEMMA UsersEffect ==
    ASSUME TypeOK, NEW h \in Holder, NEW s, st' = [st EXCEPT ![h] = s]
    PROVE  users' = [users EXCEPT ![h] = UserOf(s)]
<1>1. \A g \in Holder : st'[g] = IF g = h THEN s ELSE st[g] BY DEF TypeOK
<1>2. users' = [g \in Holder |-> UserOf(st'[g])] BY DEF users
<1>3. [users EXCEPT ![h] = UserOf(s)]
        = [g \in Holder |-> IF g = h THEN UserOf(s) ELSE UserOf(st[g])] BY DEF users
<1> QED BY <1>1, <1>2, <1>3

\* A step that leaves the users, the block and `forced` alone is a stutter.
LEMMA SameUsers == ASSUME UNCHANGED <<st, block, forced>> PROVE UNCHANGED Contract!vars
BY DEF Contract!vars, users

\* take_reference by somebody who holds nothing is a Get, with the block on
\* for a first user.
LEMMA TakeIsGet ==
    ASSUME IInv, NEW h \in Holder, NEW f \in Flags, take_reference(h, f), users[h] = "none",
           block' = IF count = 0 THEN "on" ELSE block, forced' = forced
    PROVE  Contract!Get(h, f)
<1>1. users' = [users EXCEPT ![h] = f]
  BY UsersEffect DEF IInv, take_reference, UserOf, Flags
<1> QED BY <1>1, IdleIsUnused DEF Contract!Get

\* The return of power_down with no users, or after a forced shutdown.
LEMMA PowerDownIsAllowed ==
    ASSUME IInv, NEW r \in PowerDownResults, gcip_pm_try_power_down(r),
           users' = users, forced' = forced, ~forced => count = 0
    PROVE  [Contract!Next]_(Contract!vars)
<1>1. block' = block \/ block' = "off" BY DEF gcip_pm_try_power_down, PowerDownResult
<1>2. CASE block' = block BY <1>2 DEF Contract!vars
<1>3. CASE block' = "off"
  BY <1>3, IdleIsUnused DEF Contract!Next, Contract!PowerDown, Contract!ForceOff
<1> QED BY <1>1, <1>2, <1>3

\* A step of a caller is a step of the contract.
LEMMA HolderRefines ==
    ASSUME IInv, NEW h \in Holder, HolderNext(h)
    PROVE  [Contract!Next]_(Contract!vars)
<1> USE DEF counters, works, flusher, threads, history
<1>1. ASSUME NEW f \in Flags, gcip_pm_get_locked(h, f), st[h] \in {"none", "peek"}, lock = "free",
             UNCHANGED <<block, forced>>
      PROVE  [Contract!Next]_(Contract!vars)
  <2>1. users[h] = "none" BY <1>1 DEF users, UserOf, Flags
  <2>2. CASE count > 0 \/ power_down_pending
    <3>1. count = 0 => block = "on"
      BY <1>1, <2>2 DEF IInv, TypeOK, PendingInv
    <3>2. Contract!Get(h, f) BY <1>1, <2>1, <2>2, <3>1, TakeIsGet DEF gcip_pm_get_locked, IInv, TypeOK
    <3> QED BY <3>2 DEF Contract!Next, Flags
  <2>3. CASE ~(count > 0 \/ power_down_pending)
    <3>1. PICK s \in UpStates : st' = [st EXCEPT ![h] = s]
      BY <1>1, <2>3 DEF gcip_pm_get_locked, UpStates
    <3>2. users' = users
      BY <2>1, <3>1, UsersEffect DEF IInv, UserOf, UpStates, Flags, users
    <3> QED BY <1>1, <3>2 DEF Contract!vars
  <2> QED BY <2>2, <2>3
<1>2. ASSUME NEW f \in Flags, gcip_pm_get_flags(h, f) PROVE [Contract!Next]_(Contract!vars)
  BY <1>1, <1>2 DEF gcip_pm_get_flags
<1>3. CASE power_up_returns(h)
  <2>1. lock = h /\ count = 0 /\ users[h] = "none"
    BY <1>3 DEF power_up_returns, IInv, IdleInv, users, UserOf, Flags
  <2>2. CASE /\ power_up_ok
             /\ take_reference(h, IF st[h] = "up_susp" THEN "susp" ELSE "plain")
    <3>1. PICK f \in Flags : take_reference(h, f) BY <2>2 DEF Flags
    <3>2. Contract!Get(h, f)
      BY <1>3, <2>1, <2>2, <3>1, TakeIsGet DEF power_up_returns, power_up_ok
    <3> QED BY <3>2 DEF Contract!Next, Flags
  <2>3. CASE power_up_refused /\ st' = [st EXCEPT ![h] = "none"]
    <3>1. users' = users BY <2>1, <2>3, UsersEffect DEF IInv, UserOf, Flags, users
    <3>2. Contract!Refuse
      BY <1>3, <2>1, <2>3, <3>1, IdleIsUnused
      DEF Contract!Refuse, power_up_refused, power_up_returns
    <3> QED BY <3>2 DEF Contract!Next
  <2> QED BY <1>3, <2>2, <2>3 DEF power_up_returns
<1>4. CASE get_if_powered_peek(h)
  <2>1. users[h] = "none" /\ st' = [st EXCEPT ![h] = "peek"]
    BY <1>4 DEF get_if_powered_peek, users, UserOf, Flags
  <2>2. users' = users BY <2>1, UsersEffect DEF IInv, UserOf, Flags, users
  <2> QED BY <1>4, <2>2 DEF get_if_powered_peek, Contract!vars
<1>5. ASSUME NEW blocking \in BOOLEAN, gcip_pm_get_if_powered(h, blocking)
      PROVE  [Contract!Next]_(Contract!vars)
  <2>1. CASE lock = "free" /\ count > 0 /\ gcip_pm_get_locked(h, "plain")
    BY <1>1, <1>5, <2>1 DEF gcip_pm_get_if_powered, Flags
  <2>2. CASE st' = [st EXCEPT ![h] = "none"]
    <3>1. users[h] = "none" BY <1>5 DEF gcip_pm_get_if_powered, users, UserOf, Flags
    <3>2. users' = users BY <2>2, <3>1, UsersEffect DEF IInv, UserOf, Flags, users
    <3> QED BY <1>5, <3>2 DEF gcip_pm_get_if_powered, Contract!vars
  <2> QED BY <1>5, <2>1, <2>2 DEF gcip_pm_get_if_powered
<1>6. CASE gcip_pm_put_flags(h)
  <2>1. users[h] # "none" BY <1>6 DEF gcip_pm_put_flags, users, UserOf, Flags
  <2>2. PICK s \in DownStates \cup {"none"} : st' = [st EXCEPT ![h] = s]
    BY <1>6 DEF gcip_pm_put_flags, DownStates
  <2>3. users' = [users EXCEPT ![h] = "none"]
    BY <2>2, UsersEffect DEF IInv, UserOf, DownStates, Flags
  <2>4. Contract!Put(h) BY <1>6, <2>1, <2>3 DEF Contract!Put, gcip_pm_put_flags
  <2> QED BY <2>4 DEF Contract!Next
<1>7. CASE put_power_down_returns(h)
  <2>1. /\ lock = h /\ count = 0 /\ users[h] = "none" /\ st' = [st EXCEPT ![h] = "none"]
        /\ forced' = forced
    BY <1>7 DEF put_power_down_returns, IInv, IdleInv, users, UserOf, Flags
  <2>2. users' = users BY <2>1, UsersEffect DEF IInv, UserOf, Flags, users
  <2> QED BY <1>7, <2>1, <2>2, PowerDownIsAllowed DEF put_power_down_returns
<1>8. CASE gcip_pm_put_async(h)
  <2>1. users[h] = "plain" /\ st' = [st EXCEPT ![h] = "async"]
    BY <1>8 DEF gcip_pm_put_async, users, UserOf, Flags
  <2>2. users' = users BY <2>1, UsersEffect DEF IInv, UserOf, Flags, users
  <2> QED BY <1>8, <2>2 DEF gcip_pm_put_async, Contract!vars
<1>9. CASE put_async_schedule(h) BY <1>9, SameUsers DEF put_async_schedule
<1> QED BY <1>2, <1>3, <1>4, <1>5, <1>6, <1>7, <1>8, <1>9 DEF HolderNext

\* So is a step of a work item, of a flush, of a shutdown or of destroy.
LEMMA SystemRefines ==
    ASSUME IInv,
           \/ gcip_pm_async_put_work \/ gcip_pm_async_power_down_work
           \/ gcip_pm_flush_delayed_power_down_work \/ gcip_pm_shutdown \/ gcip_pm_destroy
    PROVE  [Contract!Next]_(Contract!vars)
<1> USE DEF counters, works, flusher, threads, history
<1>1. CASE gcip_pm_async_put_work
  <2>1. CASE pwork_start \/ pwork_loop BY <2>1, SameUsers DEF pwork_start, pwork_loop
  <2>2. CASE pwork_power_down_returns
    BY <2>2, PowerDownIsAllowed DEF pwork_power_down_returns, IInv, IdleInv, users
  <2>3. ASSUME NEW h \in Holder, pwork_put(h) PROVE [Contract!Next]_(Contract!vars)
    <3>1. users[h] # "none" /\ st' = [st EXCEPT ![h] = "none"]
      BY <2>3 DEF pwork_put, users, UserOf, Flags
    <3>2. users' = [users EXCEPT ![h] = "none"] BY <3>1, UsersEffect DEF IInv, UserOf, Flags
    <3>3. Contract!Put(h) BY <2>3, <3>1, <3>2 DEF Contract!Put, pwork_put
    <3> QED BY <3>3 DEF Contract!Next
  <2> QED BY <1>1, <2>1, <2>2, <2>3 DEF gcip_pm_async_put_work
<1>2. CASE gcip_pm_async_power_down_work
  <2>1. CASE dwork_start \/ dwork_lock BY <2>1, SameUsers DEF dwork_start, dwork_lock
  <2>2. CASE dwork_power_down_returns
    BY <2>2, PowerDownIsAllowed DEF dwork_power_down_returns, IInv, IdleInv, users
  <2> QED BY <1>2, <2>1, <2>2 DEF gcip_pm_async_power_down_work
<1>3. CASE gcip_pm_flush_delayed_power_down_work
  BY <1>3, SameUsers
  DEF gcip_pm_flush_delayed_power_down_work, flush_call, flush_begin, flush_end, flush_check
<1>4. CASE gcip_pm_shutdown
  <2>1. ASSUME NEW force \in BOOLEAN, shutdown_call(force) PROVE [Contract!Next]_(Contract!vars)
    <3>1. users' = users /\ block' = block BY <2>1 DEF shutdown_call, users
    <3>2. CASE count = 0
      <4>1. forced' = (forced \/ count > 0) /\ ~(count > 0)
        BY <2>1, <3>2 DEF shutdown_call
      <4>2. forced' = forced BY <4>1, Zenon DEF IInv, TypeOK
      <4> QED BY <3>1, <4>2 DEF Contract!vars
    <3>3. CASE count # 0
      <4>1. forced' = (forced \/ count > 0) /\ count > 0
        BY <2>1, <3>3 DEF shutdown_call, IInv, TypeOK
      <4>2. forced' = TRUE BY <4>1, Zenon
      <4>3. Contract!Force BY <3>1, <3>3, <4>2, IdleIsUnused DEF Contract!Force
      <4> QED BY <4>3 DEF Contract!Next
    <3> QED BY <3>2, <3>3
  <2>2. CASE shutdown_power_down_returns
    BY <2>2, PowerDownIsAllowed DEF shutdown_power_down_returns, IInv, IdleInv, users
  <2> QED BY <1>4, <2>1, <2>2 DEF gcip_pm_shutdown
<1>5. CASE gcip_pm_destroy
  BY <1>5, SameUsers
  DEF gcip_pm_destroy, destroy_call, destroy_flush_put, destroy_clear, destroy_cancel
<1> QED BY <1>1, <1>2, <1>3, <1>4, <1>5

\* The power manager implements its contract, for any number of callers: every
\* step of gcip-pm.c is a Get, a Put, a permitted switch of the block, or
\* invisible to its users.
THEOREM Refinement == Spec => RefinesContract
<1>1. gcip_pm_create => Contract!Init
  BY DEF gcip_pm_create, Contract!Init, users, UserOf, Flags
<1>2. IInv /\ [Next]_vars => [Contract!Next]_(Contract!vars)
  <2> SUFFICES ASSUME IInv, [Next]_vars PROVE [Contract!Next]_(Contract!vars) OBVIOUS
  <2>1. CASE UNCHANGED vars BY <2>1, SameUsers DEF vars
  <2>2. CASE Next BY <2>2, HolderRefines, SystemRefines DEF Next
  <2> QED BY <2>1, <2>2
<1> QED BY <1>1, <1>2, Invariance, PTL DEF Spec, RefinesContract, Contract!Spec
=============================================================================
