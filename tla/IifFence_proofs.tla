-------------------------- MODULE IifFence_proofs --------------------------
(* Theorems about inter-IP fences, for any finite set of fences, commands   *)
(* and IPs, and for any numbers of signalers and any in- and out-fences.    *)
EXTENDS IifFence, FiniteSetTheorems, TLAPS

Answered == {"firmware", "driver"}

\* The types of what the arguments below are about; that the counts are not
\* negative and within their totals is a result, not a type.
Types ==
  /\ state \in [Fence -> {"none", "initialized", "retired", "freed"}]
  /\ submitted_signalers \in [Fence -> Int] /\ signaled_signalers \in [Fence -> Int]
  /\ remaining_signals \in [Fence -> Nat]
  /\ outstanding_waiters \in [Fence -> [Ip -> Int]]
  /\ block_wakelock \in [Fence -> [Ip -> Int]]
  /\ params_waiters \in [Fence -> SUBSET Ip]
  /\ file \in [Fence -> {"none", "open", "closing", "closed"}]
  /\ poll_cb \in [Fence -> {"none", "listed", "notified", "refused", "gone"}]
  /\ block \in [Ip -> Int]
  /\ pc \in [Cmd -> Holding \cup {"idle", "done"}]
  /\ todo \in [Cmd -> SUBSET Fence] /\ cur \in [Cmd -> SUBSET Fence]
  /\ seen \in [Cmd -> Nat]
  /\ wakelock_held \in [Cmd -> SUBSET (Fence \X Ip)]
  /\ answer \in [Cmd -> Answered \cup {"none", "nobody"}]

Bools ==
  /\ signaled \in [Fence -> BOOLEAN] /\ signal_error \in [Fence -> BOOLEAN]
  /\ propagate \in [Fence -> BOOLEAN] /\ disable_poll \in [Fence -> BOOLEAN]
  /\ signaled_work \in [Fence -> BOOLEAN] /\ waited_work \in [Fence -> BOOLEAN]
  /\ table_errored \in [Fence -> BOOLEAN]
  /\ processed \in [Cmd -> BOOLEAN]

\* What a thread has in hand at each place of its code.
Phase(k) ==
  /\ pc[k] \in {"idle", "in", "both", "refused", "sent", "done"} => todo[k] = {}
  /\ pc[k] \in Signalling => todo[k] \subseteq Out[k]
  /\ pc[k] \in {"waited", "kick_waited"} => todo[k] \subseteq In[k]
  /\ pc[k] \in {"write", "sync", "count", "kick"} =>
       \E f \in Out[k] : cur[k] = {f} /\ f \notin todo[k]
  /\ pc[k] = "kick_waited" => \E f \in In[k] : cur[k] = {f} /\ f \notin todo[k]
  /\ pc[k] \notin {"write", "sync", "count", "kick", "kick_waited"} => cur[k] = {}
  /\ answer[k] = "none" <=> pc[k] \in {"idle", "in", "both", "refused", "sent"}
  /\ answer[k] = "nobody" => pc[k] \in {"waited", "kick_waited", "done"}
  /\ wakelock_held[k] # {} => pc[k] = "both"
  /\ wakelock_held[k] \subseteq Out[k] \X Ip

\* fence_lock excludes: one thread at a time is in the signal section of a fence.
Exclusive ==
  \A j, k \in Cmd : /\ pc[j] \in {"write", "sync"} /\ pc[k] \in {"write", "sync"}
                    /\ cur[j] \cap cur[k] # {}
                    => j = k

\* The reference counts: a fence is there as long as anybody has it.
Life(f) ==
  /\ file[f] = "none" => state[f] = "none"
  /\ state[f] = "none" => file[f] = "none"
  /\ file[f] = "open" => state[f] = "initialized"
  /\ file[f] = "closing" => live(f)
  /\ poll_cb[f] \in {"listed", "notified", "refused"} => live(f)
  /\ \A k \in Cmd : pc[k] \in Holding /\ f \in In[k] \cup Out[k] => live(f)

\* The commands that were submitted as signalers of f, the ones that are still
\* to be counted as signalled, and the ones that wait on behalf of ip.
Submitted(f) == {k \in Cmd : f \in Out[k] /\ pc[k] \in Sent \cup {"done"}}
Pending(f) == {k \in Cmd : Owes(k, f) \/ Abandoned(k, f)}
Waiting(f, ip) == {k \in Cmd : IpOf[k] = ip /\ Awaits(k, f)}

Counts(f) ==
  /\ submitted_signalers[f] = Cardinality(Submitted(f))
  /\ submitted_signalers[f] <= Total[f]
  /\ state[f] # "freed" =>
       signaled_signalers[f] = submitted_signalers[f] - Cardinality(Pending(f))
  /\ state[f] = "freed" => signaled_signalers[f] = Total[f] /\ signaled[f]
  /\ \A ip \in Ip : outstanding_waiters[f][ip] = Cardinality(Waiting(f, ip))

Settled(f) ==
  state[f] \in {"retired", "freed"} =>
    \A k \in Cmd : ~Owes(k, f) /\ ~Awaits(k, f)

\* The commands whose signal of f firmware has put in the table; the ones that
\* are past the write, and past the end, of the signal section.
Processed(f) == {k \in Cmd : f \in Out[k] /\ processed[k]}
Past(S, f) == {k \in Cmd : /\ f \in Out[k] /\ answer[k] \in Answered /\ f \notin todo[k]
                           /\ ~(pc[k] \in S /\ f \in cur[k])}
Written(f) == Past({"write"}, f)
Synced(f) == Past({"write", "sync"}, f)

\* Who told the kernel of a signal, and what the table knows of it.
Told(k) ==
  /\ processed[k] => pc[k] \in Sent \cup {"done"}
  /\ answer[k] = "firmware" => processed[k]
  /\ answer[k] = "driver" => \A f \in Out[k] : propagate[f]

\* The count in the table is at most what the kernel has yet to hear of.  A
\* decrement of firmware may be lost to a racing write of the kernel, but only
\* once propagate is set, and then every signal that the kernel hears of is
\* written.
Table(f) ==
  /\ remaining_signals[f] + Cardinality(Written(f)) <= Total[f]
  /\ ~propagate[f] => remaining_signals[f] + Cardinality(Processed(f)) <= Total[f]
  /\ Cardinality(Synced(f)) >= Total[f] => signaled[f]
  /\ \A k \in Cmd : pc[k] = "write" /\ f \in cur[k] =>
       /\ remaining_signals[f] <= seen[k]
       /\ seen[k] + Cardinality(Written(f)) <= Total[f]

\* A submission has the wakelocks of all waiters of its out-fences: a waiter that
\* registers later finds no signaler unsubmitted, and the submission is refused.
Covered(k, f) ==
  pc[k] = "both" /\ f \in Out[k] =>
    \/ unsubmitted_signalers(f) <= 0
    \/ \A ip \in params_waiters[f] : <<f, ip>> \in wakelock_held[k]

\* The wakelocks of one IP recorded in a fence.
Locks(f, ip) ==
  /\ block_wakelock[f][ip] >= outstanding_waiters[f][ip]
  /\ outstanding_signalers(f) > 0 /\ ip \in params_waiters[f] => block_wakelock[f][ip] > 0
  /\ state[f] = "freed" => block_wakelock[f][ip] = 0

Control == Types /\ Exclusive /\ \A k \in Cmd : Phase(k)
Counting == \A f \in Fence : Life(f) /\ Counts(f) /\ Settled(f)
Signals == Bools /\ (\A k \in Cmd : Told(k)) /\ \A f \in Fence : Table(f)
Wakelocks ==
  /\ WakelocksAccounted
  /\ \A f \in Fence, ip \in Ip : Locks(f, ip)
  /\ \A k \in Cmd, f \in Fence : Covered(k, f)

IInv == Control /\ Counting /\ Signals /\ PollNotLost /\ Wakelocks /\ PendedWakelockReleased

-----------------------------------------------------------------------------
(* Control                                                                  *)

\* The initial state has the invariant's types.
LEMMA InitTypes == Init => Types
BY ConstAssumption DEF Init, Types, Holding, Sent, Answered

\* The constants a step uses, typed.
LEMMA Constants ==
  ASSUME NEW k \in Cmd
  PROVE  /\ IpOf[k] \in Ip /\ In[k] \subseteq Fence /\ Out[k] \subseteq Fence
         /\ IsFiniteSet(In[k]) /\ Cardinality(In[k]) \in Nat
         /\ IsFiniteSet(Out[k] \X Ip)
<1>1. IpOf[k] \in Ip /\ In[k] \subseteq Fence /\ Out[k] \subseteq Fence BY ConstAssumption
<1>2. IsFiniteSet(In[k]) /\ IsFiniteSet(Out[k]) BY <1>1, ConstAssumption, FS_Subset
<1>3. Cardinality(In[k]) \in Nat BY <1>2, FS_CardinalityType
<1>4. IsFiniteSet(Out[k] \X Ip) BY <1>2, ConstAssumption, FS_Product
<1> QED BY <1>1, <1>2, <1>3, <1>4

\* The wakelocks that a submission acquires for an IP are finitely many.
LEMMA HeldForType ==
  ASSUME NEW k \in Cmd, NEW h, h \subseteq Fence \X Ip, NEW ip
  PROVE  held_for(h, ip) \in Nat
<1>1. IsFiniteSet(Fence \X Ip) BY ConstAssumption, FS_Product
<1>2. {p \in h : p[2] = ip} \subseteq Fence \X Ip OBVIOUS
<1> QED BY <1>1, <1>2, FS_Subset, FS_CardinalityType DEF held_for

\* The wakelocks kept are numbers.
LEMMA KeptType ==
  ASSUME Types, NEW f \in Fence, NEW ip \in Ip
  PROVE  /\ locks_kept(f) \in [Ip -> Int] /\ locks_kept(f)[ip] \in Int
         /\ block_wakelock[f][ip] - locks_kept(f)[ip] \in Int
BY DEF Types, locks_kept, outstanding_signalers

\* Releasing the pended wakelocks keeps the types.
LEMMA ReleaseTypes ==
  ASSUME Types, NEW f \in Fence, release_pended(f)
  PROVE  block' \in [Ip -> Int] /\ block_wakelock' \in [Fence -> [Ip -> Int]]
<1>1. \A ip \in Ip : block_wakelock[f][ip] - locks_kept(f)[ip] \in Int BY KeptType
<1>2. block' \in [Ip -> Int] BY <1>1 DEF release_pended, Types
<1>3. CASE Ip = {}
  <2>1. locks_kept(f) \in [Ip -> Int] BY <1>3 DEF locks_kept
  <2> QED BY <1>2, <2>1 DEF release_pended, Types
<1>4. CASE Ip # {}
  <2>1. locks_kept(f) \in [Ip -> Int] BY <1>4, KeptType
  <2> QED BY <1>2, <2>1 DEF release_pended, Types
<1> QED BY <1>3, <1>4

\* The steps of a fence keep the types.
LEMMA FenceTypes == ASSUME Types, NEW f \in Fence, fence_step(f) PROVE Types'
<1> USE DEF Types, fence_vars, status_vars, work_vars, table_vars, user_vars, cmd_vars,
        outstanding_signalers
<1>1. CASE gcip_fence_create_iif(f) BY <1>1 DEF gcip_fence_create_iif
<1>2. CASE iif_sync_file_release(f) BY <1>2 DEF iif_sync_file_release
<1>3. CASE iif_fence_on_sync_file_release(f) BY <1>3 DEF iif_fence_on_sync_file_release, retire_if_possible
<1>4. CASE dma_iif_fence_bridge(f) BY <1>4 DEF dma_iif_fence_bridge, poll_refused
<1>5. CASE dma_iif_fence_release_work(f) BY <1>5 DEF dma_iif_fence_release_work
<1>6. CASE iif_fence_set_flags(f) BY <1>6 DEF iif_fence_set_flags, notify_poll_cb
<1>7. CASE signaled_work_func(f) BY <1>7 DEF signaled_work_func
<1>8. CASE waited_work_func(f)
  <2>1. block' \in [Ip -> Int] /\ block_wakelock' \in [Fence -> [Ip -> Int]]
    BY <1>8, ReleaseTypes DEF waited_work_func
  <2> QED BY <1>8, <2>1 DEF waited_work_func
<1>9. CASE iif_fence_do_destroy(f)
  <2>1. Total[f] \in Int BY ConstAssumption
  <2>2. signaled_signalers' \in [Fence -> Int] BY <1>9, <2>1 DEF iif_fence_do_destroy
  <2>3. \A ip \in Ip : block[ip] - block_wakelock[f][ip] \in Int OBVIOUS
  <2>4. block' \in [Ip -> Int] /\ block_wakelock' \in [Fence -> [Ip -> Int]]
    BY <1>9, <2>3 DEF iif_fence_do_destroy
  <2>5. state' \in [Fence -> {"none", "initialized", "retired", "freed"}]
    BY <1>9 DEF iif_fence_do_destroy
  <2> QED BY <1>9, <2>2, <2>4, <2>5 DEF iif_fence_do_destroy
<1> QED BY <1>1, <1>2, <1>3, <1>4, <1>5, <1>6, <1>7, <1>8, <1>9 DEF fence_step

\* The steps of a command keep the types.
LEMMA CmdTypes == ASSUME Types, NEW k \in Cmd, cmd_step(k) PROVE Types'
<1>0. IpOf[k] \in Ip /\ In[k] \in SUBSET Fence /\ Out[k] \in SUBSET Fence /\ Cardinality(In[k]) \in Nat
  BY Constants
<1> USE <1>0 DEF Types, fence_vars, status_vars, work_vars, table_vars, user_vars, cmd_vars,
        outstanding_signalers, Holding, Sent, Answered
<1>1. CASE acquire_block_wakelock(k)
  <2>1. block' \in [Ip -> Int] BY <1>1 DEF acquire_block_wakelock
  <2>2. pc' = [pc EXCEPT ![k] = "in"] \/ pc' = [pc EXCEPT ![k] = "refused"]
    BY <1>1 DEF acquire_block_wakelock
  <2> QED BY <1>1, <2>1, <2>2 DEF acquire_block_wakelock
<1>2. CASE acquire_block_wakelock_of_waiters(k)
  <2> DEFINE h == {p \in Out[k] \X Ip : p[2] \in params_waiters[p[1]]}
  <2>1. h \subseteq Fence \X Ip BY Constants
  <2>2. \A ip \in Ip : held_for(h, ip) \in Nat BY <2>1, HeldForType
  <2> HIDE DEF h
  <2>3. block' \in [Ip -> Int]
    <3>1. CASE block' = [ip \in Ip |-> block[ip] + held_for(h, ip)] BY <3>1, <2>2
    <3>2. CASE block' = [block EXCEPT ![IpOf[k]] = @ - Cardinality(In[k])] BY <3>2
    <3> QED BY <1>2, <3>1, <3>2 DEF acquire_block_wakelock_of_waiters, h
  <2>4. wakelock_held' \in [Cmd -> SUBSET (Fence \X Ip)]
    <3>1. CASE wakelock_held' = [wakelock_held EXCEPT ![k] = h] BY <2>1, <3>1
    <3>2. CASE wakelock_held' = wakelock_held BY <3>2
    <3> QED BY ONLY <1>2, <3>1, <3>2 DEF acquire_block_wakelock_of_waiters, h
  <2>5. pc' = [pc EXCEPT ![k] = "both"] \/ pc' = [pc EXCEPT ![k] = "refused"]
    BY <1>2 DEF acquire_block_wakelock_of_waiters
  <2> QED BY <1>2, <2>3, <2>4, <2>5 DEF acquire_block_wakelock_of_waiters
<1>3. CASE submit_signaler_and_waiter(k) BY <1>3 DEF submit_signaler_and_waiter
<1>4. CASE submit_refused(k)
  <2>1. \A ip \in Ip : held_for(wakelock_held[k], ip) \in Nat BY HeldForType
  <2>2. \A ip \in Ip : refused_releases(k, ip) \in Nat BY <2>1 DEF refused_releases
  <2> QED BY <1>4, <2>2 DEF submit_refused
<1>5. CASE firmware_processes(k) BY <1>5 DEF firmware_processes
<1>6. CASE response_arrived(k) BY <1>6 DEF response_arrived, next_out_fence
<1>7. CASE response_error(k) BY <1>7 DEF response_error, next_out_fence, set_propagate_unblock
<1>8. CASE clear_responses(k) BY <1>8 DEF clear_responses
<1>9. CASE put_fences(k) BY <1>9 DEF put_fences
<1> QED BY <1>1, <1>2, <1>3, <1>4, <1>5, <1>6, <1>7, <1>8, <1>9 DEF cmd_step

\* The steps of a command at one of its fences keep the types.
LEMMA SignalTypes == ASSUME Types, NEW k \in Cmd, NEW f \in Fence, signal_step(k, f) PROVE Types'
<1>0. IpOf[k] \in Ip /\ In[k] \in SUBSET Fence /\ Out[k] \in SUBSET Fence /\ Cardinality(In[k]) \in Nat
  BY Constants
<1> USE <1>0 DEF Types, fence_vars, status_vars, work_vars, table_vars, user_vars, cmd_vars,
        outstanding_signalers, Holding, Sent, Answered
<1>1. CASE signal_reads(k, f) BY <1>1 DEF signal_reads
<1>2. CASE signal_writes(k, f) BY <1>2 DEF signal_writes, set_remaining_signals, signals_left
<1>3. CASE sync_status(k, f) BY <1>3 DEF sync_status, notify_poll_cb
<1>4. CASE inc_signaled_signalers(k, f)
  <2>1. UNCHANGED <<cur, todo>> \/ next_out_fence(k, todo[k])
    BY <1>4 DEF inc_signaled_signalers
  <2>2. \E x \in {"kick", "waited", "signal"} : pc' = [pc EXCEPT ![k] = x]
    BY <1>4 DEF inc_signaled_signalers, next_out_fence
  <2>3. todo' \in [Cmd -> SUBSET Fence] /\ cur' \in [Cmd -> SUBSET Fence]
    <3>1. CASE UNCHANGED <<cur, todo>> BY <3>1
    <3>2. CASE next_out_fence(k, todo[k]) BY <3>2 DEF next_out_fence
    <3> QED BY <2>1, <3>1, <3>2
  <2>4. state' \in [Fence -> {"none", "initialized", "retired", "freed"}]
    BY <1>4 DEF inc_signaled_signalers, retire_if_possible
  <2>5. pc' \in [Cmd -> Holding \cup {"idle", "done"}] BY <2>2
  <2> QED BY <1>4, <2>3, <2>4, <2>5 DEF inc_signaled_signalers, count_signaler
<1>5. CASE waited_work_kick(k, f)
  <2>1. block' \in [Ip -> Int] /\ block_wakelock' \in [Fence -> [Ip -> Int]]
    BY <1>5, ReleaseTypes DEF waited_work_kick
  <2>2. /\ pc' \in [Cmd -> Holding \cup {"idle", "done"}]
        /\ todo' \in [Cmd -> SUBSET Fence] /\ cur' \in [Cmd -> SUBSET Fence]
    BY <1>5 DEF waited_work_kick, next_out_fence
  <2> QED BY <1>5, <2>1, <2>2 DEF waited_work_kick
<1>6. CASE waiter_completed(k, f)
  <2>1. block' \in [Ip -> Int] /\ block_wakelock' \in [Fence -> [Ip -> Int]]
    <3>1. CASE UNCHANGED <<block_wakelock, block>> BY <3>1
    <3>2. CASE /\ block_wakelock' = [block_wakelock EXCEPT ![f][IpOf[k]] = @ - 1]
               /\ block' = [block EXCEPT ![IpOf[k]] = @ - 1]
      BY <3>2
    <3> QED BY <1>6, <3>1, <3>2 DEF waiter_completed
  <2>2. /\ state' \in [Fence -> {"none", "initialized", "retired", "freed"}]
        /\ outstanding_waiters' \in [Fence -> [Ip -> Int]]
    BY <1>6 DEF waiter_completed, remove_waiter, retire_if_possible
  <2> QED BY <1>6, <2>1, <2>2 DEF waiter_completed
<1>7. CASE waiter_completed_async(k, f) BY <1>7 DEF waiter_completed_async, remove_waiter, retire_if_possible
<1>8. CASE waited_work_async(k, f) BY <1>8 DEF waited_work_async
<1> QED BY <1>1, <1>2, <1>3, <1>4, <1>5, <1>6, <1>7, <1>8 DEF signal_step

\* A step of one command leaves the others where they are.
OthersStay(k) ==
  \A j \in Cmd \ {k} :
    /\ pc'[j] = pc[j] /\ todo'[j] = todo[j] /\ cur'[j] = cur[j] /\ seen'[j] = seen[j]
    /\ wakelock_held'[j] = wakelock_held[j] /\ answer'[j] = answer[j]
    /\ processed'[j] = processed[j]

\* No step of a command at large moves another one.
LEMMA CmdOthers ==
  ASSUME Types, Bools, NEW k \in Cmd, cmd_step(k) PROVE OthersStay(k)
<1> USE DEF Types, Bools, OthersStay, cmd_vars
<1>1. CASE acquire_block_wakelock(k) BY <1>1 DEF acquire_block_wakelock
<1>2. CASE acquire_block_wakelock_of_waiters(k) BY <1>2 DEF acquire_block_wakelock_of_waiters
<1>3. CASE submit_signaler_and_waiter(k) BY <1>3 DEF submit_signaler_and_waiter
<1>4. CASE submit_refused(k) BY <1>4 DEF submit_refused
<1>5. CASE firmware_processes(k) BY <1>5 DEF firmware_processes
<1>6. CASE response_arrived(k) BY <1>6 DEF response_arrived, next_out_fence
<1>7. CASE response_error(k) BY <1>7 DEF response_error, next_out_fence
<1>8. CASE clear_responses(k) BY <1>8 DEF clear_responses
<1>9. CASE put_fences(k) BY <1>9 DEF put_fences
<1> QED BY <1>1, <1>2, <1>3, <1>4, <1>5, <1>6, <1>7, <1>8, <1>9 DEF cmd_step

\* Nor does a step of a command at one of its fences.
LEMMA SignalOthers ==
  ASSUME Types, Bools, NEW k \in Cmd, NEW f \in Fence, signal_step(k, f) PROVE OthersStay(k)
<1> USE DEF Types, Bools, OthersStay, cmd_vars
<1>1. CASE signal_reads(k, f) BY <1>1 DEF signal_reads
<1>2. CASE signal_writes(k, f) BY <1>2 DEF signal_writes
<1>3. CASE sync_status(k, f) BY <1>3 DEF sync_status
<1>4. CASE inc_signaled_signalers(k, f) BY <1>4 DEF inc_signaled_signalers, next_out_fence
<1>5. CASE waited_work_kick(k, f) BY <1>5 DEF waited_work_kick, next_out_fence
<1>6. CASE waiter_completed(k, f) BY <1>6 DEF waiter_completed
<1>7. CASE waiter_completed_async(k, f) BY <1>7 DEF waiter_completed_async
<1>8. CASE waited_work_async(k, f) BY <1>8 DEF waited_work_async
<1> QED BY <1>1, <1>2, <1>3, <1>4, <1>5, <1>6, <1>7, <1>8 DEF signal_step

\* The thread of a command goes from one place of its code to the next.
LEMMA CmdPhase ==
  ASSUME Types, NEW k \in Cmd, Phase(k), cmd_step(k) PROVE Phase(k)'
<1> USE DEF Types, Phase, Holding, Sent, Answered, Signalling, cmd_vars
<1>1. CASE acquire_block_wakelock(k) BY <1>1 DEF acquire_block_wakelock
<1>2. CASE acquire_block_wakelock_of_waiters(k) BY <1>2 DEF acquire_block_wakelock_of_waiters
<1>3. CASE submit_signaler_and_waiter(k) BY <1>3 DEF submit_signaler_and_waiter
<1>4. CASE submit_refused(k) BY <1>4 DEF submit_refused
<1>5. CASE firmware_processes(k) BY <1>5 DEF firmware_processes
<1>6. CASE response_arrived(k) BY <1>6 DEF response_arrived, next_out_fence
<1>7. CASE response_error(k) BY <1>7 DEF response_error, next_out_fence
<1>8. CASE clear_responses(k) BY <1>8 DEF clear_responses
<1>9. CASE put_fences(k) BY <1>9 DEF put_fences
<1> QED BY <1>1, <1>2, <1>3, <1>4, <1>5, <1>6, <1>7, <1>8, <1>9 DEF cmd_step

\* The same in its loops over the fences.
LEMMA SignalPhase ==
  ASSUME Types, NEW k \in Cmd, NEW f \in Fence, Phase(k), signal_step(k, f) PROVE Phase(k)'
<1> USE DEF Types, Phase, Holding, Sent, Answered, Signalling, cmd_vars
<1>1. CASE signal_reads(k, f) BY <1>1 DEF signal_reads
<1>2. CASE signal_writes(k, f) BY <1>2 DEF signal_writes
<1>3. CASE sync_status(k, f) BY <1>3 DEF sync_status
<1>4. CASE inc_signaled_signalers(k, f)
  <2>1. CASE pc' = [pc EXCEPT ![k] = "kick"] /\ UNCHANGED <<cur, todo>>
    BY <1>4, <2>1 DEF inc_signaled_signalers
  <2>2. CASE next_out_fence(k, todo[k])
    BY <1>4, <2>2 DEF inc_signaled_signalers, next_out_fence
  <2> QED BY <1>4, <2>1, <2>2 DEF inc_signaled_signalers
<1>5. CASE waited_work_kick(k, f) BY <1>5 DEF waited_work_kick, next_out_fence
<1>6. CASE waiter_completed(k, f) BY <1>6 DEF waiter_completed
<1>7. CASE waiter_completed_async(k, f) BY <1>7 DEF waiter_completed_async
<1>8. CASE waited_work_async(k, f) BY <1>8 DEF waited_work_async
<1> QED BY <1>1, <1>2, <1>3, <1>4, <1>5, <1>6, <1>7, <1>8 DEF signal_step

\* A signal section begins only where no other is open.
LEMMA ExclusiveKept ==
  ASSUME Types, Exclusive, NEW k \in Cmd, Phase(k), OthersStay(k),
         cmd_step(k) \/ \E f \in Fence : signal_step(k, f)
  PROVE  Exclusive'
<1>1. pc'[k] \in {"write", "sync"} =>
        \/ pc[k] \in {"write", "sync"} /\ cur'[k] = cur[k]
        \/ \E f \in Fence : unlocked(f) /\ cur'[k] = {f}
  <2> USE DEF Types, Phase, cmd_vars
  <2>1. CASE cmd_step(k)
    <3>1. CASE acquire_block_wakelock(k) BY <3>1 DEF acquire_block_wakelock
    <3>2. CASE acquire_block_wakelock_of_waiters(k) BY <3>2 DEF acquire_block_wakelock_of_waiters
    <3>3. CASE submit_signaler_and_waiter(k) BY <3>3 DEF submit_signaler_and_waiter
    <3>4. CASE submit_refused(k) BY <3>4 DEF submit_refused
    <3>5. CASE firmware_processes(k) BY <3>5 DEF firmware_processes
    <3>6. CASE response_arrived(k) BY <3>6 DEF response_arrived, next_out_fence
    <3>7. CASE response_error(k) BY <3>7 DEF response_error, next_out_fence
    <3>8. CASE clear_responses(k) BY <3>8 DEF clear_responses
    <3>9. CASE put_fences(k) BY <3>9 DEF put_fences
    <3> QED BY <3>1, <3>2, <3>3, <3>4, <3>5, <3>6, <3>7, <3>8, <3>9, <2>1 DEF cmd_step
  <2>2. ASSUME NEW f \in Fence, signal_step(k, f)
        PROVE  pc'[k] \in {"write", "sync"} =>
                 \/ pc[k] \in {"write", "sync"} /\ cur'[k] = cur[k]
                 \/ unlocked(f) /\ cur'[k] = {f}
    <3>1. CASE signal_reads(k, f) BY <3>1 DEF signal_reads
    <3>2. CASE signal_writes(k, f) BY <3>2 DEF signal_writes
    <3>3. CASE sync_status(k, f) BY <3>3 DEF sync_status
    <3>4. CASE inc_signaled_signalers(k, f) BY <3>4 DEF inc_signaled_signalers, next_out_fence
    <3>5. CASE waited_work_kick(k, f) BY <3>5 DEF waited_work_kick, next_out_fence
    <3>6. CASE waiter_completed(k, f) BY <3>6 DEF waiter_completed
    <3>7. CASE waiter_completed_async(k, f) BY <3>7 DEF waiter_completed_async
    <3>8. CASE waited_work_async(k, f) BY <3>8 DEF waited_work_async
    <3> QED BY <3>1, <3>2, <3>3, <3>4, <3>5, <3>6, <3>7, <3>8, <2>2 DEF signal_step
  <2> QED BY <2>1, <2>2
<1>2. SUFFICES ASSUME NEW i \in Cmd, NEW j \in Cmd, i # j,
                      pc'[i] \in {"write", "sync"}, pc'[j] \in {"write", "sync"},
                      cur'[i] \cap cur'[j] # {}
               PROVE  FALSE
  BY DEF Exclusive
<1>3. CASE i # k /\ j # k BY <1>2, <1>3 DEF Exclusive, OthersStay
<1>4. CASE i = k BY <1>1, <1>2, <1>4 DEF Exclusive, OthersStay, unlocked
<1>5. CASE j = k BY <1>1, <1>2, <1>5 DEF Exclusive, OthersStay, unlocked
<1> QED BY <1>3, <1>4, <1>5

\* The control part of the invariant is inductive, given the types of the flags.
LEMMA ControlNext == ASSUME Control, Bools, Next PROVE Control'
<1> USE DEF Control
<1>1. ASSUME NEW f \in Fence, fence_step(f) PROVE Control'
  <2>1. Types' BY <1>1, FenceTypes
  <2>2. UNCHANGED cmd_vars
    <3>1. CASE gcip_fence_create_iif(f) BY <3>1 DEF gcip_fence_create_iif
    <3>2. CASE iif_sync_file_release(f) BY <3>2 DEF iif_sync_file_release
    <3>3. CASE iif_fence_on_sync_file_release(f) BY <3>3 DEF iif_fence_on_sync_file_release
    <3>4. CASE dma_iif_fence_bridge(f) BY <3>4 DEF dma_iif_fence_bridge
    <3>5. CASE dma_iif_fence_release_work(f) BY <3>5 DEF dma_iif_fence_release_work
    <3>6. CASE iif_fence_set_flags(f) BY <3>6 DEF iif_fence_set_flags
    <3>7. CASE signaled_work_func(f) BY <3>7 DEF signaled_work_func
    <3>8. CASE waited_work_func(f) BY <3>8 DEF waited_work_func
    <3>9. CASE iif_fence_do_destroy(f) BY <3>9 DEF iif_fence_do_destroy
    <3> QED BY <3>1, <3>2, <3>3, <3>4, <3>5, <3>6, <3>7, <3>8, <3>9, <1>1 DEF fence_step
  <2> QED BY <2>1, <2>2 DEF cmd_vars, Exclusive, Phase
<1>2. ASSUME NEW k \in Cmd, cmd_step(k) PROVE Control'
  <2>1. Types' /\ Phase(k)' /\ OthersStay(k) BY <1>2, CmdTypes, CmdPhase, CmdOthers
  <2>2. \A j \in Cmd : Phase(j)' BY <2>1 DEF OthersStay, Phase
  <2> QED BY <1>2, <2>1, <2>2, ExclusiveKept
<1>3. ASSUME NEW k \in Cmd, NEW f \in Fence, signal_step(k, f) PROVE Control'
  <2>1. Types' /\ Phase(k)' /\ OthersStay(k) BY <1>3, SignalTypes, SignalPhase, SignalOthers
  <2>2. \A j \in Cmd : Phase(j)' BY <2>1 DEF OthersStay, Phase
  <2> QED BY <1>3, <2>1, <2>2, ExclusiveKept
<1> QED BY <1>1, <1>2, <1>3 DEF Next

\* The flags of fences and commands are Booleans.
LEMMA BoolsNext == ASSUME Bools, Next PROVE Bools'
<1> USE DEF Bools, fence_vars, status_vars, work_vars, table_vars, user_vars, cmd_vars
<1>1. ASSUME NEW f \in Fence, fence_step(f) PROVE Bools'
  <2>1. CASE gcip_fence_create_iif(f) BY <2>1 DEF gcip_fence_create_iif
  <2>2. CASE iif_sync_file_release(f) BY <2>2 DEF iif_sync_file_release
  <2>3. CASE iif_fence_on_sync_file_release(f) BY <2>3 DEF iif_fence_on_sync_file_release
  <2>4. CASE dma_iif_fence_bridge(f) BY <2>4 DEF dma_iif_fence_bridge
  <2>5. CASE dma_iif_fence_release_work(f) BY <2>5 DEF dma_iif_fence_release_work
  <2>6. CASE iif_fence_set_flags(f) BY <2>6 DEF iif_fence_set_flags
  <2>7. CASE signaled_work_func(f) BY <2>7 DEF signaled_work_func
  <2>8. CASE waited_work_func(f) BY <2>8 DEF waited_work_func
  <2>9. CASE iif_fence_do_destroy(f) BY <2>9 DEF iif_fence_do_destroy
  <2> QED BY <2>1, <2>2, <2>3, <2>4, <2>5, <2>6, <2>7, <2>8, <2>9, <1>1 DEF fence_step
<1>2. ASSUME NEW k \in Cmd, cmd_step(k) PROVE Bools'
  <2>1. CASE acquire_block_wakelock(k) BY <2>1 DEF acquire_block_wakelock
  <2>2. CASE acquire_block_wakelock_of_waiters(k) BY <2>2 DEF acquire_block_wakelock_of_waiters
  <2>3. CASE submit_signaler_and_waiter(k) BY <2>3 DEF submit_signaler_and_waiter
  <2>4. CASE submit_refused(k) BY <2>4 DEF submit_refused
  <2>5. CASE firmware_processes(k) BY <2>5 DEF firmware_processes
  <2>6. CASE response_arrived(k) BY <2>6 DEF response_arrived
  <2>7. CASE response_error(k) BY <2>7 DEF response_error, set_propagate_unblock
  <2>8. CASE clear_responses(k) BY <2>8 DEF clear_responses
  <2>9. CASE put_fences(k) BY <2>9 DEF put_fences
  <2> QED BY <2>1, <2>2, <2>3, <2>4, <2>5, <2>6, <2>7, <2>8, <2>9, <1>2 DEF cmd_step
<1>3. ASSUME NEW k \in Cmd, NEW f \in Fence, signal_step(k, f) PROVE Bools'
  <2>1. CASE signal_reads(k, f) BY <2>1 DEF signal_reads
  <2>2. CASE signal_writes(k, f) BY <2>2 DEF signal_writes, handle_signal_error
  <2>3. CASE sync_status(k, f) BY <2>3 DEF sync_status
  <2>4. CASE inc_signaled_signalers(k, f) BY <2>4 DEF inc_signaled_signalers
  <2>5. CASE waited_work_kick(k, f) BY <2>5 DEF waited_work_kick
  <2>6. CASE waiter_completed(k, f) BY <2>6 DEF waiter_completed
  <2>7. CASE waiter_completed_async(k, f) BY <2>7 DEF waiter_completed_async
  <2>8. CASE waited_work_async(k, f) BY <2>8 DEF waited_work_async
  <2> QED BY <2>1, <2>2, <2>3, <2>4, <2>5, <2>6, <2>7, <2>8, <1>3 DEF signal_step
<1> QED BY <1>1, <1>2, <1>3 DEF Next

-----------------------------------------------------------------------------
(* Counting                                                                 *)

\* A fence is there as long as its file, its bridge or a command has it: the steps
\* of the fence.
LEMMA FenceLife ==
  ASSUME Control, \A g \in Fence : Life(g), NEW f \in Fence, fence_step(f)
  PROVE  \A g \in Fence : Life(g)'
<1> SUFFICES ASSUME NEW g \in Fence PROVE Life(g)' OBVIOUS
<1> USE DEF Control, Types, Life, live, fence_vars, user_vars, cmd_vars
<1>1. CASE gcip_fence_create_iif(f) BY <1>1 DEF gcip_fence_create_iif
<1>2. CASE iif_sync_file_release(f) BY <1>2 DEF iif_sync_file_release
<1>3. CASE iif_fence_on_sync_file_release(f) BY <1>3 DEF iif_fence_on_sync_file_release, retire_if_possible
<1>4. CASE dma_iif_fence_bridge(f) BY <1>4 DEF dma_iif_fence_bridge
<1>5. CASE dma_iif_fence_release_work(f) BY <1>5 DEF dma_iif_fence_release_work
<1>6. CASE iif_fence_set_flags(f) BY <1>6 DEF iif_fence_set_flags, notify_poll_cb
<1>7. CASE signaled_work_func(f) BY <1>7 DEF signaled_work_func
<1>8. CASE waited_work_func(f) BY <1>8 DEF waited_work_func, release_pended
<1>9. CASE iif_fence_do_destroy(f) BY <1>9 DEF iif_fence_do_destroy, refs
<1> QED BY <1>1, <1>2, <1>3, <1>4, <1>5, <1>6, <1>7, <1>8, <1>9 DEF fence_step

\* The same for the steps of a command: it takes its references while the files are open.
LEMMA CmdLife ==
  ASSUME Control, \A g \in Fence : Life(g), NEW k \in Cmd, OthersStay(k), cmd_step(k)
  PROVE  \A g \in Fence : Life(g)'
<1> SUFFICES ASSUME NEW g \in Fence PROVE Life(g)' OBVIOUS
<1>1. UNCHANGED <<state, file, poll_cb>>
  <2> USE DEF fence_vars, user_vars
  <2>1. CASE acquire_block_wakelock(k) BY <2>1 DEF acquire_block_wakelock
  <2>2. CASE acquire_block_wakelock_of_waiters(k) BY <2>2 DEF acquire_block_wakelock_of_waiters
  <2>3. CASE submit_signaler_and_waiter(k) BY <2>3 DEF submit_signaler_and_waiter
  <2>4. CASE submit_refused(k) BY <2>4 DEF submit_refused
  <2>5. CASE firmware_processes(k) BY <2>5 DEF firmware_processes
  <2>6. CASE response_arrived(k) BY <2>6 DEF response_arrived
  <2>7. CASE response_error(k) BY <2>7 DEF response_error
  <2>8. CASE clear_responses(k) BY <2>8 DEF clear_responses
  <2>9. CASE put_fences(k) BY <2>9 DEF put_fences
  <2> QED BY <2>1, <2>2, <2>3, <2>4, <2>5, <2>6, <2>7, <2>8, <2>9 DEF cmd_step
<1>2. pc'[k] \in Holding => pc[k] \in Holding \/ gcip_fence_fdget(k)
  <2> USE DEF Control, Types, Holding, Sent
  <2>1. CASE acquire_block_wakelock(k) BY <2>1 DEF acquire_block_wakelock
  <2>2. CASE acquire_block_wakelock_of_waiters(k) BY <2>2 DEF acquire_block_wakelock_of_waiters
  <2>3. CASE submit_signaler_and_waiter(k) BY <2>3 DEF submit_signaler_and_waiter
  <2>4. CASE submit_refused(k) BY <2>4 DEF submit_refused
  <2>5. CASE firmware_processes(k) BY <2>5 DEF firmware_processes
  <2>6. CASE response_arrived(k) BY <2>6 DEF response_arrived, next_out_fence
  <2>7. CASE response_error(k) BY <2>7 DEF response_error, next_out_fence
  <2>8. CASE clear_responses(k) BY <2>8 DEF clear_responses
  <2>9. CASE put_fences(k) BY <2>9 DEF put_fences
  <2> QED BY <2>1, <2>2, <2>3, <2>4, <2>5, <2>6, <2>7, <2>8, <2>9 DEF cmd_step
<1> QED BY <1>1, <1>2, Constants DEF Life, live, OthersStay, gcip_fence_fdget

\* The same for its steps at one fence.
LEMMA SignalLife ==
  ASSUME Control, \A g \in Fence : Life(g), NEW k \in Cmd, NEW f \in Fence, OthersStay(k),
         signal_step(k, f)
  PROVE  \A g \in Fence : Life(g)'
<1> SUFFICES ASSUME NEW g \in Fence PROVE Life(g)' OBVIOUS
<1> USE DEF Control, Types, Life, live, Phase, Holding, Sent, Signalling, OthersStay, fence_vars, user_vars
<1>1. CASE signal_reads(k, f) BY <1>1 DEF signal_reads
<1>2. CASE signal_writes(k, f) BY <1>2 DEF signal_writes
<1>3. CASE sync_status(k, f) BY <1>3 DEF sync_status, notify_poll_cb
<1>4. CASE inc_signaled_signalers(k, f)
  <2>1. pc[k] \in Holding /\ live(f) /\ UNCHANGED <<file, poll_cb>>
    BY <1>4 DEF inc_signaled_signalers
  <2>2. state'[g] = state[g] \/ (g = f /\ state'[g] = "retired" /\ file[g] # "open")
    BY <1>4 DEF inc_signaled_signalers, retire_if_possible
  <2> QED BY <2>1, <2>2
<1>5. CASE waited_work_kick(k, f) BY <1>5 DEF waited_work_kick, next_out_fence, release_pended
<1>6. CASE waiter_completed(k, f) BY <1>6 DEF waiter_completed, remove_waiter, retire_if_possible
<1>7. CASE waiter_completed_async(k, f) BY <1>7 DEF waiter_completed_async, remove_waiter, retire_if_possible
<1>8. CASE waited_work_async(k, f) BY <1>8 DEF waited_work_async
<1> QED BY <1>1, <1>2, <1>3, <1>4, <1>5, <1>6, <1>7, <1>8 DEF signal_step

\* The parts of command k in the counts of the fences in F are as before.
SameRoles(k, F) ==
  \A f \in F :
    /\ (k \in Submitted(f))' <=> k \in Submitted(f)
    /\ (k \in Pending(f))' <=> k \in Pending(f)
    /\ Awaits(k, f)' <=> Awaits(k, f)
    /\ Owes(k, f)' => Owes(k, f)

\* The sets that are counted are finite.
LEMMA CountedFinite ==
  ASSUME NEW f \in Fence, NEW ip \in Ip
  PROVE  /\ IsFiniteSet(Submitted(f)) /\ Cardinality(Submitted(f)) \in Nat
         /\ IsFiniteSet(Pending(f)) /\ Cardinality(Pending(f)) \in Nat
         /\ IsFiniteSet(Waiting(f, ip)) /\ Cardinality(Waiting(f, ip)) \in Nat
<1>1. Submitted(f) \subseteq Cmd /\ Pending(f) \subseteq Cmd /\ Waiting(f, ip) \subseteq Cmd
  BY DEF Submitted, Pending, Waiting
<1> QED BY <1>1, ConstAssumption, FS_Subset, FS_CardinalityType

\* Who has still to be counted was submitted.
LEMMA PendingSubmitted ==
  ASSUME Control, NEW f \in Fence
  PROVE  /\ Pending(f) \subseteq Submitted(f)
         /\ Cardinality(Pending(f)) <= Cardinality(Submitted(f))
<1>1. Pending(f) \subseteq Submitted(f)
  BY DEF Control, Types, Phase, Pending, Submitted, Owes, Abandoned, Signalling, Sent
<1>2. IsFiniteSet(Submitted(f))
  <2>1. Submitted(f) \subseteq Cmd BY DEF Submitted
  <2> QED BY <2>1, ConstAssumption, FS_Subset
<1> QED BY <1>1, <1>2, FS_Subset

\* When no role changes, no set does.
LEMMA SetsKept ==
  ASSUME NEW k \in Cmd, OthersStay(k), NEW F \in SUBSET Fence, SameRoles(k, F), NEW f \in F
  PROVE  /\ Submitted(f)' = Submitted(f) /\ Pending(f)' = Pending(f)
         /\ \A ip \in Ip : Waiting(f, ip)' = Waiting(f, ip)
<1>1. Submitted(f)' = Submitted(f) BY DEF OthersStay, SameRoles, Submitted
<1>2. Pending(f)' = Pending(f) BY DEF OthersStay, SameRoles, Pending, Owes, Abandoned
<1>3. \A ip \in Ip : Waiting(f, ip)' = Waiting(f, ip) BY DEF OthersStay, SameRoles, Waiting, Awaits
<1> QED BY <1>1, <1>2, <1>3

\* Before and after the submission a command keeps its roles: an answer, or the end of
\* its group, changes none of them.
LEMMA CmdRoles ==
  ASSUME Control, NEW k \in Cmd, cmd_step(k), ~submit_signaler_and_waiter(k)
  PROVE  SameRoles(k, Fence)
<1> USE Constants DEF Control, Types, Phase, SameRoles, Submitted, Pending, Owes, Abandoned, Awaits, Signalling,
        Sent, Answered, cmd_vars
<1>1. CASE acquire_block_wakelock(k) BY <1>1 DEF acquire_block_wakelock
<1>2. CASE acquire_block_wakelock_of_waiters(k) BY <1>2 DEF acquire_block_wakelock_of_waiters
<1>3. CASE submit_refused(k) BY <1>3 DEF submit_refused
<1>4. CASE firmware_processes(k) BY <1>4 DEF firmware_processes
<1>5. CASE response_arrived(k) BY <1>5 DEF response_arrived, next_out_fence
<1>6. CASE response_error(k) BY <1>6 DEF response_error, next_out_fence
<1>7. CASE clear_responses(k) BY <1>7 DEF clear_responses
<1>8. CASE put_fences(k) BY <1>8 DEF put_fences
<1> QED BY <1>1, <1>2, <1>3, <1>4, <1>5, <1>6, <1>7, <1>8 DEF cmd_step

\* The steps of a signal other than the second section, and the steps after the removal of a
\* waiter, keep the roles.
LEMMA SignalRoles ==
  ASSUME Control, NEW k \in Cmd, NEW f \in Fence, signal_step(k, f)
  PROVE  /\ SameRoles(k, Fence \ {f})
         /\ \/ SameRoles(k, {f})
            \/ inc_signaled_signalers(k, f) \/ waiter_completed(k, f) \/ waiter_completed_async(k, f)
<1> USE Constants, ConstAssumption DEF Control, Types, Phase, SameRoles, Submitted, Pending, Owes, Abandoned,
        Awaits, Signalling, Sent, Answered, cmd_vars
<1>1. CASE signal_reads(k, f) BY <1>1 DEF signal_reads
<1>2. CASE signal_writes(k, f) BY <1>2 DEF signal_writes
<1>3. CASE sync_status(k, f) BY <1>3 DEF sync_status
<1>4. CASE inc_signaled_signalers(k, f) BY <1>4 DEF inc_signaled_signalers, next_out_fence
<1>5. CASE waited_work_kick(k, f) BY <1>5 DEF waited_work_kick, next_out_fence
<1>6. CASE waiter_completed(k, f) BY <1>6 DEF waiter_completed
<1>7. CASE waiter_completed_async(k, f) BY <1>7 DEF waiter_completed_async
<1>8. CASE waited_work_async(k, f) BY <1>8 DEF waited_work_async
<1> QED BY <1>1, <1>2, <1>3, <1>4, <1>5, <1>6, <1>7, <1>8 DEF signal_step

\* The second section counts the signaler, and nothing else.
LEMMA IncRoles ==
  ASSUME Control, NEW k \in Cmd, NEW f \in Fence, inc_signaled_signalers(k, f)
  PROVE  /\ (k \in Submitted(f))' <=> k \in Submitted(f)
         /\ k \in Pending(f) /\ ~(k \in Pending(f))'
         /\ Awaits(k, f)' <=> Awaits(k, f)
         /\ Owes(k, f)' => Owes(k, f)
<1> USE DEF Types, Submitted, Pending, Owes, Abandoned, Awaits, Signalling, Sent, Answered
<1>0. /\ pc[k] = "count" /\ f \in cur[k] /\ f \in Out[k] /\ f \notin In[k]
      /\ f \notin todo[k] /\ todo[k] \subseteq Out[k] /\ answer[k] \in Answered
      /\ UNCHANGED answer
  <2>1. pc[k] = "count" /\ f \in cur[k] /\ UNCHANGED answer BY DEF inc_signaled_signalers
  <2>2. f \in Out[k] /\ f \notin todo[k] BY <2>1 DEF Control, Phase
  <2>3. f \notin In[k] BY <2>2, ConstAssumption
  <2>4. todo[k] \subseteq Out[k] BY <2>1 DEF Control, Phase, Signalling
  <2>5. answer[k] \in Answered BY <2>1 DEF Control, Phase, Types, Answered
  <2> QED BY <2>1, <2>2, <2>3, <2>4, <2>5
<1>1. CASE pc' = [pc EXCEPT ![k] = "kick"] /\ UNCHANGED <<cur, todo>>
  <2>1. pc'[k] = "kick" BY <1>1, <1>0 DEF Control
  <2> QED BY <1>0, <1>1, <2>1
<1>2. CASE next_out_fence(k, todo[k])
  <2>1. pc'[k] \in {"waited", "signal"} /\ cur'[k] = {} /\ f \notin todo'[k]
    BY <1>2, <1>0 DEF next_out_fence, Control
  <2> QED BY <1>0, <1>2, <2>1
<1> QED BY <1>1, <1>2 DEF inc_signaled_signalers

\* A waiter that is removed, and nothing else.
LEMMA WaiterRoles ==
  ASSUME Control, NEW k \in Cmd, NEW f \in Fence,
         waiter_completed(k, f) \/ waiter_completed_async(k, f)
  PROVE  /\ (k \in Submitted(f))' <=> k \in Submitted(f)
         /\ (k \in Pending(f))' <=> k \in Pending(f)
         /\ Awaits(k, f) /\ ~Awaits(k, f)'
         /\ Owes(k, f)' => Owes(k, f)
BY Constants, ConstAssumption DEF Control, Types, Phase, Submitted, Pending, Owes, Abandoned,
   Awaits, Signalling, Sent, Answered, waiter_completed, waiter_completed_async

\* The submission gives a command all its roles.
LEMMA SubmitRoles ==
  ASSUME Control, NEW k \in Cmd, NEW f \in Fence, submit_signaler_and_waiter(k)
  PROVE  /\ k \notin Submitted(f) /\ ((k \in Submitted(f))' <=> f \in Out[k])
         /\ k \notin Pending(f) /\ ((k \in Pending(f))' <=> f \in Out[k])
         /\ ~Awaits(k, f) /\ (Awaits(k, f)' <=> f \in In[k])
BY Constants, ConstAssumption DEF Control, Types, Phase, Submitted, Pending, Owes, Abandoned,
   Awaits, Signalling, Sent, Answered, submit_signaler_and_waiter

\* A set of commands in which one comes or goes.
LEMMA OneMore ==
  ASSUME NEW S \in SUBSET Cmd, NEW T \in SUBSET Cmd, NEW k \in Cmd,
         \A j \in Cmd \ {k} : j \in T <=> j \in S,
         k \notin S, k \in T
  PROVE  Cardinality(T) = Cardinality(S) + 1 /\ Cardinality(S) \in Nat
<1>1. T = S \cup {k} OBVIOUS
<1>2. IsFiniteSet(S) BY ConstAssumption, FS_Subset
<1> QED BY <1>1, <1>2, FS_AddElement, FS_CardinalityType

\* A fence whose sets and counts stay has them counted still.
LEMMA CountsKept ==
  ASSUME NEW f \in Fence, Counts(f),
         Submitted(f)' = Submitted(f), Pending(f)' = Pending(f),
         \A ip \in Ip : Waiting(f, ip)' = Waiting(f, ip),
         submitted_signalers'[f] = submitted_signalers[f],
         signaled_signalers'[f] = signaled_signalers[f],
         outstanding_waiters'[f] = outstanding_waiters[f],
         state'[f] = "freed" <=> state[f] = "freed", signaled[f] => signaled'[f]
  PROVE  Counts(f)'
BY DEF Counts

\* A fence that all its signalers have signalled is unblocked.
LEMMA AllCounted ==
  ASSUME Control, NEW f \in Fence, Counts(f), Table(f), all_signalers_signaled(f)
  PROVE  signaled[f]
<1>1. CASE state[f] = "freed" BY <1>1 DEF Counts
<1>2. CASE state[f] # "freed"
  <2>1. /\ Cardinality(Submitted(f)) \in Nat /\ Cardinality(Pending(f)) \in Nat
        /\ IsFiniteSet(Pending(f)) /\ Total[f] \in Nat
    <3>1. Submitted(f) \subseteq Cmd /\ Pending(f) \subseteq Cmd BY DEF Submitted, Pending
    <3> QED BY <3>1, ConstAssumption, FS_Subset, FS_CardinalityType
  <2>2. Cardinality(Pending(f)) = 0 /\ Cardinality(Submitted(f)) = Total[f]
    BY <1>2, <2>1 DEF Counts, all_signalers_signaled
  <2>3. Pending(f) = {} BY <2>1, <2>2, FS_EmptySet
  <2>4. Submitted(f) \subseteq Synced(f)
    <3> SUFFICES ASSUME NEW k \in Submitted(f) PROVE k \in Synced(f) OBVIOUS
    <3>1. k \in Cmd /\ f \in Out[k] /\ pc[k] \in Sent \cup {"done"} BY DEF Submitted
    <3>2. ~Owes(k, f) /\ ~Abandoned(k, f) BY <2>3, <3>1 DEF Pending
    <3>3. f \notin In[k] BY <3>1, ConstAssumption
    <3> QED BY <3>1, <3>2, <3>3 DEF Synced, Past, Owes, Abandoned, Control, Types, Phase, Sent, Signalling,
               Answered
  <2>5. Synced(f) \subseteq Cmd BY DEF Synced, Past
  <2>6. Cardinality(Synced(f)) >= Total[f] /\ Cardinality(Synced(f)) \in Nat
    BY <2>2, <2>4, <2>5, ConstAssumption, FS_Subset, FS_CardinalityType
  <2> QED BY <2>6 DEF Table
<1> QED BY <1>1, <1>2

\* The steps of a fence: only its destruction changes a count.
LEMMA FenceCounts ==
  ASSUME Control, Bools, Counting, NEW f \in Fence, fence_step(f), Table(f), NEW g \in Fence
  PROVE  Counts(g)'
<1>1. UNCHANGED cmd_vars
  <2> USE DEF cmd_vars
  <2>1. CASE gcip_fence_create_iif(f) BY <2>1 DEF gcip_fence_create_iif
  <2>2. CASE iif_sync_file_release(f) BY <2>2 DEF iif_sync_file_release
  <2>3. CASE iif_fence_on_sync_file_release(f) BY <2>3 DEF iif_fence_on_sync_file_release
  <2>4. CASE dma_iif_fence_bridge(f) BY <2>4 DEF dma_iif_fence_bridge
  <2>5. CASE dma_iif_fence_release_work(f) BY <2>5 DEF dma_iif_fence_release_work
  <2>6. CASE iif_fence_set_flags(f) BY <2>6 DEF iif_fence_set_flags
  <2>7. CASE signaled_work_func(f) BY <2>7 DEF signaled_work_func
  <2>8. CASE waited_work_func(f) BY <2>8 DEF waited_work_func
  <2>9. CASE iif_fence_do_destroy(f) BY <2>9 DEF iif_fence_do_destroy
  <2> QED BY <2>1, <2>2, <2>3, <2>4, <2>5, <2>6, <2>7, <2>8, <2>9 DEF fence_step
<1>2. /\ Submitted(g)' = Submitted(g) /\ Pending(g)' = Pending(g)
      /\ \A ip \in Ip : Waiting(g, ip)' = Waiting(g, ip)
  BY <1>1 DEF cmd_vars, Submitted, Pending, Waiting, Owes, Abandoned, Awaits
<1>3. UNCHANGED <<submitted_signalers, outstanding_waiters>>
  <2> USE DEF fence_vars
  <2>1. CASE gcip_fence_create_iif(f) BY <2>1 DEF gcip_fence_create_iif
  <2>2. CASE iif_sync_file_release(f) BY <2>2 DEF iif_sync_file_release
  <2>3. CASE iif_fence_on_sync_file_release(f) BY <2>3 DEF iif_fence_on_sync_file_release
  <2>4. CASE dma_iif_fence_bridge(f) BY <2>4 DEF dma_iif_fence_bridge
  <2>5. CASE dma_iif_fence_release_work(f) BY <2>5 DEF dma_iif_fence_release_work
  <2>6. CASE iif_fence_set_flags(f) BY <2>6 DEF iif_fence_set_flags
  <2>7. CASE signaled_work_func(f) BY <2>7 DEF signaled_work_func
  <2>8. CASE waited_work_func(f) BY <2>8 DEF waited_work_func
  <2>9. CASE iif_fence_do_destroy(f) BY <2>9 DEF iif_fence_do_destroy
  <2> QED BY <2>1, <2>2, <2>3, <2>4, <2>5, <2>6, <2>7, <2>8, <2>9 DEF fence_step
<1>4. CASE iif_fence_do_destroy(f)
  <2>1. Counts(g) BY DEF Counting
  <2>2. CASE g # f
    <3>1. /\ signaled_signalers'[g] = signaled_signalers[g]
          /\ state'[g] = state[g] /\ (signaled[g] => signaled'[g])
      BY <1>4, <2>2 DEF iif_fence_do_destroy, Control, Types, Bools
    <3> QED BY <1>2, <1>3, <2>1, <3>1, CountsKept
  <2>3. CASE g = f
    <3>1. state'[f] = "freed" /\ signaled_signalers'[f] = Total[f]
      BY <1>4 DEF iif_fence_do_destroy, all_signalers_signaled, Control, Types
    <3>2. signaled'[f]
      <4>1. CASE all_signalers_signaled(f)
        BY <1>4, <2>1, <2>3, <4>1, AllCounted DEF iif_fence_do_destroy
      <4>2. CASE ~all_signalers_signaled(f) BY <1>4, <4>2 DEF iif_fence_do_destroy, Bools
      <4> QED BY <4>1, <4>2
    <3> QED BY <1>2, <1>3, <2>1, <2>3, <3>1, <3>2 DEF Counts
  <2> QED BY <2>2, <2>3
<1>5. CASE ~iif_fence_do_destroy(f)
  <2>1. UNCHANGED <<signaled_signalers, signaled>> /\ (state'[g] = "freed" <=> state[g] = "freed")
    <3> USE DEF fence_vars, status_vars, Control, Types
    <3>1. CASE gcip_fence_create_iif(f) BY <3>1 DEF gcip_fence_create_iif
    <3>2. CASE iif_sync_file_release(f) BY <3>2 DEF iif_sync_file_release
    <3>3. CASE iif_fence_on_sync_file_release(f)
      <4>1. live(f) BY <3>3 DEF iif_fence_on_sync_file_release, Counting, Life
      <4> QED BY <3>3, <4>1 DEF iif_fence_on_sync_file_release, retire_if_possible, live
    <3>4. CASE dma_iif_fence_bridge(f) BY <3>4 DEF dma_iif_fence_bridge
    <3>5. CASE dma_iif_fence_release_work(f) BY <3>5 DEF dma_iif_fence_release_work
    <3>6. CASE iif_fence_set_flags(f) BY <3>6 DEF iif_fence_set_flags
    <3>7. CASE signaled_work_func(f) BY <3>7 DEF signaled_work_func
    <3>8. CASE waited_work_func(f) BY <3>8 DEF waited_work_func
    <3> QED BY <3>1, <3>2, <3>3, <3>4, <3>5, <3>6, <3>7, <3>8, <1>5 DEF fence_step
  <2> QED BY <1>2, <1>3, <2>1, CountsKept DEF Counting
<1> QED BY <1>4, <1>5

\* A submission counts the command in all its fences.
LEMMA SubmitCounts ==
  ASSUME Control, Counting, NEW k \in Cmd, OthersStay(k), submit_signaler_and_waiter(k),
         NEW g \in Fence
  PROVE  Counts(g)'
<1>1. /\ k \notin Submitted(g) /\ ((k \in Submitted(g))' <=> g \in Out[k])
      /\ k \notin Pending(g) /\ ((k \in Pending(g))' <=> g \in Out[k])
      /\ ~Awaits(k, g) /\ (Awaits(k, g)' <=> g \in In[k])
  BY SubmitRoles
<1>2. \A j \in Cmd \ {k} :
        /\ j \in Submitted(g)' <=> j \in Submitted(g)
        /\ j \in Pending(g)' <=> j \in Pending(g)
        /\ Awaits(j, g)' <=> Awaits(j, g)
  BY DEF OthersStay, Submitted, Pending, Owes, Abandoned, Awaits
<1>3. /\ Submitted(g) \in SUBSET Cmd /\ Submitted(g)' \in SUBSET Cmd
      /\ Pending(g) \in SUBSET Cmd /\ Pending(g)' \in SUBSET Cmd
  BY DEF Submitted, Pending
<1>4. Counts(g) /\ Total[g] \in Nat BY ConstAssumption DEF Counting
<1>5. UNCHANGED <<state, signaled_signalers, signaled>>
  BY DEF submit_signaler_and_waiter, status_vars
<1>6. CASE g \in Out[k]
  <2>1. submitted_signalers'[g] = submitted_signalers[g] + 1 /\ submitted_signalers[g] \in Int
    BY <1>6 DEF submit_signaler_and_waiter, Control, Types
  <2>2. submitted_signalers[g] < Total[g]
    BY <1>6, <1>4, <2>1 DEF submit_signaler_and_waiter, are_signaler_submittable, unsubmitted_signalers
  <2>3. Cardinality(Submitted(g)') = Cardinality(Submitted(g)) + 1
    <3>1. k \notin Submitted(g) /\ k \in Submitted(g)' BY <1>1, <1>6
    <3>2. \A j \in Cmd \ {k} : j \in Submitted(g)' <=> j \in Submitted(g) BY <1>2
    <3> QED BY <1>3, <3>1, <3>2, OneMore
  <2>4. Cardinality(Pending(g)') = Cardinality(Pending(g)) + 1 /\ Cardinality(Pending(g)) \in Nat
    <3>1. k \notin Pending(g) /\ k \in Pending(g)' BY <1>1, <1>6
    <3>2. \A j \in Cmd \ {k} : j \in Pending(g)' <=> j \in Pending(g) BY <1>2
    <3> QED BY <1>3, <3>1, <3>2, OneMore
  <2>5. g \notin In[k] BY <1>6, ConstAssumption
  <2>6. outstanding_waiters'[g] = outstanding_waiters[g]
    BY <2>5 DEF submit_signaler_and_waiter
  <2>7. \A ip \in Ip : Waiting(g, ip)' = Waiting(g, ip) BY <1>1, <1>2, <2>5 DEF Waiting
  <2>8. state[g] # "freed"
    <3>1. pc[k] \in Holding BY DEF submit_signaler_and_waiter, Holding
    <3> QED BY <1>6, <3>1 DEF Counting, Life, live
  <2>9. signaled_signalers'[g] = submitted_signalers'[g] - Cardinality(Pending(g)')
    <3>1. signaled_signalers[g] = submitted_signalers[g] - Cardinality(Pending(g))
      BY <1>4, <2>8 DEF Counts
    <3> QED BY <1>5, <2>1, <2>4, <3>1
  <2> QED BY <1>4, <1>5, <2>1, <2>2, <2>3, <2>6, <2>7, <2>8, <2>9 DEF Counts
<1>7. CASE g \notin Out[k]
  <2>1. submitted_signalers'[g] = submitted_signalers[g]
    BY <1>7 DEF submit_signaler_and_waiter, Control, Types
  <2>2. Submitted(g)' = Submitted(g) /\ Pending(g)' = Pending(g)
    BY <1>1, <1>2, <1>3, <1>7
  <2>3. ASSUME NEW ip \in Ip
        PROVE  outstanding_waiters'[g][ip] = Cardinality(Waiting(g, ip)')
    <3>1. outstanding_waiters[g][ip] = Cardinality(Waiting(g, ip)) BY <1>4 DEF Counts
    <3>2. CASE g \in In[k] /\ ip = IpOf[k]
      <4>1. outstanding_waiters'[g][ip] = outstanding_waiters[g][ip] + 1
        BY <3>2 DEF submit_signaler_and_waiter, Control, Types
      <4>2. Waiting(g, ip) \in SUBSET Cmd /\ Waiting(g, ip)' \in SUBSET Cmd BY DEF Waiting
      <4>3. k \notin Waiting(g, ip) /\ k \in Waiting(g, ip)' BY <1>1, <3>2 DEF Waiting
      <4>4. \A j \in Cmd \ {k} : j \in Waiting(g, ip)' <=> j \in Waiting(g, ip)
        BY <1>2 DEF Waiting
      <4>5. Cardinality(Waiting(g, ip)') = Cardinality(Waiting(g, ip)) + 1
        BY <4>2, <4>3, <4>4, OneMore
      <4> QED BY <3>1, <4>1, <4>5
    <3>3. CASE ~(g \in In[k] /\ ip = IpOf[k])
      <4>1. outstanding_waiters'[g][ip] = outstanding_waiters[g][ip]
        BY <3>3 DEF submit_signaler_and_waiter, Control, Types
      <4>2. Waiting(g, ip)' = Waiting(g, ip) BY <1>1, <1>2, <3>3 DEF Waiting
      <4> QED BY <3>1, <4>1, <4>2
    <3> QED BY <3>2, <3>3
  <2> QED BY <1>4, <1>5, <2>1, <2>2, <2>3 DEF Counts
<1> QED BY <1>6, <1>7

\* The other steps of a command change no count.
LEMMA CmdCounts ==
  ASSUME Control, Bools, Counting, NEW k \in Cmd, OthersStay(k), cmd_step(k), NEW g \in Fence
  PROVE  Counts(g)'
<1>1. CASE submit_signaler_and_waiter(k) BY <1>1, SubmitCounts
<1>2. CASE ~submit_signaler_and_waiter(k)
  <2>1. SameRoles(k, Fence) BY <1>2, CmdRoles
  <2>2. UNCHANGED <<fence_vars, signaled>>
    <3> USE DEF fence_vars, status_vars
    <3>1. CASE acquire_block_wakelock(k) BY <3>1 DEF acquire_block_wakelock
    <3>2. CASE acquire_block_wakelock_of_waiters(k) BY <3>2 DEF acquire_block_wakelock_of_waiters
    <3>3. CASE submit_refused(k) BY <3>3 DEF submit_refused
    <3>4. CASE firmware_processes(k) BY <3>4 DEF firmware_processes
    <3>5. CASE response_arrived(k) BY <3>5 DEF response_arrived
    <3>6. CASE response_error(k) BY <3>6 DEF response_error
    <3>7. CASE clear_responses(k) BY <3>7 DEF clear_responses
    <3>8. CASE put_fences(k) BY <3>8 DEF put_fences
    <3> QED BY <3>1, <3>2, <3>3, <3>4, <3>5, <3>6, <3>7, <3>8, <1>2 DEF cmd_step
  <2>3. /\ Submitted(g)' = Submitted(g) /\ Pending(g)' = Pending(g)
        /\ \A ip \in Ip : Waiting(g, ip)' = Waiting(g, ip)
    BY <2>1, SetsKept
  <2> QED BY <2>2, <2>3, CountsKept DEF fence_vars, Counting
<1> QED BY <1>1, <1>2

\* The steps at one fence: the second section counts one signaler, and a removal one waiter.
LEMMA SignalCounts ==
  ASSUME Control, Bools, Counting, NEW k \in Cmd, NEW f \in Fence, OthersStay(k),
         signal_step(k, f), NEW g \in Fence
  PROVE  Counts(g)'
<1>1. /\ SameRoles(k, Fence \ {f})
      /\ \/ SameRoles(k, {f})
         \/ inc_signaled_signalers(k, f) \/ waiter_completed(k, f) \/ waiter_completed_async(k, f)
  BY SignalRoles
<1>2. UNCHANGED submitted_signalers /\ (signaled[g] => signaled'[g])
  <2> USE DEF fence_vars, status_vars, Bools
  <2>1. CASE signal_reads(k, f) BY <2>1 DEF signal_reads
  <2>2. CASE signal_writes(k, f) BY <2>2 DEF signal_writes
  <2>3. CASE sync_status(k, f) BY <2>3 DEF sync_status
  <2>4. CASE inc_signaled_signalers(k, f) BY <2>4 DEF inc_signaled_signalers
  <2>5. CASE waited_work_kick(k, f) BY <2>5 DEF waited_work_kick
  <2>6. CASE waiter_completed(k, f) BY <2>6 DEF waiter_completed
  <2>7. CASE waiter_completed_async(k, f) BY <2>7 DEF waiter_completed_async
  <2>8. CASE waited_work_async(k, f) BY <2>8 DEF waited_work_async
  <2> QED BY <2>1, <2>2, <2>3, <2>4, <2>5, <2>6, <2>7, <2>8 DEF signal_step
<1>3. live(f)
  <2>1. pc[k] \in Holding /\ f \in In[k] \cup Out[k]
    <3> USE DEF Control, Phase, Holding, Sent, Signalling
    <3>1. CASE signal_reads(k, f) BY <3>1 DEF signal_reads
    <3>2. CASE signal_writes(k, f) BY <3>2 DEF signal_writes
    <3>3. CASE sync_status(k, f) BY <3>3 DEF sync_status
    <3>4. CASE inc_signaled_signalers(k, f) BY <3>4 DEF inc_signaled_signalers
    <3>5. CASE waited_work_kick(k, f) BY <3>5 DEF waited_work_kick
    <3>6. CASE waiter_completed(k, f) BY <3>6 DEF waiter_completed
    <3>7. CASE waiter_completed_async(k, f) BY <3>7 DEF waiter_completed_async
    <3>8. CASE waited_work_async(k, f) BY <3>8 DEF waited_work_async
    <3> QED BY <3>1, <3>2, <3>3, <3>4, <3>5, <3>6, <3>7, <3>8 DEF signal_step
  <2> QED BY <2>1 DEF Counting, Life
<1>4. state'[g] = "freed" <=> state[g] = "freed"
  <2> USE <1>3 DEF fence_vars, live, Control, Types, retire_if_possible
  <2>1. CASE signal_reads(k, f) BY <2>1 DEF signal_reads
  <2>2. CASE signal_writes(k, f) BY <2>2 DEF signal_writes
  <2>3. CASE sync_status(k, f) BY <2>3 DEF sync_status
  <2>4. CASE inc_signaled_signalers(k, f) BY <2>4 DEF inc_signaled_signalers
  <2>5. CASE waited_work_kick(k, f) BY <2>5 DEF waited_work_kick
  <2>6. CASE waiter_completed(k, f) BY <2>6 DEF waiter_completed, remove_waiter
  <2>7. CASE waiter_completed_async(k, f) BY <2>7 DEF waiter_completed_async, remove_waiter
  <2>8. CASE waited_work_async(k, f) BY <2>8 DEF waited_work_async
  <2> QED BY <2>1, <2>2, <2>3, <2>4, <2>5, <2>6, <2>7, <2>8 DEF signal_step
<1>5. Counts(g) BY DEF Counting
<1>6. CASE g # f \/ SameRoles(k, {f})
  <2>1. /\ Submitted(g)' = Submitted(g) /\ Pending(g)' = Pending(g)
        /\ \A ip \in Ip : Waiting(g, ip)' = Waiting(g, ip)
    <3>1. CASE g # f BY <1>1, <3>1, SetsKept
    <3>2. CASE g = f BY <1>6, <3>2, SetsKept
    <3> QED BY <3>1, <3>2
  <2>2. signaled_signalers'[g] = signaled_signalers[g] /\ outstanding_waiters'[g] = outstanding_waiters[g]
    <3>1. SameRoles(k, {f}) => /\ ~inc_signaled_signalers(k, f) /\ ~waiter_completed(k, f)
                               /\ ~waiter_completed_async(k, f)
      BY IncRoles, WaiterRoles DEF SameRoles
    <3> USE <1>6, <3>1 DEF fence_vars, Control, Types
    <3>2. CASE signal_reads(k, f) BY <3>2 DEF signal_reads
    <3>3. CASE signal_writes(k, f) BY <3>3 DEF signal_writes
    <3>4. CASE sync_status(k, f) BY <3>4 DEF sync_status
    <3>5. CASE inc_signaled_signalers(k, f) BY <3>5 DEF inc_signaled_signalers
    <3>6. CASE waited_work_kick(k, f) BY <3>6 DEF waited_work_kick
    <3>7. CASE waiter_completed(k, f) BY <3>7 DEF waiter_completed, remove_waiter
    <3>8. CASE waiter_completed_async(k, f) BY <3>8 DEF waiter_completed_async, remove_waiter
    <3>9. CASE waited_work_async(k, f) BY <3>9 DEF waited_work_async
    <3> QED BY <3>2, <3>3, <3>4, <3>5, <3>6, <3>7, <3>8, <3>9 DEF signal_step
  <2> QED BY <1>2, <1>4, <1>5, <2>1, <2>2, CountsKept
<1>7. CASE g = f /\ inc_signaled_signalers(k, f)
  <2>1. /\ (k \in Submitted(f))' <=> k \in Submitted(f)
        /\ k \in Pending(f) /\ ~(k \in Pending(f))'
        /\ Awaits(k, f)' <=> Awaits(k, f)
    BY <1>7, IncRoles
  <2>2. Submitted(f)' = Submitted(f) BY <2>1 DEF Submitted, OthersStay
  <2>3. \A ip \in Ip : Waiting(f, ip)' = Waiting(f, ip) BY <2>1 DEF Waiting, Awaits, OthersStay
  <2>4. Cardinality(Pending(f)) = Cardinality(Pending(f)') + 1 /\ Cardinality(Pending(f)') \in Nat
    <3>1. Pending(f) \in SUBSET Cmd /\ Pending(f)' \in SUBSET Cmd BY DEF Pending
    <3>2. \A j \in Cmd \ {k} : j \in Pending(f) <=> j \in Pending(f)'
      BY DEF Pending, Owes, Abandoned, OthersStay
    <3> QED BY <2>1, <3>1, <3>2, OneMore
  <2>5. /\ signaled_signalers'[f] = signaled_signalers[f] + 1
        /\ outstanding_waiters' = outstanding_waiters
        /\ signaled_signalers[f] \in Int
    BY <1>7 DEF inc_signaled_signalers, count_signaler, Control, Types
  <2>6. signaled_signalers'[f] = submitted_signalers[f] - Cardinality(Pending(f)')
    <3>1. signaled_signalers[f] = submitted_signalers[f] - Cardinality(Pending(f))
      BY <1>3, <1>5, <1>7 DEF Counts, live
    <3>2. submitted_signalers[f] \in Int BY DEF Control, Types
    <3> QED BY <3>1, <3>2, <2>4, <2>5
  <2> QED BY <1>2, <1>3, <1>4, <1>5, <1>7, <2>2, <2>3, <2>5, <2>6 DEF Counts, live
<1>8. CASE g = f /\ (waiter_completed(k, f) \/ waiter_completed_async(k, f))
  <2>1. /\ (k \in Submitted(f))' <=> k \in Submitted(f)
        /\ (k \in Pending(f))' <=> k \in Pending(f)
        /\ Awaits(k, f) /\ ~Awaits(k, f)'
    BY <1>8, WaiterRoles
  <2>2. Submitted(f)' = Submitted(f) BY <2>1 DEF Submitted, OthersStay
  <2>3. Pending(f)' = Pending(f) BY <2>1 DEF Pending, Owes, Abandoned, OthersStay
  <2>4. UNCHANGED signaled_signalers /\ remove_waiter(k, f)
    BY <1>8 DEF waiter_completed, waiter_completed_async
  <2>5. ASSUME NEW ip \in Ip
        PROVE  outstanding_waiters'[f][ip] = Cardinality(Waiting(f, ip)')
    <3>1. outstanding_waiters[f][ip] = Cardinality(Waiting(f, ip)) BY <1>5, <1>8 DEF Counts
    <3>2. \A j \in Cmd \ {k} : j \in Waiting(f, ip) <=> j \in Waiting(f, ip)'
      BY DEF Waiting, Awaits, OthersStay
    <3>3. Waiting(f, ip) \in SUBSET Cmd /\ Waiting(f, ip)' \in SUBSET Cmd BY DEF Waiting
    <3>4. CASE ip = IpOf[k]
      <4>1. outstanding_waiters'[f][ip] = outstanding_waiters[f][ip] - 1
        BY <2>4, <3>4 DEF remove_waiter, Control, Types
      <4>2. k \in Waiting(f, ip) /\ k \notin Waiting(f, ip)' BY <2>1, <3>4 DEF Waiting
      <4>3. Cardinality(Waiting(f, ip)) = Cardinality(Waiting(f, ip)') + 1 /\ Cardinality(Waiting(f, ip)') \in Nat
        BY <3>2, <3>3, <4>2, OneMore
      <4> QED BY <3>1, <4>1, <4>3
    <3>5. CASE ip # IpOf[k]
      <4>1. outstanding_waiters'[f][ip] = outstanding_waiters[f][ip]
        BY <2>4, <3>5 DEF remove_waiter, Control, Types
      <4>2. k \notin Waiting(f, ip) /\ k \notin Waiting(f, ip)' BY <3>5 DEF Waiting
      <4>3. Waiting(f, ip)' = Waiting(f, ip) BY <3>2, <3>3, <4>2
      <4> QED BY <3>1, <4>1, <4>3
    <3> QED BY <3>4, <3>5
  <2> QED BY <1>2, <1>4, <1>5, <1>8, <2>2, <2>3, <2>4, <2>5 DEF Counts
<1> QED BY <1>1, <1>6, <1>7, <1>8

\* A set of commands with no element.
LEMMA NoneLeft == ASSUME NEW S \in SUBSET Cmd, Cardinality(S) = 0 PROVE S = {}
BY ConstAssumption, FS_Subset, FS_EmptySet

\* A fence retires only when nobody owes it a signal or waits for it.
LEMMA RetireSettles ==
  ASSUME Control', NEW g \in Fence, Counts(g)', state'[g] # "freed",
         (outstanding_signalers(g))' = 0, \A ip \in Ip : outstanding_waiters'[g][ip] = 0,
         NEW k \in Cmd
  PROVE  ~Owes(k, g)' /\ ~Awaits(k, g)'
<1>1. Pending(g)' \in SUBSET Cmd /\ Waiting(g, IpOf[k])' \in SUBSET Cmd BY DEF Pending, Waiting
<1>2. IpOf[k] \in Ip BY Constants
<1>3. Cardinality(Waiting(g, IpOf[k])') = 0 BY <1>2 DEF Counts
<1>4. Cardinality(Pending(g)') = 0
  <2>1. Cardinality(Pending(g)') \in Nat BY <1>1, ConstAssumption, FS_Subset, FS_CardinalityType
  <2>2. submitted_signalers'[g] \in Int /\ signaled_signalers'[g] \in Int BY DEF Control, Types
  <2>3. signaled_signalers'[g] = submitted_signalers'[g] - Cardinality(Pending(g)') BY DEF Counts
  <2>4. submitted_signalers'[g] - signaled_signalers'[g] = 0 BY DEF outstanding_signalers
  <2> QED BY <2>1, <2>2, <2>3, <2>4
<1>5. Pending(g)' = {} /\ Waiting(g, IpOf[k])' = {} BY <1>1, <1>3, <1>4, NoneLeft
<1> QED BY <1>5 DEF Pending, Waiting

\* The steps of a fence settle it when they retire or destroy it.
LEMMA FenceSettled ==
  ASSUME Control, Control', Counting, NEW f \in Fence, fence_step(f), NEW g \in Fence, Counts(g)'
  PROVE  Settled(g)'
<1> SUFFICES ASSUME state'[g] \in {"retired", "freed"}, NEW k \in Cmd
             PROVE  ~Owes(k, g)' /\ ~Awaits(k, g)'
  BY DEF Settled
<1>1. UNCHANGED cmd_vars
  <2> USE DEF cmd_vars
  <2>1. CASE gcip_fence_create_iif(f) BY <2>1 DEF gcip_fence_create_iif
  <2>2. CASE iif_sync_file_release(f) BY <2>2 DEF iif_sync_file_release
  <2>3. CASE iif_fence_on_sync_file_release(f) BY <2>3 DEF iif_fence_on_sync_file_release
  <2>4. CASE dma_iif_fence_bridge(f) BY <2>4 DEF dma_iif_fence_bridge
  <2>5. CASE dma_iif_fence_release_work(f) BY <2>5 DEF dma_iif_fence_release_work
  <2>6. CASE iif_fence_set_flags(f) BY <2>6 DEF iif_fence_set_flags
  <2>7. CASE signaled_work_func(f) BY <2>7 DEF signaled_work_func
  <2>8. CASE waited_work_func(f) BY <2>8 DEF waited_work_func
  <2>9. CASE iif_fence_do_destroy(f) BY <2>9 DEF iif_fence_do_destroy
  <2> QED BY <2>1, <2>2, <2>3, <2>4, <2>5, <2>6, <2>7, <2>8, <2>9 DEF fence_step
<1>2. (Owes(k, g)' <=> Owes(k, g)) /\ (Awaits(k, g)' <=> Awaits(k, g))
  BY <1>1 DEF cmd_vars, Owes, Awaits
<1>3. CASE state'[g] = state[g] BY <1>2, <1>3 DEF Counting, Settled
<1>4. CASE state'[g] # state[g] /\ iif_fence_do_destroy(f)
  <2>1. g = f BY <1>4 DEF iif_fence_do_destroy, Control, Types
  <2>2. ~(pc[k] \in Holding /\ f \in In[k] \cup Out[k]) BY <1>4 DEF iif_fence_do_destroy, refs
  <2> QED BY <1>2, <2>1, <2>2 DEF Owes, Awaits, Holding, Sent, Signalling
<1>5. CASE state'[g] # state[g] /\ iif_fence_on_sync_file_release(f)
  <2>1. /\ g = f /\ outstanding_signalers(f) = 0 /\ \A ip \in Ip : outstanding_waiters[f][ip] = 0
        /\ state'[f] = "retired"
    BY <1>5 DEF iif_fence_on_sync_file_release, retire_if_possible, Control, Types
  <2>2. UNCHANGED <<submitted_signalers, signaled_signalers, outstanding_waiters>>
    BY <1>5 DEF iif_fence_on_sync_file_release
  <2> QED BY <2>1, <2>2, RetireSettles DEF outstanding_signalers
<1>6. CASE state'[g] # state[g] /\ gcip_fence_create_iif(f)
  BY <1>6 DEF gcip_fence_create_iif, Control, Types
<1>7. state'[g] # state[g] =>
        \/ gcip_fence_create_iif(f) \/ iif_fence_on_sync_file_release(f) \/ iif_fence_do_destroy(f)
  <2> USE DEF fence_vars
  <2>1. CASE gcip_fence_create_iif(f) BY <2>1 DEF gcip_fence_create_iif
  <2>2. CASE iif_sync_file_release(f) BY <2>2 DEF iif_sync_file_release
  <2>3. CASE iif_fence_on_sync_file_release(f) BY <2>3 DEF iif_fence_on_sync_file_release
  <2>4. CASE dma_iif_fence_bridge(f) BY <2>4 DEF dma_iif_fence_bridge
  <2>5. CASE dma_iif_fence_release_work(f) BY <2>5 DEF dma_iif_fence_release_work
  <2>6. CASE iif_fence_set_flags(f) BY <2>6 DEF iif_fence_set_flags
  <2>7. CASE signaled_work_func(f) BY <2>7 DEF signaled_work_func
  <2>8. CASE waited_work_func(f) BY <2>8 DEF waited_work_func
  <2>9. CASE iif_fence_do_destroy(f) BY <2>9 DEF iif_fence_do_destroy
  <2> QED BY <2>1, <2>2, <2>3, <2>4, <2>5, <2>6, <2>7, <2>8, <2>9 DEF fence_step
<1> QED BY <1>3, <1>4, <1>5, <1>6, <1>7

\* A command is submitted to fences that are neither retired nor gone.
LEMMA CmdSettled ==
  ASSUME Control, Counting, NEW k \in Cmd, OthersStay(k), cmd_step(k), NEW g \in Fence
  PROVE  Settled(g)'
<1> SUFFICES ASSUME state'[g] \in {"retired", "freed"}, NEW j \in Cmd
             PROVE  ~Owes(j, g)' /\ ~Awaits(j, g)'
  BY DEF Settled
<1>1. UNCHANGED state
  <2> USE DEF fence_vars
  <2>1. CASE acquire_block_wakelock(k) BY <2>1 DEF acquire_block_wakelock
  <2>2. CASE acquire_block_wakelock_of_waiters(k) BY <2>2 DEF acquire_block_wakelock_of_waiters
  <2>3. CASE submit_signaler_and_waiter(k) BY <2>3 DEF submit_signaler_and_waiter
  <2>4. CASE submit_refused(k) BY <2>4 DEF submit_refused
  <2>5. CASE firmware_processes(k) BY <2>5 DEF firmware_processes
  <2>6. CASE response_arrived(k) BY <2>6 DEF response_arrived
  <2>7. CASE response_error(k) BY <2>7 DEF response_error
  <2>8. CASE clear_responses(k) BY <2>8 DEF clear_responses
  <2>9. CASE put_fences(k) BY <2>9 DEF put_fences
  <2> QED BY <2>1, <2>2, <2>3, <2>4, <2>5, <2>6, <2>7, <2>8, <2>9 DEF cmd_step
<1>2. ~Owes(j, g) /\ ~Awaits(j, g) BY <1>1 DEF Counting, Settled
<1>3. CASE j # k BY <1>2, <1>3 DEF OthersStay, Owes, Awaits
<1>4. CASE j = k /\ submit_signaler_and_waiter(k)
  <2>1. pc[k] \in Holding BY <1>4 DEF submit_signaler_and_waiter, Holding
  <2>2. g \notin In[k] \cup Out[k]
    BY <1>1, <1>4, <2>1 DEF submit_signaler_and_waiter, are_waiter_submittable, are_signaler_submittable,
       Counting, Life, live
  <2> QED BY <1>4, <2>2 DEF Owes, Awaits
<1>5. CASE j = k /\ ~submit_signaler_and_waiter(k) BY <1>2, <1>5, CmdRoles DEF SameRoles
<1> QED BY <1>3, <1>4, <1>5

\* The steps at one fence settle it when they retire it.
LEMMA SignalSettled ==
  ASSUME Control, Control', Counting, NEW k \in Cmd, NEW f \in Fence, OthersStay(k), signal_step(k, f),
         NEW g \in Fence, Counts(g)'
  PROVE  Settled(g)'
<1> SUFFICES ASSUME state'[g] \in {"retired", "freed"}, NEW j \in Cmd
             PROVE  ~Owes(j, g)' /\ ~Awaits(j, g)'
  BY DEF Settled
<1>1. \A h \in Fence : (Owes(k, h)' => Owes(k, h)) /\ (Awaits(k, h)' => Awaits(k, h))
  <2> SUFFICES ASSUME NEW h \in Fence
               PROVE  (Owes(k, h)' => Owes(k, h)) /\ (Awaits(k, h)' => Awaits(k, h))
    OBVIOUS
  <2>1. CASE h # f BY <2>1, SignalRoles DEF SameRoles
  <2>2. CASE h = f BY <2>2, SignalRoles, IncRoles, WaiterRoles DEF SameRoles
  <2> QED BY <2>1, <2>2
<1>2. (Owes(j, g)' => Owes(j, g)) /\ (Awaits(j, g)' => Awaits(j, g))
  <2>1. CASE j = k BY <1>1, <2>1
  <2>2. CASE j # k BY <2>2 DEF OthersStay, Owes, Awaits
  <2> QED BY <2>1, <2>2
<1>3. CASE state'[g] = state[g] BY <1>2, <1>3 DEF Counting, Settled
<1>4. CASE state'[g] # state[g]
  <2>1. state'[g] = "retired" /\ (outstanding_signalers(g))' = 0 /\ \A ip \in Ip : outstanding_waiters'[g][ip] = 0
    <3> USE <1>4 DEF fence_vars, Control, Types, retire_if_possible, outstanding_signalers, count_signaler
    <3>1. CASE signal_reads(k, f) BY <3>1 DEF signal_reads
    <3>2. CASE signal_writes(k, f) BY <3>2 DEF signal_writes
    <3>3. CASE sync_status(k, f) BY <3>3 DEF sync_status
    <3>4. CASE inc_signaled_signalers(k, f) BY <3>4 DEF inc_signaled_signalers
    <3>5. CASE waited_work_kick(k, f) BY <3>5 DEF waited_work_kick
    <3>6. CASE waiter_completed(k, f) BY <3>6 DEF waiter_completed, remove_waiter
    <3>7. CASE waiter_completed_async(k, f) BY <3>7 DEF waiter_completed_async, remove_waiter
    <3>8. CASE waited_work_async(k, f) BY <3>8 DEF waited_work_async
    <3> QED BY <3>1, <3>2, <3>3, <3>4, <3>5, <3>6, <3>7, <3>8 DEF signal_step
  <2> QED BY <2>1, RetireSettles
<1> QED BY <1>3, <1>4

\* The counting part of the invariant is inductive.
LEMMA CountingNext ==
  ASSUME Control, Control', Bools, Counting, \A f \in Fence : Table(f), Next
  PROVE  Counting'
<1> SUFFICES ASSUME NEW g \in Fence PROVE Life(g)' /\ Counts(g)' /\ Settled(g)' BY DEF Counting
<1>1. \A h \in Fence : Life(h) BY DEF Counting
<1>2. ASSUME NEW f \in Fence, fence_step(f) PROVE Life(g)' /\ Counts(g)' /\ Settled(g)'
  <2>1. Counts(g)' BY <1>2, FenceCounts
  <2> QED BY <1>1, <1>2, <2>1, FenceLife, FenceSettled
<1>3. ASSUME NEW k \in Cmd, cmd_step(k) PROVE Life(g)' /\ Counts(g)' /\ Settled(g)'
  <2>1. OthersStay(k) BY <1>3, CmdOthers DEF Control
  <2> QED BY <1>1, <1>3, <2>1, CmdLife, CmdCounts, CmdSettled
<1>4. ASSUME NEW k \in Cmd, NEW f \in Fence, signal_step(k, f)
      PROVE  Life(g)' /\ Counts(g)' /\ Settled(g)'
  <2>1. OthersStay(k) BY <1>4, SignalOthers DEF Control
  <2>2. Counts(g)' BY <1>4, <2>1, SignalCounts
  <2> QED BY <1>1, <1>4, <2>1, <2>2, SignalLife, SignalSettled
<1> QED BY <1>2, <1>3, <1>4 DEF Next

-----------------------------------------------------------------------------
(* The signals                                                              *)

\* Who told the kernel of a signal: the steps of fences.
LEMMA ToldNext == ASSUME Control, Bools, \A k \in Cmd : Told(k), Next PROVE \A k \in Cmd : Told(k)'
<1> SUFFICES ASSUME NEW j \in Cmd PROVE Told(j)' OBVIOUS
<1>1. ASSUME NEW f \in Fence, fence_step(f) PROVE Told(j)'
  <2> USE Constants DEF Told, Bools, cmd_vars, status_vars
  <2>1. CASE gcip_fence_create_iif(f) BY <2>1 DEF gcip_fence_create_iif
  <2>2. CASE iif_sync_file_release(f) BY <2>2 DEF iif_sync_file_release
  <2>3. CASE iif_fence_on_sync_file_release(f) BY <2>3 DEF iif_fence_on_sync_file_release
  <2>4. CASE dma_iif_fence_bridge(f) BY <2>4 DEF dma_iif_fence_bridge
  <2>5. CASE dma_iif_fence_release_work(f) BY <2>5 DEF dma_iif_fence_release_work
  <2>6. CASE iif_fence_set_flags(f) BY <2>6 DEF iif_fence_set_flags
  <2>7. CASE signaled_work_func(f) BY <2>7 DEF signaled_work_func
  <2>8. CASE waited_work_func(f) BY <2>8 DEF waited_work_func
  <2>9. CASE iif_fence_do_destroy(f) BY <2>9 DEF iif_fence_do_destroy
  <2> QED BY <2>1, <2>2, <2>3, <2>4, <2>5, <2>6, <2>7, <2>8, <2>9, <1>1 DEF fence_step
<1>2. ASSUME NEW k \in Cmd, cmd_step(k) PROVE Told(j)'
  <2>1. OthersStay(k) BY <1>2, CmdOthers DEF Control
  <2>2. \A f \in Fence : propagate[f] => propagate'[f]
    <3> USE DEF Bools, status_vars
    <3>1. CASE acquire_block_wakelock(k) BY <3>1 DEF acquire_block_wakelock
    <3>2. CASE acquire_block_wakelock_of_waiters(k) BY <3>2 DEF acquire_block_wakelock_of_waiters
    <3>3. CASE submit_signaler_and_waiter(k) BY <3>3 DEF submit_signaler_and_waiter
    <3>4. CASE submit_refused(k) BY <3>4 DEF submit_refused
    <3>5. CASE firmware_processes(k) BY <3>5 DEF firmware_processes
    <3>6. CASE response_arrived(k) BY <3>6 DEF response_arrived
    <3>7. CASE response_error(k) BY <3>7 DEF response_error, set_propagate_unblock
    <3>8. CASE clear_responses(k) BY <3>8 DEF clear_responses
    <3>9. CASE put_fences(k) BY <3>9 DEF put_fences
    <3> QED BY <3>1, <3>2, <3>3, <3>4, <3>5, <3>6, <3>7, <3>8, <3>9, <1>2 DEF cmd_step
  <2>3. CASE j # k BY <2>1, <2>2, <2>3, Constants DEF Told, OthersStay
  <2>4. CASE j = k
    <3> USE <2>4, Constants DEF Told, Bools, Control, Types, Phase, Sent, cmd_vars, status_vars
    <3>1. CASE acquire_block_wakelock(k) BY <3>1 DEF acquire_block_wakelock
    <3>2. CASE acquire_block_wakelock_of_waiters(k) BY <3>2 DEF acquire_block_wakelock_of_waiters
    <3>3. CASE submit_signaler_and_waiter(k) BY <3>3 DEF submit_signaler_and_waiter
    <3>4. CASE submit_refused(k) BY <3>4 DEF submit_refused
    <3>5. CASE firmware_processes(k) BY <3>5 DEF firmware_processes
    <3>6. CASE response_arrived(k) BY <3>6 DEF response_arrived, next_out_fence
    <3>7. CASE response_error(k)
      <4>1. pc[k] = "sent" /\ pc'[k] \in Sent /\ answer'[k] = "driver" /\ UNCHANGED processed
        BY <3>7 DEF response_error, next_out_fence
      <4>2. \A f \in Out[k] : propagate'[f] BY <3>7 DEF response_error, set_propagate_unblock
      <4> QED BY <4>1, <4>2
    <3>8. CASE clear_responses(k) BY <3>8 DEF clear_responses
    <3>9. CASE put_fences(k)
      <4>1. UNCHANGED <<propagate, answer, processed>> BY <3>9 DEF put_fences
      <4>2. (pc[k] = "waited" /\ pc'[k] = "done") \/ pc[k] = "refused" BY <3>9 DEF put_fences
      <4> QED BY <4>1, <4>2
    <3> QED BY <3>1, <3>2, <3>3, <3>4, <3>5, <3>6, <3>7, <3>8, <3>9, <1>2 DEF cmd_step
  <2> QED BY <2>3, <2>4
<1>3. ASSUME NEW k \in Cmd, NEW f \in Fence, signal_step(k, f) PROVE Told(j)'
  <2>1. OthersStay(k) BY <1>3, SignalOthers DEF Control
  <2>2. UNCHANGED <<propagate, answer, processed>>
    <3> USE DEF cmd_vars, status_vars
    <3>1. CASE signal_reads(k, f) BY <3>1 DEF signal_reads
    <3>2. CASE signal_writes(k, f) BY <3>2 DEF signal_writes
    <3>3. CASE sync_status(k, f) BY <3>3 DEF sync_status
    <3>4. CASE inc_signaled_signalers(k, f) BY <3>4 DEF inc_signaled_signalers
    <3>5. CASE waited_work_kick(k, f) BY <3>5 DEF waited_work_kick
    <3>6. CASE waiter_completed(k, f) BY <3>6 DEF waiter_completed
    <3>7. CASE waiter_completed_async(k, f) BY <3>7 DEF waiter_completed_async
    <3>8. CASE waited_work_async(k, f) BY <3>8 DEF waited_work_async
    <3> QED BY <3>1, <3>2, <3>3, <3>4, <3>5, <3>6, <3>7, <3>8, <1>3 DEF signal_step
  <2>3. pc[k] \in Sent /\ pc'[k] \in Sent
    <3> USE DEF Control, Types, Sent
    <3>1. CASE signal_reads(k, f) BY <3>1 DEF signal_reads
    <3>2. CASE signal_writes(k, f) BY <3>2 DEF signal_writes
    <3>3. CASE sync_status(k, f) BY <3>3 DEF sync_status
    <3>4. CASE inc_signaled_signalers(k, f) BY <3>4 DEF inc_signaled_signalers, next_out_fence
    <3>5. CASE waited_work_kick(k, f) BY <3>5 DEF waited_work_kick, next_out_fence
    <3>6. CASE waiter_completed(k, f) BY <3>6 DEF waiter_completed
    <3>7. CASE waiter_completed_async(k, f) BY <3>7 DEF waiter_completed_async
    <3>8. CASE waited_work_async(k, f) BY <3>8 DEF waited_work_async
    <3> QED BY <3>1, <3>2, <3>3, <3>4, <3>5, <3>6, <3>7, <3>8, <1>3 DEF signal_step
  <2> QED BY <2>1, <2>2, <2>3 DEF Told, OthersStay
<1> QED BY <1>1, <1>2, <1>3 DEF Next

\* What is known of the signals of command k at the fences in F is as before.
SameSignals(k, F) ==
  \A f \in F :
    /\ (k \in Written(f))' <=> k \in Written(f)
    /\ (k \in Synced(f))' <=> k \in Synced(f)

\* Outside the signal section no signal is written.
LEMMA CmdSignals == ASSUME Control, NEW k \in Cmd, cmd_step(k) PROVE SameSignals(k, Fence)
<1> USE Constants, ConstAssumption DEF Control, Types, Phase, SameSignals, Written, Synced, Past, Signalling,
        Answered, cmd_vars
<1>1. CASE acquire_block_wakelock(k) BY <1>1 DEF acquire_block_wakelock
<1>2. CASE acquire_block_wakelock_of_waiters(k) BY <1>2 DEF acquire_block_wakelock_of_waiters
<1>3. CASE submit_signaler_and_waiter(k) BY <1>3 DEF submit_signaler_and_waiter
<1>4. CASE submit_refused(k) BY <1>4 DEF submit_refused
<1>5. CASE firmware_processes(k) BY <1>5 DEF firmware_processes
<1>6. CASE response_arrived(k) BY <1>6 DEF response_arrived, next_out_fence
<1>7. CASE response_error(k) BY <1>7 DEF response_error, next_out_fence
<1>8. CASE clear_responses(k) BY <1>8 DEF clear_responses
<1>9. CASE put_fences(k) BY <1>9 DEF put_fences
<1> QED BY <1>1, <1>2, <1>3, <1>4, <1>5, <1>6, <1>7, <1>8, <1>9 DEF cmd_step

\* In it, the write and the end of the section mark the fence, and no other.
LEMMA SignalSignals ==
  ASSUME Control, NEW k \in Cmd, NEW f \in Fence, signal_step(k, f)
  PROVE  /\ SameSignals(k, Fence \ {f})
         /\ SameSignals(k, {f}) \/ signal_writes(k, f) \/ sync_status(k, f)
<1> USE Constants, ConstAssumption DEF Control, Types, Phase, SameSignals, Written, Synced, Past, Signalling,
        Answered, cmd_vars
<1>1. CASE signal_reads(k, f) BY <1>1 DEF signal_reads
<1>2. CASE signal_writes(k, f)
  <2>1. /\ pc[k] = "write" /\ cur[k] = {f} /\ pc'[k] = "sync"
        /\ UNCHANGED <<todo, cur, answer>>
    BY <1>2 DEF signal_writes
  <2> QED BY <1>2, <2>1
<1>3. CASE sync_status(k, f) BY <1>3 DEF sync_status
<1>4. CASE inc_signaled_signalers(k, f) BY <1>4 DEF inc_signaled_signalers, next_out_fence
<1>5. CASE waited_work_kick(k, f) BY <1>5 DEF waited_work_kick, next_out_fence
<1>6. CASE waiter_completed(k, f) BY <1>6 DEF waiter_completed
<1>7. CASE waiter_completed_async(k, f) BY <1>7 DEF waiter_completed_async
<1>8. CASE waited_work_async(k, f) BY <1>8 DEF waited_work_async
<1> QED BY <1>1, <1>2, <1>3, <1>4, <1>5, <1>6, <1>7, <1>8 DEF signal_step

\* When these do not change for a command, they do not for any.
LEMMA SignalSetsKept ==
  ASSUME NEW k \in Cmd, OthersStay(k), NEW F \in SUBSET Fence, SameSignals(k, F), NEW f \in F
  PROVE  Written(f)' = Written(f) /\ Synced(f)' = Synced(f)
<1>1. Written(f)' = Written(f) BY DEF OthersStay, SameSignals, Written, Past
<1>2. Synced(f)' = Synced(f) BY DEF OthersStay, SameSignals, Synced, Past
<1> QED BY <1>1, <1>2

\* The sets of signals are finite, and no larger than the set of submitted commands.
LEMMA SignalsFinite ==
  ASSUME Control, \A k \in Cmd : Told(k), NEW f \in Fence, Counts(f)
  PROVE  /\ Written(f) \in SUBSET Cmd /\ Synced(f) \in SUBSET Cmd /\ Processed(f) \in SUBSET Cmd
         /\ Cardinality(Written(f)) \in Nat /\ Cardinality(Synced(f)) \in Nat
         /\ Cardinality(Processed(f)) \in Nat
         /\ Cardinality(Written(f)) <= Total[f] /\ Cardinality(Processed(f)) <= Total[f]
         /\ Total[f] \in Nat
<1>1. Written(f) \in SUBSET Cmd /\ Synced(f) \in SUBSET Cmd /\ Processed(f) \in SUBSET Cmd
  BY DEF Written, Synced, Past, Processed
<1>2. Written(f) \subseteq Submitted(f)
  BY DEF Written, Past, Submitted, Control, Types, Phase, Holding, Sent, Answered
<1>3. Processed(f) \subseteq Submitted(f) BY DEF Processed, Submitted, Told
<1>4. Submitted(f) \subseteq Cmd /\ Total[f] \in Nat BY ConstAssumption DEF Submitted
<1>5. IsFiniteSet(Submitted(f)) BY <1>4, ConstAssumption, FS_Subset
<1>6. Cardinality(Submitted(f)) \in Nat /\ Cardinality(Submitted(f)) <= Total[f]
  BY <1>5, FS_CardinalityType DEF Counts
<1>7. /\ Cardinality(Written(f)) \in Nat /\ Cardinality(Synced(f)) \in Nat
      /\ Cardinality(Processed(f)) \in Nat
  BY <1>1, ConstAssumption, FS_Subset, FS_CardinalityType
<1>8. Cardinality(Written(f)) <= Cardinality(Submitted(f)) BY <1>2, <1>5, FS_Subset
<1>9. Cardinality(Processed(f)) <= Cardinality(Submitted(f)) BY <1>3, <1>5, FS_Subset
<1> QED BY <1>1, <1>4, <1>6, <1>7, <1>8, <1>9

\* A step that writes no signal and raises no count.
LEMMA TableKept ==
  ASSUME Types, Types', NEW g \in Fence, Table(g),
         Written(g)' = Written(g), Synced(g)' = Synced(g),
         Processed(g)' = Processed(g) \/ propagate'[g],
         IsFiniteSet(Cmd), Total[g] \in Nat,
         remaining_signals'[g] = remaining_signals[g],
         propagate[g] => propagate'[g], signaled[g] => signaled'[g],
         \A j \in Cmd : pc'[j] = "write" /\ g \in cur'[j] =>
             pc[j] = "write" /\ g \in cur[j] /\ seen'[j] = seen[j]
  PROVE  Table(g)'
BY DEF Table

\* The steps of a fence do not touch the table.
LEMMA FenceTable ==
  ASSUME Control, Control', Bools, NEW f \in Fence, fence_step(f), NEW g \in Fence, Table(g)
  PROVE  Table(g)'
<1>1. UNCHANGED <<cmd_vars, remaining_signals>>
  <2> USE DEF cmd_vars, table_vars
  <2>1. CASE gcip_fence_create_iif(f) BY <2>1 DEF gcip_fence_create_iif
  <2>2. CASE iif_sync_file_release(f) BY <2>2 DEF iif_sync_file_release
  <2>3. CASE iif_fence_on_sync_file_release(f) BY <2>3 DEF iif_fence_on_sync_file_release
  <2>4. CASE dma_iif_fence_bridge(f) BY <2>4 DEF dma_iif_fence_bridge
  <2>5. CASE dma_iif_fence_release_work(f) BY <2>5 DEF dma_iif_fence_release_work
  <2>6. CASE iif_fence_set_flags(f) BY <2>6 DEF iif_fence_set_flags
  <2>7. CASE signaled_work_func(f) BY <2>7 DEF signaled_work_func
  <2>8. CASE waited_work_func(f) BY <2>8 DEF waited_work_func
  <2>9. CASE iif_fence_do_destroy(f) BY <2>9 DEF iif_fence_do_destroy
  <2> QED BY <2>1, <2>2, <2>3, <2>4, <2>5, <2>6, <2>7, <2>8, <2>9 DEF fence_step
<1>2. (propagate[g] => propagate'[g]) /\ (signaled[g] => signaled'[g])
  <2> USE DEF status_vars, Bools
  <2>1. CASE gcip_fence_create_iif(f) BY <2>1 DEF gcip_fence_create_iif
  <2>2. CASE iif_sync_file_release(f) BY <2>2 DEF iif_sync_file_release
  <2>3. CASE iif_fence_on_sync_file_release(f) BY <2>3 DEF iif_fence_on_sync_file_release
  <2>4. CASE dma_iif_fence_bridge(f) BY <2>4 DEF dma_iif_fence_bridge
  <2>5. CASE dma_iif_fence_release_work(f) BY <2>5 DEF dma_iif_fence_release_work
  <2>6. CASE iif_fence_set_flags(f) BY <2>6 DEF iif_fence_set_flags
  <2>7. CASE signaled_work_func(f) BY <2>7 DEF signaled_work_func
  <2>8. CASE waited_work_func(f) BY <2>8 DEF waited_work_func
  <2>9. CASE iif_fence_do_destroy(f) BY <2>9 DEF iif_fence_do_destroy
  <2> QED BY <2>1, <2>2, <2>3, <2>4, <2>5, <2>6, <2>7, <2>8, <2>9 DEF fence_step
<1>3. Written(g)' = Written(g) /\ Synced(g)' = Synced(g) /\ Processed(g)' = Processed(g)
  BY <1>1 DEF cmd_vars, Written, Synced, Past, Processed
<1> QED BY <1>1, <1>2, <1>3, ConstAssumption, TableKept DEF cmd_vars, Control

\* Firmware decrements the count of a fence it signals, unless it is zero.
LEMMA FirmwareTable ==
  ASSUME Control, Control', Bools, \A j \in Cmd : Told(j), \A j \in Cmd : Told(j)',
         NEW k \in Cmd, OthersStay(k), firmware_processes(k), NEW g \in Fence, Counts(g), Counts(g)', Table(g)
  PROVE  Table(g)'
<1>1. UNCHANGED <<signaled, propagate, pc, cur, seen>> BY DEF firmware_processes, status_vars
<1>2. Written(g)' = Written(g) /\ Synced(g)' = Synced(g)
  BY DEF firmware_processes, Written, Synced, Past
<1>3. /\ Cardinality(Written(g)) \in Nat /\ Cardinality(Processed(g)) \in Nat /\ Total[g] \in Nat
      /\ remaining_signals[g] \in Nat
  BY SignalsFinite DEF Control, Types
<1>4. Processed(g)' \subseteq Cmd /\ Cardinality(Processed(g)') \in Nat /\ Cardinality(Processed(g)') <= Total[g]
  <2>1. Processed(g)' \subseteq Submitted(g)' BY DEF Processed, Submitted, Told
  <2>2. Submitted(g)' \subseteq Cmd BY DEF Submitted
  <2>3. IsFiniteSet(Submitted(g)') BY <2>2, ConstAssumption, FS_Subset
  <2>4. Cardinality(Submitted(g)') <= Total[g] BY DEF Counts
  <2>5. /\ Cardinality(Processed(g)') <= Cardinality(Submitted(g)')
        /\ Cardinality(Processed(g)') \in Nat /\ Cardinality(Submitted(g)') \in Nat
    BY <2>1, <2>3, FS_Subset, FS_CardinalityType
  <2> QED BY <2>1, <2>2, <2>4, <2>5, <1>3
<1>5. CASE g \in Out[k] /\ remaining_signals[g] > 0
  <2>1. remaining_signals'[g] = remaining_signals[g] - 1 BY <1>5 DEF firmware_processes
  <2>2. Cardinality(Processed(g)') = Cardinality(Processed(g)) + 1
    <3>1. k \notin Processed(g) /\ k \in Processed(g)' BY <1>5 DEF firmware_processes, Processed, Bools
    <3>2. \A j \in Cmd \ {k} : j \in Processed(g)' <=> j \in Processed(g) BY DEF OthersStay, Processed
    <3>3. Processed(g) \in SUBSET Cmd /\ Processed(g)' \in SUBSET Cmd BY DEF Processed
    <3> QED BY <3>1, <3>2, <3>3, OneMore
  <2>3. \A j \in Cmd : seen[j] \in Nat BY DEF Control, Types
  <2> QED BY <1>1, <1>2, <1>3, <2>1, <2>2, <2>3 DEF Table
<1>6. CASE g \in Out[k] /\ ~(remaining_signals[g] > 0)
  <2>1. remaining_signals'[g] = remaining_signals[g] /\ remaining_signals[g] = 0
    BY <1>3, <1>6 DEF firmware_processes
  <2> QED BY <1>1, <1>2, <1>3, <1>4, <2>1 DEF Table
<1>7. CASE g \notin Out[k]
  <2>1. remaining_signals'[g] = remaining_signals[g] BY <1>7 DEF firmware_processes
  <2>2. Processed(g)' = Processed(g) BY <1>7 DEF OthersStay, Processed
  <2> QED BY <1>1, <1>2, <2>1, <2>2 DEF Table
<1> QED BY <1>5, <1>6, <1>7

\* The other steps of a command do not touch the table.
LEMMA CmdTable ==
  ASSUME Control, Control', Bools, NEW k \in Cmd, OthersStay(k), cmd_step(k), ~firmware_processes(k),
         NEW g \in Fence, Table(g)
  PROVE  Table(g)'
<1>1. UNCHANGED <<remaining_signals, processed, signaled>>
  <2> USE DEF cmd_vars, table_vars, status_vars
  <2>1. CASE acquire_block_wakelock(k) BY <2>1 DEF acquire_block_wakelock
  <2>2. CASE acquire_block_wakelock_of_waiters(k) BY <2>2 DEF acquire_block_wakelock_of_waiters
  <2>3. CASE submit_signaler_and_waiter(k) BY <2>3 DEF submit_signaler_and_waiter
  <2>4. CASE submit_refused(k) BY <2>4 DEF submit_refused
  <2>5. CASE response_arrived(k) BY <2>5 DEF response_arrived
  <2>6. CASE response_error(k) BY <2>6 DEF response_error
  <2>7. CASE clear_responses(k) BY <2>7 DEF clear_responses
  <2>8. CASE put_fences(k) BY <2>8 DEF put_fences
  <2> QED BY <2>1, <2>2, <2>3, <2>4, <2>5, <2>6, <2>7, <2>8 DEF cmd_step
<1>2. propagate[g] => propagate'[g]
  <2> USE DEF status_vars, Bools
  <2>1. CASE acquire_block_wakelock(k) BY <2>1 DEF acquire_block_wakelock
  <2>2. CASE acquire_block_wakelock_of_waiters(k) BY <2>2 DEF acquire_block_wakelock_of_waiters
  <2>3. CASE submit_signaler_and_waiter(k) BY <2>3 DEF submit_signaler_and_waiter
  <2>4. CASE submit_refused(k) BY <2>4 DEF submit_refused
  <2>5. CASE response_arrived(k) BY <2>5 DEF response_arrived
  <2>6. CASE response_error(k) BY <2>6 DEF response_error, set_propagate_unblock
  <2>7. CASE clear_responses(k) BY <2>7 DEF clear_responses
  <2>8. CASE put_fences(k) BY <2>8 DEF put_fences
  <2> QED BY <2>1, <2>2, <2>3, <2>4, <2>5, <2>6, <2>7, <2>8 DEF cmd_step
<1>3. pc'[k] # "write"
  <2> USE DEF Control, Types
  <2>1. CASE acquire_block_wakelock(k) BY <2>1 DEF acquire_block_wakelock
  <2>2. CASE acquire_block_wakelock_of_waiters(k) BY <2>2 DEF acquire_block_wakelock_of_waiters
  <2>3. CASE submit_signaler_and_waiter(k) BY <2>3 DEF submit_signaler_and_waiter
  <2>4. CASE submit_refused(k) BY <2>4 DEF submit_refused
  <2>5. CASE response_arrived(k) BY <2>5 DEF response_arrived, next_out_fence
  <2>6. CASE response_error(k) BY <2>6 DEF response_error, next_out_fence
  <2>7. CASE clear_responses(k) BY <2>7 DEF clear_responses
  <2>8. CASE put_fences(k) BY <2>8 DEF put_fences
  <2> QED BY <2>1, <2>2, <2>3, <2>4, <2>5, <2>6, <2>7, <2>8 DEF cmd_step
<1>4. Written(g)' = Written(g) /\ Synced(g)' = Synced(g) BY CmdSignals, SignalSetsKept
<1>5. Processed(g)' = Processed(g) BY <1>1 DEF Processed
<1>6. \A j \in Cmd : pc'[j] = "write" /\ g \in cur'[j] =>
        pc[j] = "write" /\ g \in cur[j] /\ seen'[j] = seen[j]
  BY <1>3 DEF OthersStay
<1> QED BY <1>1, <1>2, <1>4, <1>5, <1>6, ConstAssumption, TableKept DEF Control

\* The write of the signal section takes one signal off the count, whatever firmware did since
\* the count was read: firmware had done so before, or propagate is set.
LEMMA WriteTable ==
  ASSUME Control, Control', Bools, \A j \in Cmd : Told(j), NEW k \in Cmd, NEW f \in Fence, OthersStay(k),
         Counts(f), Counts(f)', \A j \in Cmd : Told(j)', signal_writes(k, f), Table(f)
  PROVE  Table(f)'
<1>1. /\ pc[k] = "write" /\ f \in cur[k] /\ cur[k] = {f} /\ pc'[k] = "sync" /\ f \in Out[k] /\ f \notin todo[k]
      /\ answer[k] \in Answered
      /\ UNCHANGED <<todo, cur, answer, processed, propagate, signaled>>
  <2>1. /\ pc[k] = "write" /\ f \in cur[k] /\ pc'[k] = "sync"
        /\ UNCHANGED <<todo, cur, answer, processed, propagate, signaled>>
    BY DEF signal_writes, status_vars, Control, Types
  <2>2. cur[k] = {f} /\ f \in Out[k] /\ f \notin todo[k] BY <2>1 DEF Control, Phase
  <2>3. answer[k] \in Answered BY <2>1 DEF Control, Phase, Types, Answered
  <2> QED BY <2>1, <2>2, <2>3
<1>2. Synced(f)' = Synced(f) /\ Processed(f)' = Processed(f)
  <2>1. Synced(f)' = Synced(f) BY <1>1 DEF Synced, Past, OthersStay
  <2> QED BY <1>1, <2>1 DEF Processed
<1>3. Cardinality(Written(f)') = Cardinality(Written(f)) + 1 /\ Cardinality(Written(f)) \in Nat
  <2>1. Written(f) \in SUBSET Cmd /\ Written(f)' \in SUBSET Cmd BY DEF Written, Past
  <2>2. k \notin Written(f) /\ k \in Written(f)' BY <1>1 DEF Written, Past
  <2>3. \A j \in Cmd \ {k} : j \in Written(f)' <=> j \in Written(f) BY DEF Written, Past, OthersStay
  <2> QED BY <2>1, <2>2, <2>3, OneMore
<1>4. /\ Cardinality(Processed(f)) \in Nat /\ Total[f] \in Nat /\ remaining_signals[f] \in Nat
      /\ seen[k] \in Nat /\ remaining_signals'[f] \in Nat
  BY SignalsFinite DEF Control, Types
<1>5. Cardinality(Written(f)') <= Total[f]
  <2>1. Written(f)' \subseteq Submitted(f)'
    <3> SUFFICES ASSUME NEW j \in Written(f)' PROVE j \in Submitted(f)' OBVIOUS
    <3>1. j \in Cmd /\ f \in Out[j] /\ answer'[j] \in Answered BY DEF Written, Past
    <3>2. Phase(j)' /\ pc'[j] \in Holding \cup {"idle", "done"} BY <3>1 DEF Control, Types
    <3>3. pc'[j] \in Sent \cup {"done"} BY <3>1, <3>2 DEF Phase, Holding, Sent, Answered
    <3> QED BY <3>1, <3>3 DEF Submitted
  <2>2. Submitted(f)' \subseteq Cmd BY DEF Submitted
  <2>3. IsFiniteSet(Submitted(f)') BY <2>2, ConstAssumption, FS_Subset
  <2>4. Cardinality(Submitted(f)') <= Total[f] BY DEF Counts
  <2>5. /\ Cardinality(Written(f)') <= Cardinality(Submitted(f)')
        /\ Cardinality(Submitted(f)') \in Nat /\ Cardinality(Written(f)') \in Nat
    BY <2>1, <2>3, FS_Subset, FS_CardinalityType
  <2> QED BY <1>4, <2>4, <2>5
<1>6. remaining_signals[f] <= seen[k] /\ seen[k] + Cardinality(Written(f)) <= Total[f]
  BY <1>1 DEF Table
<1>7. PICK checked \in remaining_signals[f] .. seen[k] :
        remaining_signals' = [remaining_signals EXCEPT ![f] = set_remaining_signals(k, f, checked)]
  BY DEF signal_writes
<1>8. remaining_signals'[f] = set_remaining_signals(k, f, checked)
  BY <1>7 DEF Control, Types
<1>9. /\ remaining_signals'[f] <= remaining_signals[f] \/ propagate[f]
      /\ remaining_signals'[f] + Cardinality(Written(f)') <= Total[f]
  <2>1. CASE propagate[f] /\ seen[k] > 0
    <3>1. signals_left(k, f) = seen[k] - 1 BY <2>1 DEF signals_left
    <3>2. remaining_signals'[f] <= seen[k] - 1
      <4>1. CASE checked > seen[k] - 1 BY <1>8, <2>1, <3>1, <4>1, <1>4 DEF set_remaining_signals
      <4>2. CASE ~(checked > seen[k] - 1)
        <5>1. remaining_signals'[f] = remaining_signals[f] BY <1>8, <2>1, <3>1, <4>2 DEF set_remaining_signals
        <5> QED BY <5>1, <4>2, <1>4, <1>7
      <4> QED BY <4>1, <4>2
    <3> QED BY <1>3, <1>4, <1>6, <2>1, <3>2
  <2>2. CASE propagate[f] /\ ~(seen[k] > 0)
    <3>1. seen[k] = 0 /\ remaining_signals[f] = 0 BY <1>4, <1>6, <2>2
    <3>2. signals_left(k, f) = 0 BY <2>2, <3>1 DEF signals_left
    <3>3. remaining_signals'[f] = 0 BY <1>8, <3>1, <3>2 DEF set_remaining_signals
    <3> QED BY <1>3, <1>4, <1>5, <2>2, <3>3
  <2>3. CASE ~propagate[f]
    <3>1. remaining_signals'[f] = remaining_signals[f] BY <1>8, <2>3 DEF set_remaining_signals
    <3>2. Written(f)' \subseteq Processed(f)
      BY <1>1, <1>2, <2>3 DEF Written, Past, Processed, Told, Answered
    <3>3. Processed(f) \subseteq Cmd BY DEF Processed
    <3>4. IsFiniteSet(Processed(f)) BY <3>3, ConstAssumption, FS_Subset
    <3>5. Cardinality(Written(f)') <= Cardinality(Processed(f)) BY <3>2, <3>4, FS_Subset
    <3>6. remaining_signals[f] + Cardinality(Processed(f)) <= Total[f] BY <2>3 DEF Table
    <3> QED BY <1>3, <1>4, <3>1, <3>5, <3>6
  <2> QED BY <2>1, <2>2, <2>3
<1>10. \A j \in Cmd : ~(pc'[j] = "write" /\ f \in cur'[j])
  <2> SUFFICES ASSUME NEW j \in Cmd, pc'[j] = "write", f \in cur'[j] PROVE FALSE OBVIOUS
  <2>1. j # k BY <1>1
  <2>2. pc[j] = "write" /\ f \in cur[j] BY <2>1 DEF OthersStay
  <2> QED BY <1>1, <2>1, <2>2 DEF Control, Exclusive
<1>11. ~propagate'[f] => remaining_signals'[f] + Cardinality(Processed(f)') <= Total[f]
  BY <1>1, <1>2, <1>4, <1>9 DEF Table
<1>12. Cardinality(Synced(f)') >= Total[f] => signaled'[f] BY <1>1, <1>2 DEF Table
<1> QED BY <1>9, <1>10, <1>11, <1>12 DEF Table

\* At the end of the section a fence without remaining signals is unblocked.
LEMMA SyncTable ==
  ASSUME Control, Control', Bools, \A j \in Cmd : Told(j), NEW k \in Cmd, NEW f \in Fence, OthersStay(k),
         Counts(f), sync_status(k, f), Table(f)
  PROVE  Table(f)'
<1>1. /\ pc[k] = "sync" /\ f \in cur[k] /\ cur[k] = {f} /\ pc'[k] = "count"
      /\ UNCHANGED <<todo, cur, answer, processed, propagate, remaining_signals, seen>>
  <2>1. /\ pc[k] = "sync" /\ f \in cur[k] /\ pc'[k] = "count"
        /\ UNCHANGED <<todo, cur, answer, processed, propagate, remaining_signals, seen>>
    BY DEF sync_status, table_vars, Control, Types
  <2>2. cur[k] = {f} BY <2>1 DEF Control, Phase
  <2> QED BY <2>1, <2>2
<1>2. signaled'[f] <=> (signaled[f] \/ remaining_signals[f] = 0) BY DEF sync_status, Bools
<1>3. Written(f)' = Written(f) /\ Processed(f)' = Processed(f)
  <2>1. Written(f)' = Written(f) BY <1>1 DEF Written, Past, OthersStay
  <2> QED BY <1>1, <2>1 DEF Processed
<1>4. /\ Cardinality(Written(f)) \in Nat /\ Total[f] \in Nat /\ remaining_signals[f] \in Nat
  BY SignalsFinite DEF Control, Types
<1>5. Cardinality(Synced(f)') >= Total[f] => signaled'[f]
  <2>1. Synced(f)' \subseteq Written(f) BY <1>1, <1>3 DEF Synced, Written, Past
  <2>2. Written(f) \subseteq Cmd BY DEF Written, Past
  <2>3. IsFiniteSet(Written(f)) BY <2>2, ConstAssumption, FS_Subset
  <2>4. Cardinality(Synced(f)') <= Cardinality(Written(f)) /\ Cardinality(Synced(f)') \in Nat
    BY <2>1, <2>3, FS_Subset, FS_CardinalityType
  <2>5. remaining_signals[f] + Cardinality(Written(f)) <= Total[f] BY DEF Table
  <2>6. Cardinality(Synced(f)') >= Total[f] => remaining_signals[f] = 0 BY <1>4, <2>4, <2>5
  <2> QED BY <1>2, <2>6
<1>6. \A j \in Cmd : pc'[j] = "write" /\ f \in cur'[j] => pc[j] = "write" /\ f \in cur[j]
  BY <1>1 DEF OthersStay
<1> QED BY <1>1, <1>3, <1>5, <1>6 DEF Table

\* The steps at one fence.
LEMMA SignalTable ==
  ASSUME Control, Control', Bools, \A j \in Cmd : Told(j), NEW k \in Cmd, NEW f \in Fence, OthersStay(k),
         \A j \in Cmd : Told(j)', Counts(f), Counts(f)', signal_step(k, f), NEW g \in Fence, Table(g)
  PROVE  Table(g)'
<1>1. CASE g = f /\ signal_writes(k, f) BY <1>1, WriteTable
<1>2. CASE g = f /\ sync_status(k, f) BY <1>2, SyncTable
<1>3. CASE g # f \/ (~signal_writes(k, f) /\ ~sync_status(k, f))
  <2>1. Written(g)' = Written(g) /\ Synced(g)' = Synced(g)
    <3>1. CASE g # f BY <3>1, SignalSignals, SignalSetsKept
    <3>2. CASE g = f BY <1>3, <3>2, SignalSignals, SignalSetsKept
    <3> QED BY <3>1, <3>2
  <2>2. UNCHANGED <<processed, propagate>> /\ (signaled[g] => signaled'[g])
    <3> USE DEF status_vars, Bools
    <3>1. CASE signal_reads(k, f) BY <3>1 DEF signal_reads
    <3>2. CASE signal_writes(k, f) BY <3>2 DEF signal_writes
    <3>3. CASE sync_status(k, f) BY <3>3 DEF sync_status
    <3>4. CASE inc_signaled_signalers(k, f) BY <3>4 DEF inc_signaled_signalers
    <3>5. CASE waited_work_kick(k, f) BY <3>5 DEF waited_work_kick
    <3>6. CASE waiter_completed(k, f) BY <3>6 DEF waiter_completed
    <3>7. CASE waiter_completed_async(k, f) BY <3>7 DEF waiter_completed_async
    <3>8. CASE waited_work_async(k, f) BY <3>8 DEF waited_work_async
    <3> QED BY <3>1, <3>2, <3>3, <3>4, <3>5, <3>6, <3>7, <3>8 DEF signal_step
  <2>3. remaining_signals'[g] = remaining_signals[g]
    <3> USE <1>3 DEF table_vars, Control, Types
    <3>1. CASE signal_reads(k, f) BY <3>1 DEF signal_reads
    <3>2. CASE signal_writes(k, f)
      <4>1. PICK left : remaining_signals' = [remaining_signals EXCEPT ![f] = left]
        BY <3>2 DEF signal_writes
      <4> QED BY <3>2, <4>1
    <3>3. CASE sync_status(k, f) BY <3>3 DEF sync_status
    <3>4. CASE inc_signaled_signalers(k, f) BY <3>4 DEF inc_signaled_signalers
    <3>5. CASE waited_work_kick(k, f) BY <3>5 DEF waited_work_kick
    <3>6. CASE waiter_completed(k, f) BY <3>6 DEF waiter_completed
    <3>7. CASE waiter_completed_async(k, f) BY <3>7 DEF waiter_completed_async
    <3>8. CASE waited_work_async(k, f) BY <3>8 DEF waited_work_async
    <3> QED BY <3>1, <3>2, <3>3, <3>4, <3>5, <3>6, <3>7, <3>8 DEF signal_step
  <2>4. Processed(g)' = Processed(g) BY <2>2 DEF Processed
  <2>5. CASE g = f /\ signal_reads(k, f)
    <3>1. seen'[k] = remaining_signals[f] BY <2>5 DEF signal_reads, Control, Types
    <3>2. \A j \in Cmd \ {k} : pc'[j] = "write" /\ g \in cur'[j] =>
            pc[j] = "write" /\ g \in cur[j] /\ seen'[j] = seen[j]
      BY DEF OthersStay
    <3>3. remaining_signals[f] \in Nat BY DEF Control, Types
    <3> QED BY <2>1, <2>2, <2>3, <2>4, <2>5, <3>1, <3>2, <3>3 DEF Table
  <2>6. CASE ~(g = f /\ signal_reads(k, f))
    <3>1. ~(pc'[k] = "write" /\ g \in cur'[k])
      <4> USE <2>6 DEF Control, Types
      <4>1. CASE signal_reads(k, f) BY <4>1 DEF signal_reads
      <4>2. CASE signal_writes(k, f) BY <4>2 DEF signal_writes
      <4>3. CASE sync_status(k, f) BY <4>3 DEF sync_status
      <4>4. CASE inc_signaled_signalers(k, f) BY <4>4 DEF inc_signaled_signalers, next_out_fence
      <4>5. CASE waited_work_kick(k, f) BY <4>5 DEF waited_work_kick, next_out_fence
      <4>6. CASE waiter_completed(k, f) BY <4>6 DEF waiter_completed
      <4>7. CASE waiter_completed_async(k, f) BY <4>7 DEF waiter_completed_async
      <4>8. CASE waited_work_async(k, f) BY <4>8 DEF waited_work_async
      <4> QED BY <4>1, <4>2, <4>3, <4>4, <4>5, <4>6, <4>7, <4>8 DEF signal_step
    <3>2. \A j \in Cmd : pc'[j] = "write" /\ g \in cur'[j] =>
            pc[j] = "write" /\ g \in cur[j] /\ seen'[j] = seen[j]
      BY <3>1 DEF OthersStay
    <3> QED BY <2>1, <2>2, <2>3, <2>4, <3>2, ConstAssumption, TableKept DEF Control
  <2> QED BY <2>5, <2>6
<1> QED BY <1>1, <1>2, <1>3

\* The part of the invariant on signals is inductive.
LEMMA SignalsNext ==
  ASSUME Control, Control', Counting, Counting', Signals, Next
  PROVE  Signals'
<1>1. Bools' /\ \A k \in Cmd : Told(k)' BY BoolsNext, ToldNext DEF Signals
<1> SUFFICES ASSUME NEW g \in Fence PROVE Table(g)' BY <1>1 DEF Signals
<1>2. Bools /\ (\A k \in Cmd : Told(k)) /\ Table(g) /\ \A f \in Fence : Counts(f) /\ Counts(f)'
  BY DEF Signals, Counting
<1>3. ASSUME NEW f \in Fence, fence_step(f) PROVE Table(g)' BY <1>2, <1>3, FenceTable
<1>4. ASSUME NEW k \in Cmd, cmd_step(k) PROVE Table(g)'
  <2>1. OthersStay(k) BY <1>2, <1>4, CmdOthers DEF Control
  <2>2. CASE firmware_processes(k) BY <1>1, <1>2, <2>1, <2>2, FirmwareTable
  <2>3. CASE ~firmware_processes(k) BY <1>2, <1>4, <2>1, <2>3, CmdTable
  <2> QED BY <2>2, <2>3
<1>5. ASSUME NEW k \in Cmd, NEW f \in Fence, signal_step(k, f) PROVE Table(g)'
  <2>1. OthersStay(k) BY <1>2, <1>5, SignalOthers DEF Control
  <2> QED BY <1>1, <1>2, <1>5, <2>1, SignalTable
<1> QED BY <1>3, <1>4, <1>5 DEF Next

-----------------------------------------------------------------------------
(* The block wakelocks                                                      *)

\* The wakelocks of one IP, by the number recorded in each fence.
Tokens(b) == UNION {{f} \X (1 .. b[f]) : f \in Fence}

\* They are the pairs of a fence and a number up to its count.
LEMMA TokensAre ==
  ASSUME NEW b
  PROVE  \A p : p \in Tokens(b) <=> \E f \in Fence : \E i \in 1 .. b[f] : p = <<f, i>>
BY DEF Tokens

\* There are finitely many.
LEMMA TokensFinite ==
  ASSUME NEW b \in [Fence -> Nat]
  PROVE  IsFiniteSet(Tokens(b)) /\ Cardinality(Tokens(b)) \in Nat
<1> DEFINE T(f) == {f} \X (1 .. b[f])
           S == {T(f) : f \in Fence}
           s == [f \in Fence |-> T(f)]
<1>1. \A f \in Fence : IsFiniteSet(T(f))
  <2> SUFFICES ASSUME NEW f \in Fence PROVE IsFiniteSet(T(f)) OBVIOUS
  <2>1. b[f] \in Int OBVIOUS
  <2>2. IsFiniteSet(1 .. b[f]) BY <2>1, FS_Interval
  <2>3. IsFiniteSet({f}) BY FS_Singleton
  <2> QED BY <2>2, <2>3, FS_Product
<1> HIDE DEF T
<1>2. s \in Surjection(Fence, S) BY DEF Surjection
<1>3. IsFiniteSet(S) BY <1>2, ConstAssumption, FS_Surjection
<1>4. \A U \in S : IsFiniteSet(U) BY <1>1
<1>5. IsFiniteSet(UNION S) BY <1>3, <1>4, FS_UNION
<1>6. UNION S = Tokens(b) BY DEF Tokens, T
<1> QED BY <1>5, <1>6, FS_CardinalityType

\* Two disjoint finite sets.
LEMMA Disjoint ==
  ASSUME NEW S, NEW T, IsFiniteSet(S), IsFiniteSet(T), S \cap T = {}
  PROVE  Cardinality(S \cup T) = Cardinality(S) + Cardinality(T)
<1>1. Cardinality(S \cap T) = 0 BY FS_EmptySet
<1>2. Cardinality(S \cup T) = Cardinality(S) + Cardinality(T) - Cardinality(S \cap T) BY FS_Union
<1>3. Cardinality(S) \in Nat /\ Cardinality(T) \in Nat BY FS_CardinalityType
<1> QED BY <1>1, <1>2, <1>3

\* Pairs with one first component are as many as the second ones.
LEMMA PairsOf ==
  ASSUME NEW x, NEW S, IsFiniteSet(S)
  PROVE  /\ IsFiniteSet({x} \X S) /\ Cardinality({x} \X S) = Cardinality(S)
         /\ IsFiniteSet(S \X {x}) /\ Cardinality(S \X {x}) = Cardinality(S)
<1>1. IsFiniteSet({x}) /\ Cardinality({x}) = 1 BY FS_Singleton
<1>2. IsFiniteSet({x} \X S) /\ Cardinality({x} \X S) = Cardinality({x}) * Cardinality(S) BY <1>1, FS_Product
<1>3. IsFiniteSet(S \X {x}) /\ Cardinality(S \X {x}) = Cardinality(S) * Cardinality({x}) BY <1>1, FS_Product
<1>4. Cardinality(S) \in Nat BY FS_CardinalityType
<1> QED BY <1>1, <1>2, <1>3, <1>4

\* The count of one fence is lowered.
LEMMA TokensLess ==
  ASSUME NEW b \in [Fence -> Nat], NEW c \in [Fence -> Nat], NEW f \in Fence,
         \A g \in Fence \ {f} : c[g] = b[g], c[f] <= b[f]
  PROVE  Cardinality(Tokens(b)) = Cardinality(Tokens(c)) + (b[f] - c[f])
<1> DEFINE R == {f} \X (c[f] + 1 .. b[f])
<1>1. b[f] \in Nat /\ c[f] \in Nat OBVIOUS
<1>2. IsFiniteSet(c[f] + 1 .. b[f]) /\ Cardinality(c[f] + 1 .. b[f]) = b[f] - c[f]
  <2>1. /\ IsFiniteSet(c[f] + 1 .. b[f])
        /\ Cardinality(c[f] + 1 .. b[f]) = IF c[f] + 1 > b[f] THEN 0 ELSE b[f] - (c[f] + 1) + 1
    <3> DEFINE a == c[f] + 1
    <3>1. a \in Int /\ b[f] \in Int BY <1>1
    <3> HIDE DEF a
    <3>2. IsFiniteSet(a .. b[f]) /\ Cardinality(a .. b[f]) = IF a > b[f] THEN 0 ELSE b[f] - a + 1
      BY <3>1, FS_Interval
    <3> QED BY <3>2 DEF a
  <2> QED BY <1>1, <2>1
<1>3. IsFiniteSet(R) /\ Cardinality(R) = b[f] - c[f] BY <1>2, PairsOf
<1>4. IsFiniteSet(Tokens(c)) BY TokensFinite
<1>5. Tokens(c) \cap R = {}
  <2> SUFFICES ASSUME NEW p \in Tokens(c), p \in R PROVE FALSE OBVIOUS
  <2>1. PICK g \in Fence, i \in Int : i \in 1 .. c[g] /\ p = <<g, i>> BY TokensAre
  <2>2. PICK j \in c[f] + 1 .. b[f] : p = <<f, j>> OBVIOUS
  <2> QED BY <1>1, <2>1, <2>2
<1>6. Tokens(b) = Tokens(c) \cup R
  <2>1. ASSUME NEW p \in Tokens(b) PROVE p \in Tokens(c) \cup R
    <3>1. PICK g \in Fence, i \in Int : i \in 1 .. b[g] /\ p = <<g, i>> BY TokensAre
    <3>2. CASE i \in 1 .. c[g] BY <3>1, <3>2, TokensAre
    <3>3. CASE i \notin 1 .. c[g]
      <4>1. g = f BY <3>1, <3>3
      <4>2. i \in c[f] + 1 .. b[f] BY <1>1, <3>1, <3>3, <4>1
      <4> QED BY <3>1, <4>1, <4>2
    <3> QED BY <3>2, <3>3
  <2>2. ASSUME NEW p \in Tokens(c) PROVE p \in Tokens(b)
    <3>1. PICK g \in Fence, i \in Int : i \in 1 .. c[g] /\ p = <<g, i>> BY TokensAre
    <3>2. c[g] <= b[g] /\ c[g] \in Nat /\ b[g] \in Nat OBVIOUS
    <3>3. i \in 1 .. b[g] BY <3>1, <3>2
    <3> QED BY <3>1, <3>3, TokensAre
  <2>3. ASSUME NEW p \in R PROVE p \in Tokens(b)
    <3>1. PICK j \in c[f] + 1 .. b[f] : p = <<f, j>> OBVIOUS
    <3>2. j \in 1 .. b[f] BY <1>1, <3>1
    <3> QED BY <3>1, <3>2, TokensAre
  <2> QED BY <2>1, <2>2, <2>3
<1> HIDE DEF R
<1>7. Cardinality(Tokens(c) \cup R) = Cardinality(Tokens(c)) + Cardinality(R)
  BY <1>3, <1>4, <1>5, Disjoint
<1> QED BY <1>3, <1>6, <1>7

\* The counts of the fences in D are raised by one.
LEMMA TokensMore ==
  ASSUME NEW b \in [Fence -> Nat], NEW c \in [Fence -> Nat], NEW D \in SUBSET Fence,
         \A g \in D : c[g] = b[g] + 1, \A g \in Fence \ D : c[g] = b[g]
  PROVE  Cardinality(Tokens(c)) = Cardinality(Tokens(b)) + Cardinality(D)
<1> DEFINE A == {<<g, b[g] + 1>> : g \in D}
           h == [g \in D |-> <<g, b[g] + 1>>]
<1>1. IsFiniteSet(D) BY ConstAssumption, FS_Subset
<1>2. ExistsBijection(D, A)
  <2>1. h \in Bijection(D, A) BY DEF Bijection, Injection, Surjection, IsInjective
  <2> QED BY <2>1 DEF ExistsBijection
<1>3. IsFiniteSet(A) /\ Cardinality(A) = Cardinality(D) BY <1>1, <1>2, FS_Bijection
<1>4. IsFiniteSet(Tokens(b)) BY TokensFinite
<1>5. Tokens(b) \cap A = {}
  <2> SUFFICES ASSUME NEW p \in Tokens(b), p \in A PROVE FALSE OBVIOUS
  <2>1. PICK g \in Fence, i \in Int : i \in 1 .. b[g] /\ p = <<g, i>> BY TokensAre
  <2>2. PICK e \in D : p = <<e, b[e] + 1>> OBVIOUS
  <2>3. b[g] \in Nat OBVIOUS
  <2> QED BY <2>1, <2>2, <2>3
<1>6. Tokens(c) = Tokens(b) \cup A
  <2>1. ASSUME NEW p \in Tokens(c) PROVE p \in Tokens(b) \cup A
    <3>1. PICK g \in Fence, i \in Int : i \in 1 .. c[g] /\ p = <<g, i>> BY TokensAre
    <3>2. b[g] \in Nat /\ c[g] \in Nat OBVIOUS
    <3>3. CASE i \in 1 .. b[g] BY <3>1, <3>3, TokensAre
    <3>4. CASE i \notin 1 .. b[g]
      <4>1. g \in D /\ i = b[g] + 1 BY <3>1, <3>2, <3>4
      <4> QED BY <3>1, <4>1
    <3> QED BY <3>3, <3>4
  <2>2. ASSUME NEW p \in Tokens(b) PROVE p \in Tokens(c)
    <3>1. PICK g \in Fence, i \in Int : i \in 1 .. b[g] /\ p = <<g, i>> BY TokensAre
    <3>2. b[g] \in Nat /\ c[g] \in Nat /\ b[g] <= c[g] OBVIOUS
    <3>3. i \in 1 .. c[g] BY <3>1, <3>2
    <3> QED BY <3>1, <3>3, TokensAre
  <2>3. ASSUME NEW p \in A PROVE p \in Tokens(c)
    <3>1. PICK g \in D : p = <<g, b[g] + 1>> OBVIOUS
    <3>2. g \in Fence /\ b[g] \in Nat /\ c[g] = b[g] + 1 OBVIOUS
    <3>3. b[g] + 1 \in 1 .. c[g] BY <3>2
    <3> QED BY <3>1, <3>2, <3>3, TokensAre
  <2> QED BY <2>1, <2>2, <2>3
<1> HIDE DEF A
<1>7. Cardinality(Tokens(b) \cup A) = Cardinality(Tokens(b)) + Cardinality(A)
  BY <1>3, <1>4, <1>5, Disjoint
<1> QED BY <1>3, <1>6, <1>7

\* The fences for which k has acquired a wakelock of ip and not yet recorded it.
Mine(k, ip) ==
  {f \in Fence : \/ pc[k] \in {"in", "both"} /\ IpOf[k] = ip /\ f \in In[k]
                 \/ <<f, ip>> \in wakelock_held[k]}

\* Their number.
Handed(k, ip) ==
  held_for(wakelock_held[k], ip)
    + (IF pc[k] \in {"in", "both"} /\ IpOf[k] = ip THEN Cardinality(In[k]) ELSE 0)

\* The pairs of a submission count the fences they name.
LEMMA HeldForAre ==
  ASSUME NEW h \in SUBSET (Fence \X Ip), NEW ip \in Ip
  PROVE  LET E == {f \in Fence : <<f, ip>> \in h}
         IN  IsFiniteSet(E) /\ Cardinality(E) = held_for(h, ip)
<1> DEFINE E == {f \in Fence : <<f, ip>> \in h}
<1>1. IsFiniteSet(E) BY ConstAssumption, FS_Subset
<1>2. {p \in h : p[2] = ip} = E \X {ip}
  <2>1. ASSUME NEW p \in h, p[2] = ip PROVE p \in E \X {ip}
    <3>1. p \in Fence \X Ip BY <2>1
    <3>2. p = <<p[1], ip>> /\ p[1] \in Fence BY <2>1, <3>1
    <3> QED BY <2>1, <3>2
  <2>2. ASSUME NEW p \in E \X {ip} PROVE p \in h /\ p[2] = ip
    <3>1. PICK f \in E : p = <<f, ip>> OBVIOUS
    <3> QED BY <3>1
  <2> QED BY <2>1, <2>2
<1>3. Cardinality(E \X {ip}) = Cardinality(E)
  <2> HIDE DEF E
  <2> QED BY <1>1, PairsOf
<1> QED BY <1>1, <1>2, <1>3 DEF held_for

\* Two disjoint reasons to hold a wakelock.
LEMMA HandCard ==
  ASSUME NEW I \in SUBSET Fence, NEW h \in SUBSET (Fence \X Ip), NEW ip \in Ip,
         \A f \in I : <<f, ip>> \notin h, NEW M,
         M = {f \in Fence : f \in I \/ <<f, ip>> \in h}
  PROVE  /\ IsFiniteSet(M) /\ held_for(h, ip) \in Nat /\ Cardinality(I) \in Nat
         /\ Cardinality(M) = held_for(h, ip) + Cardinality(I)
<1> DEFINE E == {f \in Fence : <<f, ip>> \in h}
<1>1. IsFiniteSet(E) /\ Cardinality(E) = held_for(h, ip) BY HeldForAre
<1>2. IsFiniteSet(I) BY ConstAssumption, FS_Subset
<1>3. M = I \cup E /\ I \cap E = {} OBVIOUS
<1> HIDE DEF E
<1>4. Cardinality(M) = Cardinality(I) + Cardinality(E) /\ IsFiniteSet(M)
  <2>1. Cardinality(I \cup E) = Cardinality(I) + Cardinality(E) BY <1>1, <1>2, <1>3, Disjoint
  <2>2. IsFiniteSet(I \cup E) BY <1>1, <1>2, FS_Union
  <2> QED BY <1>3, <2>1, <2>2
<1>5. Cardinality(I) \in Nat /\ Cardinality(E) \in Nat BY <1>1, <1>2, FS_CardinalityType
<1> QED BY <1>1, <1>4, <1>5

\* A command at x holds one wakelock for each of these fences.
LEMMA MineCard ==
  ASSUME NEW k \in Cmd, NEW ip \in Ip, NEW x, NEW h \in SUBSET (Out[k] \X Ip), NEW M,
         M = {f \in Fence : (x \in {"in", "both"} /\ IpOf[k] = ip /\ f \in In[k]) \/ <<f, ip>> \in h}
  PROVE  LET n == held_for(h, ip)
                    + (IF x \in {"in", "both"} /\ IpOf[k] = ip THEN Cardinality(In[k]) ELSE 0)
         IN  IsFiniteSet(M) /\ Cardinality(M) = n /\ n \in Nat
<1> DEFINE I == IF x \in {"in", "both"} /\ IpOf[k] = ip THEN In[k] ELSE {}
<1>1. I \in SUBSET Fence /\ h \in SUBSET (Fence \X Ip)
  BY Constants
<1>2. Cardinality(I) = IF x \in {"in", "both"} /\ IpOf[k] = ip THEN Cardinality(In[k]) ELSE 0
  BY FS_EmptySet
<1>3. \A f \in I : <<f, ip>> \notin h
  <2> SUFFICES ASSUME NEW f \in I, <<f, ip>> \in h PROVE FALSE OBVIOUS
  <2>1. f \in In[k] OBVIOUS
  <2>2. f \in Out[k] OBVIOUS
  <2> QED BY <2>1, <2>2, ConstAssumption
<1>4. M = {f \in Fence : f \in I \/ <<f, ip>> \in h} OBVIOUS
<1> HIDE DEF I
<1>5. /\ IsFiniteSet(M) /\ held_for(h, ip) \in Nat /\ Cardinality(I) \in Nat
      /\ Cardinality(M) = held_for(h, ip) + Cardinality(I)
  BY ONLY <1>1, <1>3, <1>4, ip \in Ip, HandCard
<1> QED BY <1>2, <1>5

\* The wakelocks not yet recorded change by those of the command that makes the step.
LEMMA HandStep ==
  ASSUME Control, Control', NEW k \in Cmd, OthersStay(k), NEW ip \in Ip
  PROVE  /\ Cardinality(InHand(ip)) \in Nat /\ Cardinality(InHand(ip)') \in Nat
         /\ Handed(k, ip) \in Nat /\ Handed(k, ip)' \in Nat
         /\ Cardinality(InHand(ip)') + Handed(k, ip) = Cardinality(InHand(ip)) + Handed(k, ip)'
<1> DEFINE R == {p \in InHand(ip) : p[1] # k}
           A == {k} \X Mine(k, ip)
           B == {k} \X Mine(k, ip)'
<1>1. InHand(ip) = R \cup A /\ R \cap A = {}
  <2>1. ASSUME NEW p \in InHand(ip), p[1] = k PROVE p \in A
    <3>1. p = <<k, p[2]>> /\ p[2] \in Fence BY <2>1 DEF InHand
    <3> QED BY <2>1, <3>1 DEF InHand, Mine
  <2>2. ASSUME NEW p \in A PROVE p \in InHand(ip) /\ p[1] = k
    <3>1. PICK f \in Mine(k, ip) : p = <<k, f>> OBVIOUS
    <3>2. f \in Fence BY <3>1 DEF Mine
    <3> QED BY <3>1, <3>2 DEF InHand, Mine
  <2> QED BY <2>1, <2>2
<1>2. InHand(ip)' = R \cup B /\ R \cap B = {}
  <2>1. ASSUME NEW p \in InHand(ip)', p[1] = k PROVE p \in B
    <3>1. p = <<k, p[2]>> /\ p[2] \in Fence BY <2>1 DEF InHand
    <3> QED BY <2>1, <3>1 DEF InHand, Mine
  <2>2. ASSUME NEW p \in B PROVE p \in InHand(ip)' /\ p[1] = k
    <3>1. PICK f \in Mine(k, ip)' : p = <<k, f>> OBVIOUS
    <3>2. f \in Fence BY <3>1 DEF Mine
    <3> QED BY <3>1, <3>2 DEF InHand, Mine
  <2>3. \A p \in Cmd \X Fence : p[1] # k => (p \in InHand(ip)' <=> p \in InHand(ip))
    BY DEF InHand, OthersStay
  <2>4. InHand(ip) \subseteq Cmd \X Fence /\ InHand(ip)' \subseteq Cmd \X Fence BY DEF InHand
  <2> QED BY <2>1, <2>2, <2>3, <2>4
<1>3. IsFiniteSet(R)
  <2>1. R \subseteq Cmd \X Fence BY DEF InHand
  <2> QED BY <2>1, ConstAssumption, FS_Product, FS_Subset
<1>4. /\ IsFiniteSet(A) /\ Cardinality(A) = Handed(k, ip) /\ Handed(k, ip) \in Nat
      /\ IsFiniteSet(B) /\ Cardinality(B) = Handed(k, ip)' /\ Handed(k, ip)' \in Nat
  <2>1. IsFiniteSet(Mine(k, ip)) /\ Cardinality(Mine(k, ip)) = Handed(k, ip) /\ Handed(k, ip) \in Nat
    <3>1. wakelock_held[k] \in SUBSET (Out[k] \X Ip) BY DEF Control, Phase
    <3> QED BY <3>1, MineCard DEF Mine, Handed
  <2>2. IsFiniteSet(Mine(k, ip)') /\ Cardinality(Mine(k, ip)') = Handed(k, ip)' /\ Handed(k, ip)' \in Nat
    <3>1. wakelock_held'[k] \in SUBSET (Out[k] \X Ip) BY DEF Control, Phase
    <3> QED BY <3>1, MineCard DEF Mine, Handed
  <2> QED BY <2>1, <2>2, PairsOf
<1> HIDE DEF R, A, B
<1>5. Cardinality(InHand(ip)) = Cardinality(R) + Cardinality(A) BY <1>1, <1>3, <1>4, Disjoint
<1>6. Cardinality(InHand(ip)') = Cardinality(R) + Cardinality(B) BY <1>2, <1>3, <1>4, Disjoint
<1>7. Cardinality(R) \in Nat /\ Cardinality(A) \in Nat /\ Cardinality(B) \in Nat
  BY <1>3, <1>4, FS_CardinalityType
<1>8. Cardinality(InHand(ip)) \in Nat /\ Cardinality(InHand(ip)') \in Nat BY <1>5, <1>6, <1>7
<1> QED BY <1>4, <1>5, <1>6, <1>7, <1>8

\* The counts that the wakelocks of a fence follow are natural numbers.
LEMMA Naturals_ ==
  ASSUME Control, Counting, NEW f \in Fence, NEW ip \in Ip
  PROVE  /\ outstanding_waiters[f][ip] \in Nat /\ block_wakelock[f][ip] \in Int
         /\ submitted_signalers[f] \in Int /\ signaled_signalers[f] \in Int /\ Total[f] \in Int
         /\ outstanding_signalers(f) \in Int /\ unsubmitted_signalers(f) \in Int
         /\ state[f] # "freed" => outstanding_signalers(f) >= 0
<1>1. outstanding_waiters[f][ip] \in Nat BY CountedFinite DEF Counting, Counts
<1>2. /\ submitted_signalers[f] \in Int /\ signaled_signalers[f] \in Int /\ Total[f] \in Int
      /\ block_wakelock[f][ip] \in Int
  BY ConstAssumption DEF Control, Types
<1>3. state[f] # "freed" => outstanding_signalers(f) >= 0
  <2>1. Cardinality(Pending(f)) \in Nat BY CountedFinite
  <2> QED BY <1>2, <2>1 DEF Counting, Counts, outstanding_signalers
<1> QED BY <1>1, <1>2, <1>3 DEF outstanding_signalers, unsubmitted_signalers

\* Once no signaler is outstanding a fence keeps a wakelock for each waiter.
LEMMA ReleaseLocks ==
  ASSUME Control, Counting, NEW f \in Fence, NEW ip \in Ip, Locks(f, ip), release_pended(f)
  PROVE  /\ block_wakelock'[f][ip] <= block_wakelock[f][ip]
         /\ block_wakelock'[f][ip] >= outstanding_waiters[f][ip]
         /\ outstanding_signalers(f) > 0 => block_wakelock'[f][ip] = block_wakelock[f][ip]
         /\ outstanding_signalers(f) = 0 => block_wakelock'[f][ip] = outstanding_waiters[f][ip]
         /\ block'[ip] = block[ip] - (block_wakelock[f][ip] - block_wakelock'[f][ip])
         /\ \A g \in Fence \ {f} : block_wakelock'[g] = block_wakelock[g]
<1>1. block_wakelock'[f] = locks_kept(f) /\ \A g \in Fence \ {f} : block_wakelock'[g] = block_wakelock[g]
  BY DEF release_pended, Control, Types
<1>2. locks_kept(f)[ip] = IF /\ outstanding_signalers(f) = 0
                            /\ block_wakelock[f][ip] > outstanding_waiters[f][ip]
                         THEN outstanding_waiters[f][ip] ELSE block_wakelock[f][ip]
  BY DEF locks_kept
<1>3. block'[ip] = block[ip] - (block_wakelock[f][ip] - locks_kept(f)[ip]) BY DEF release_pended
<1> HIDE DEF Control, Counting
<1> QED BY <1>1, <1>2, <1>3, Naturals_ DEF Locks

\* What the wakelocks of a fence depend on stays.
LEMMA LocksKept ==
  ASSUME NEW g \in Fence, NEW ip \in Ip, Locks(g, ip),
         block_wakelock'[g] = block_wakelock[g], outstanding_waiters'[g] = outstanding_waiters[g],
         submitted_signalers'[g] = submitted_signalers[g],
         signaled_signalers'[g] = signaled_signalers[g], params_waiters'[g] = params_waiters[g],
         state'[g] = "freed" => state[g] = "freed"
  PROVE  Locks(g, ip)'
BY DEF Locks, outstanding_signalers

\* The wakelocks of a fence: its own steps.
LEMMA FenceLocks ==
  ASSUME Control, Control', Counting, Counting', NEW f \in Fence, fence_step(f),
         NEW g \in Fence, NEW ip \in Ip, Locks(g, ip)
  PROVE  Locks(g, ip)'
<1>1. CASE waited_work_func(f)
  <2>1. release_pended(f) /\ UNCHANGED <<state, submitted_signalers, signaled_signalers, outstanding_waiters,
                                         params_waiters>>
    BY <1>1 DEF waited_work_func
  <2>2. CASE g = f
    <3>1. /\ block_wakelock'[f][ip] <= block_wakelock[f][ip]
          /\ block_wakelock'[f][ip] >= outstanding_waiters[f][ip]
          /\ outstanding_signalers(f) > 0 => block_wakelock'[f][ip] = block_wakelock[f][ip]
      BY <2>1, <2>2, ReleaseLocks
    <3>2. block_wakelock'[f][ip] \in Int BY DEF Control, Types
    <3> QED BY <2>1, <2>2, <3>1, <3>2, Naturals_ DEF Locks, outstanding_signalers
  <2>3. CASE g # f
    <3>1. block_wakelock'[g] = block_wakelock[g] BY <2>1, <2>3 DEF release_pended, Control, Types
    <3> QED BY <2>1, <3>1, LocksKept
  <2> QED BY <2>2, <2>3
<1>2. CASE iif_fence_do_destroy(f) /\ g = f
  <2>1. block_wakelock'[f][ip] = 0 /\ outstanding_waiters' = outstanding_waiters
        /\ state'[f] = "freed"
    BY <1>2 DEF iif_fence_do_destroy, Control, Types
  <2>2. \A k \in Cmd : ~(pc[k] \in Holding /\ f \in In[k] \cup Out[k]) BY <1>2 DEF iif_fence_do_destroy, refs
  <2>3. Waiting(f, ip) = {} BY <2>2 DEF Waiting, Awaits, Signalling, Holding, Sent
  <2>4. outstanding_waiters[f][ip] = 0 BY <2>3, FS_EmptySet DEF Counting, Counts
  <2>5. (outstanding_signalers(f))' <= 0
    <3>1. /\ signaled_signalers'[f] = Total[f] /\ submitted_signalers'[f] <= Total[f]
          /\ submitted_signalers'[f] \in Int /\ Total[f] \in Int
      BY <2>1, ConstAssumption DEF Counting, Counts, Control, Types
    <3> QED BY <3>1 DEF outstanding_signalers
  <2>6. (outstanding_signalers(f))' \in Int BY DEF Control, Types, outstanding_signalers
  <2>7. ~((outstanding_signalers(f))' > 0) BY <2>5, <2>6
  <2> QED BY <1>2, <2>1, <2>4, <2>7 DEF Locks
<1>3. CASE ~waited_work_func(f) /\ ~(iif_fence_do_destroy(f) /\ g = f)
  <2>1. UNCHANGED <<submitted_signalers, outstanding_waiters, params_waiters>>
    <3> USE DEF fence_vars
    <3>1. CASE gcip_fence_create_iif(f) BY <3>1 DEF gcip_fence_create_iif
    <3>2. CASE iif_sync_file_release(f) BY <3>2 DEF iif_sync_file_release
    <3>3. CASE iif_fence_on_sync_file_release(f) BY <3>3 DEF iif_fence_on_sync_file_release
    <3>4. CASE dma_iif_fence_bridge(f) BY <3>4 DEF dma_iif_fence_bridge
    <3>5. CASE dma_iif_fence_release_work(f) BY <3>5 DEF dma_iif_fence_release_work
    <3>6. CASE iif_fence_set_flags(f) BY <3>6 DEF iif_fence_set_flags
    <3>7. CASE signaled_work_func(f) BY <3>7 DEF signaled_work_func
    <3>8. CASE waited_work_func(f) BY <3>8 DEF waited_work_func
    <3>9. CASE iif_fence_do_destroy(f) BY <3>9 DEF iif_fence_do_destroy
    <3> QED BY <3>1, <3>2, <3>3, <3>4, <3>5, <3>6, <3>7, <3>8, <3>9 DEF fence_step
  <2>2. /\ block_wakelock'[g] = block_wakelock[g] /\ signaled_signalers'[g] = signaled_signalers[g]
        /\ state'[g] = "freed" => state[g] = "freed"
    <3> USE <1>3 DEF fence_vars, Control, Types, retire_if_possible
    <3>1. CASE gcip_fence_create_iif(f) BY <3>1 DEF gcip_fence_create_iif
    <3>2. CASE iif_sync_file_release(f) BY <3>2 DEF iif_sync_file_release
    <3>3. CASE iif_fence_on_sync_file_release(f) BY <3>3 DEF iif_fence_on_sync_file_release
    <3>4. CASE dma_iif_fence_bridge(f) BY <3>4 DEF dma_iif_fence_bridge
    <3>5. CASE dma_iif_fence_release_work(f) BY <3>5 DEF dma_iif_fence_release_work
    <3>6. CASE iif_fence_set_flags(f) BY <3>6 DEF iif_fence_set_flags
    <3>7. CASE signaled_work_func(f) BY <3>7 DEF signaled_work_func
    <3>8. CASE waited_work_func(f) BY <3>8 DEF waited_work_func
    <3>9. CASE iif_fence_do_destroy(f) BY <3>9 DEF iif_fence_do_destroy
    <3> QED BY <3>1, <3>2, <3>3, <3>4, <3>5, <3>6, <3>7, <3>8, <3>9 DEF fence_step
  <2> QED BY <2>1, <2>2, LocksKept
<1> QED BY <1>1, <1>2, <1>3

\* A submission records the wakelocks it has: those of the waiters of its out-fences too.
LEMMA SubmitLocks ==
  ASSUME Control, Control', Counting, NEW k \in Cmd, submit_signaler_and_waiter(k),
         NEW g \in Fence, NEW ip \in Ip, Locks(g, ip), Covered(k, g)
  PROVE  Locks(g, ip)'
<1> DEFINE a == IF g \in In[k] /\ ip = IpOf[k] THEN 1 ELSE 0
           b == IF <<g, ip>> \in wakelock_held[k] THEN 1 ELSE 0
<1>1. /\ block_wakelock'[g][ip] = block_wakelock[g][ip] + a + b
      /\ outstanding_waiters'[g][ip] = outstanding_waiters[g][ip] + a
      /\ submitted_signalers'[g] = submitted_signalers[g] + (IF g \in Out[k] THEN 1 ELSE 0)
      /\ params_waiters'[g] = IF g \in In[k] THEN params_waiters[g] \cup {IpOf[k]} ELSE params_waiters[g]
      /\ UNCHANGED <<state, signaled_signalers>>
  BY DEF submit_signaler_and_waiter, Control, Types
<1>2. a \in {0, 1} /\ b \in {0, 1} OBVIOUS
<1>3. <<g, ip>> \in wakelock_held[k] => g \in Out[k] BY DEF Control, Phase
<1>4. g \in In[k] => g \notin Out[k] BY ConstAssumption
<1>5. pc[k] = "both" BY DEF submit_signaler_and_waiter
<1>6. g \in In[k] \cup Out[k] => state[g] # "freed" BY <1>5 DEF Counting, Life, live, Holding
<1>7. g \in Out[k] => \A i \in params_waiters[g] : <<g, i>> \in wakelock_held[k]
  <2>1. g \in Out[k] => unsubmitted_signalers(g) > 0
    BY DEF submit_signaler_and_waiter, are_signaler_submittable
  <2> QED BY <1>5, <2>1, Naturals_ DEF Covered
<1>8. (outstanding_signalers(g))' = outstanding_signalers(g) + (IF g \in Out[k] THEN 1 ELSE 0)
  BY <1>1, Naturals_ DEF outstanding_signalers
<1>9. block_wakelock'[g][ip] >= outstanding_waiters'[g][ip]
  BY <1>1, <1>2, Naturals_ DEF Locks
<1>10. ASSUME (outstanding_signalers(g))' > 0, ip \in params_waiters'[g] PROVE block_wakelock'[g][ip] > 0
  <2>1. block_wakelock[g][ip] \in Nat BY Naturals_ DEF Locks
  <2>2. CASE g \in Out[k]
    <3>1. b = 1 BY <1>1, <1>4, <1>7, <1>10, <2>2
    <3> QED BY <1>1, <1>2, <2>1, <3>1
  <2>3. CASE g \notin Out[k] /\ a = 1 BY <1>1, <1>2, <2>1, <2>3
  <2>4. CASE g \notin Out[k] /\ a = 0
    <3>1. outstanding_signalers(g) > 0 BY <1>8, <1>10, <2>4, Naturals_
    <3>2. ip \in params_waiters[g] BY <1>1, <1>10, <2>4
    <3>3. block_wakelock[g][ip] > 0 BY <3>1, <3>2 DEF Locks
    <3> QED BY <1>1, <1>2, <2>1, <3>3
  <2> QED BY <1>2, <2>2, <2>3, <2>4
<1>11. state'[g] = "freed" => block_wakelock'[g][ip] = 0
  BY <1>1, <1>3, <1>6, Naturals_ DEF Locks
<1> QED BY <1>9, <1>10, <1>11 DEF Locks

\* The other steps of a command at large leave the fences as they are.
LEMMA CmdFences ==
  ASSUME NEW k \in Cmd, cmd_step(k), ~submit_signaler_and_waiter(k)
  PROVE  UNCHANGED fence_vars
<1>1. CASE acquire_block_wakelock(k) BY <1>1 DEF acquire_block_wakelock
<1>2. CASE acquire_block_wakelock_of_waiters(k) BY <1>2 DEF acquire_block_wakelock_of_waiters
<1>3. CASE submit_refused(k) BY <1>3 DEF submit_refused
<1>4. CASE firmware_processes(k) BY <1>4 DEF firmware_processes
<1>5. CASE response_arrived(k) BY <1>5 DEF response_arrived
<1>6. CASE response_error(k) BY <1>6 DEF response_error
<1>7. CASE clear_responses(k) BY <1>7 DEF clear_responses
<1>8. CASE put_fences(k) BY <1>8 DEF put_fences
<1> QED BY <1>1, <1>2, <1>3, <1>4, <1>5, <1>6, <1>7, <1>8 DEF cmd_step

\* The wakelocks of a fence: the steps of a command at large.
LEMMA CmdLocks ==
  ASSUME Control, Control', Counting, NEW k \in Cmd, cmd_step(k),
         NEW g \in Fence, NEW ip \in Ip, Locks(g, ip), Covered(k, g)
  PROVE  Locks(g, ip)'
<1>1. CASE submit_signaler_and_waiter(k) BY <1>1, SubmitLocks
<1>2. CASE ~submit_signaler_and_waiter(k)
  <2>1. UNCHANGED fence_vars BY <1>2, CmdFences
  <2> QED BY <2>1, LocksKept DEF fence_vars
<1> QED BY <1>1, <1>2

\* A step at one fence leaves the others as they are.
LEMMA SignalFences ==
  ASSUME Types, NEW k \in Cmd, NEW f \in Fence, signal_step(k, f), NEW g \in Fence, g # f
  PROVE  /\ block_wakelock'[g] = block_wakelock[g] /\ outstanding_waiters'[g] = outstanding_waiters[g]
         /\ submitted_signalers'[g] = submitted_signalers[g]
         /\ signaled_signalers'[g] = signaled_signalers[g] /\ params_waiters'[g] = params_waiters[g]
         /\ state'[g] = state[g]
<1> USE DEF Types, fence_vars, release_pended, remove_waiter
<1>1. CASE signal_reads(k, f) BY <1>1 DEF signal_reads
<1>2. CASE signal_writes(k, f) BY <1>2 DEF signal_writes
<1>3. CASE sync_status(k, f) BY <1>3 DEF sync_status
<1>4. CASE inc_signaled_signalers(k, f) BY <1>4 DEF inc_signaled_signalers
<1>5. CASE waited_work_kick(k, f) BY <1>5 DEF waited_work_kick
<1>6. CASE waiter_completed(k, f) BY <1>6 DEF waiter_completed
<1>7. CASE waiter_completed_async(k, f) BY <1>7 DEF waiter_completed_async
<1>8. CASE waited_work_async(k, f) BY <1>8 DEF waited_work_async
<1> QED BY <1>1, <1>2, <1>3, <1>4, <1>5, <1>6, <1>7, <1>8 DEF signal_step

\* The wakelocks of a fence: the steps of a command at it.
LEMMA SignalLocks ==
  ASSUME Control, Control', Counting, NEW k \in Cmd, NEW f \in Fence, signal_step(k, f),
         NEW g \in Fence, NEW ip \in Ip, Locks(g, ip)
  PROVE  Locks(g, ip)'
<1>1. CASE g # f
  <2>1. Types BY DEF Control
  <2> QED BY <1>1, <2>1, SignalFences, LocksKept
<1>2. CASE g = f
  <2>1. CASE inc_signaled_signalers(k, f)
    <3>1. /\ UNCHANGED <<submitted_signalers, outstanding_waiters, block_wakelock, params_waiters>>
          /\ signaled_signalers'[f] = signaled_signalers[f] + 1
          /\ state'[f] = "freed" => state[f] = "freed"
      BY <2>1 DEF inc_signaled_signalers, count_signaler, retire_if_possible, Control, Types
    <3>2. (outstanding_signalers(f))' = outstanding_signalers(f) - 1
      BY <3>1, Naturals_ DEF outstanding_signalers
    <3>3. (outstanding_signalers(f))' > 0 => outstanding_signalers(f) > 0 BY <3>2, Naturals_
    <3> QED BY <1>2, <3>1, <3>3 DEF Locks
  <2>2. CASE waited_work_kick(k, f)
    <3>1. UNCHANGED <<state, submitted_signalers, signaled_signalers, outstanding_waiters, params_waiters>>
      BY <2>2 DEF waited_work_kick
    <3>2. CASE release_pended(f)
      <4>1. /\ block_wakelock'[f][ip] <= block_wakelock[f][ip]
            /\ block_wakelock'[f][ip] >= outstanding_waiters[f][ip]
            /\ outstanding_signalers(f) > 0 => block_wakelock'[f][ip] = block_wakelock[f][ip]
        BY <1>2, <3>2, ReleaseLocks
      <4>2. block_wakelock'[f][ip] \in Int BY DEF Control, Types
      <4> QED BY <1>2, <3>1, <4>1, <4>2, Naturals_ DEF Locks, outstanding_signalers
    <3>3. CASE UNCHANGED block_wakelock BY <1>2, <3>1, <3>3, LocksKept
    <3> QED BY <2>2, <3>2, <3>3 DEF waited_work_kick
  <2>3. CASE waiter_completed(k, f) \/ waiter_completed_async(k, f)
    <3>1. /\ UNCHANGED <<submitted_signalers, signaled_signalers, params_waiters>>
          /\ pc[k] = "waited" /\ f \in todo[k] /\ IpOf[k] \in Ip
          /\ remove_waiter(k, f)
      BY <2>3, Constants DEF waiter_completed, waiter_completed_async
    <3>2. live(f)
      <4>1. f \in In[k] BY <3>1 DEF Control, Phase
      <4> QED BY <3>1, <4>1 DEF Counting, Life, Holding, Sent
    <3>3. state'[f] # "freed"
      BY <3>1, <3>2 DEF remove_waiter, retire_if_possible, live, Control, Types
    <3>4. outstanding_waiters'[f][ip] = IF ip = IpOf[k] THEN outstanding_waiters[f][ip] - 1
                                       ELSE outstanding_waiters[f][ip]
      BY <3>1 DEF remove_waiter, Control, Types
    <3>5. \/ block_wakelock'[f][ip] = block_wakelock[f][ip]
          \/ /\ outstanding_signalers(f) = 0
             /\ block_wakelock'[f][ip] = IF ip = IpOf[k] THEN block_wakelock[f][ip] - 1
                                         ELSE block_wakelock[f][ip]
      BY <2>3, <3>1 DEF waiter_completed, waiter_completed_async, Control, Types
    <3>6. (outstanding_signalers(f))' = outstanding_signalers(f) BY <3>1 DEF outstanding_signalers
    <3>7. block_wakelock'[f][ip] >= outstanding_waiters'[f][ip]
      BY <1>2, <3>4, <3>5, Naturals_ DEF Locks
    <3>8. outstanding_signalers(f) > 0 => block_wakelock'[f][ip] = block_wakelock[f][ip]
      BY <3>5
    <3> QED BY <1>2, <3>1, <3>3, <3>6, <3>7, <3>8 DEF Locks
  <2>4. CASE UNCHANGED fence_vars BY <2>4, LocksKept DEF fence_vars
  <2>5. \/ UNCHANGED fence_vars \/ inc_signaled_signalers(k, f) \/ waited_work_kick(k, f)
        \/ waiter_completed(k, f) \/ waiter_completed_async(k, f)
    BY DEF signal_step, signal_reads, signal_writes, sync_status, waited_work_async
  <2> QED BY <2>1, <2>2, <2>3, <2>4, <2>5
<1> QED BY <1>1, <1>2

\* A submission has the wakelocks of its out-fences' waiters: a step that neither makes it have
\* them, nor is another submission, changes nothing it depends on.
LEMMA CoveredKept ==
  ASSUME NEW k \in Cmd, NEW f \in Fence, Covered(k, f),
         pc'[k] = "both" => pc[k] = "both" /\ wakelock_held'[k] = wakelock_held[k],
         submitted_signalers'[f] = submitted_signalers[f], params_waiters'[f] = params_waiters[f]
  PROVE  Covered(k, f)'
BY DEF Covered, unsubmitted_signalers

\* A waiter registers only once all signalers are submitted, so a submission that does not have its
\* wakelock will be refused.
LEMMA CoveredNext ==
  ASSUME Control, Control', Counting, Bools, Next, NEW k \in Cmd, NEW f \in Fence, Covered(k, f)
  PROVE  Covered(k, f)'
<1>1. ASSUME NEW g \in Fence, fence_step(g) PROVE Covered(k, f)'
  <2>1. UNCHANGED <<pc, wakelock_held, submitted_signalers, params_waiters>>
    <3> USE <1>1 DEF fence_vars, cmd_vars
    <3>1. CASE gcip_fence_create_iif(g) BY <3>1 DEF gcip_fence_create_iif
    <3>2. CASE iif_sync_file_release(g) BY <3>2 DEF iif_sync_file_release
    <3>3. CASE iif_fence_on_sync_file_release(g) BY <3>3 DEF iif_fence_on_sync_file_release
    <3>4. CASE dma_iif_fence_bridge(g) BY <3>4 DEF dma_iif_fence_bridge
    <3>5. CASE dma_iif_fence_release_work(g) BY <3>5 DEF dma_iif_fence_release_work
    <3>6. CASE iif_fence_set_flags(g) BY <3>6 DEF iif_fence_set_flags
    <3>7. CASE signaled_work_func(g) BY <3>7 DEF signaled_work_func
    <3>8. CASE waited_work_func(g) BY <3>8 DEF waited_work_func
    <3>9. CASE iif_fence_do_destroy(g) BY <3>9 DEF iif_fence_do_destroy
    <3> QED BY <3>1, <3>2, <3>3, <3>4, <3>5, <3>6, <3>7, <3>8, <3>9 DEF fence_step
  <2> QED BY <2>1, CoveredKept
<1>2. ASSUME NEW j \in Cmd, NEW g \in Fence, signal_step(j, g) PROVE Covered(k, f)'
  <2>1. UNCHANGED <<wakelock_held, submitted_signalers, params_waiters>>
    <3> USE <1>2 DEF fence_vars
    <3>1. CASE signal_reads(j, g) BY <3>1 DEF signal_reads
    <3>2. CASE signal_writes(j, g) BY <3>2 DEF signal_writes
    <3>3. CASE sync_status(j, g) BY <3>3 DEF sync_status
    <3>4. CASE inc_signaled_signalers(j, g) BY <3>4 DEF inc_signaled_signalers
    <3>5. CASE waited_work_kick(j, g) BY <3>5 DEF waited_work_kick
    <3>6. CASE waiter_completed(j, g) BY <3>6 DEF waiter_completed
    <3>7. CASE waiter_completed_async(j, g) BY <3>7 DEF waiter_completed_async
    <3>8. CASE waited_work_async(j, g) BY <3>8 DEF waited_work_async
    <3> QED BY <3>1, <3>2, <3>3, <3>4, <3>5, <3>6, <3>7, <3>8 DEF signal_step
  <2>2. pc'[j] # "both"
    <3> USE <1>2 DEF Control, Types, next_out_fence
    <3>1. CASE signal_reads(j, g) BY <3>1 DEF signal_reads
    <3>2. CASE signal_writes(j, g) BY <3>2 DEF signal_writes
    <3>3. CASE sync_status(j, g) BY <3>3 DEF sync_status
    <3>4. CASE inc_signaled_signalers(j, g) BY <3>4 DEF inc_signaled_signalers
    <3>5. CASE waited_work_kick(j, g) BY <3>5 DEF waited_work_kick
    <3>6. CASE waiter_completed(j, g) BY <3>6 DEF waiter_completed
    <3>7. CASE waiter_completed_async(j, g) BY <3>7 DEF waiter_completed_async
    <3>8. CASE waited_work_async(j, g) BY <3>8 DEF waited_work_async
    <3> QED BY <3>1, <3>2, <3>3, <3>4, <3>5, <3>6, <3>7, <3>8 DEF signal_step
  <2>3. OthersStay(j) BY <1>2, SignalOthers DEF Control
  <2>4. pc'[k] = "both" => pc[k] = "both" BY <2>2, <2>3 DEF OthersStay
  <2> QED BY <2>1, <2>4, CoveredKept
<1>3. ASSUME NEW j \in Cmd, cmd_step(j), ~submit_signaler_and_waiter(j) PROVE Covered(k, f)'
  <2>1. UNCHANGED fence_vars BY <1>3, CmdFences
  <2>2. OthersStay(j) BY <1>3, CmdOthers DEF Control
  <2>3. CASE k # j BY <2>1, <2>2, <2>3, CoveredKept DEF OthersStay, fence_vars
  <2>4. CASE k = j /\ acquire_block_wakelock_of_waiters(k)
    <3> DEFINE h == {p \in Out[k] \X Ip : p[2] \in params_waiters[p[1]]}
    <3>1. pc'[k] = "both" => wakelock_held'[k] = h
      BY <2>4 DEF acquire_block_wakelock_of_waiters, Control, Types
    <3>2. f \in Out[k] => \A ip \in params_waiters[f] : <<f, ip>> \in h
      BY DEF Control, Types
    <3> QED BY <2>1, <3>1, <3>2 DEF Covered, fence_vars
  <2>5. CASE k = j /\ ~acquire_block_wakelock_of_waiters(k)
    <3>1. pc'[k] = "both" => pc[k] = "both" /\ wakelock_held'[k] = wakelock_held[k]
      <4> USE <1>3, <2>5 DEF Control, Types, next_out_fence
      <4>1. CASE acquire_block_wakelock(k) BY <4>1 DEF acquire_block_wakelock
      <4>2. CASE acquire_block_wakelock_of_waiters(k) BY <4>2 DEF acquire_block_wakelock_of_waiters
      <4>3. CASE submit_signaler_and_waiter(k) BY <4>3 DEF submit_signaler_and_waiter
      <4>4. CASE submit_refused(k) BY <4>4 DEF submit_refused
      <4>5. CASE firmware_processes(k) BY <4>5 DEF firmware_processes
      <4>6. CASE response_arrived(k) BY <4>6 DEF response_arrived
      <4>7. CASE response_error(k) BY <4>7 DEF response_error
      <4>8. CASE clear_responses(k) BY <4>8 DEF clear_responses
      <4>9. CASE put_fences(k) BY <4>9 DEF put_fences
      <4> QED BY <4>1, <4>2, <4>3, <4>4, <4>5, <4>6, <4>7, <4>8, <4>9 DEF cmd_step
    <3> QED BY <2>1, <3>1, CoveredKept DEF fence_vars
  <2> QED BY <2>3, <2>4, <2>5
<1>4. ASSUME NEW j \in Cmd, submit_signaler_and_waiter(j) PROVE Covered(k, f)'
  <2>1. /\ pc'[j] = "sent"
        /\ submitted_signalers'[f] = submitted_signalers[f] + (IF f \in Out[j] THEN 1 ELSE 0)
        /\ params_waiters'[f] = IF f \in In[j] THEN params_waiters[f] \cup {IpOf[j]} ELSE params_waiters[f]
        /\ f \in In[j] => unsubmitted_signalers(f) = 0
    BY <1>4 DEF submit_signaler_and_waiter, are_waiter_submittable, Control, Types
  <2>2. OthersStay(j) BY <1>4, CmdOthers DEF Control, cmd_step
  <2>3. f \in In[j] => f \notin Out[j] BY ConstAssumption
  <2>4. Total[f] \in Int /\ submitted_signalers[f] \in Int BY ConstAssumption DEF Control, Types
  <2>5. (unsubmitted_signalers(f))' = unsubmitted_signalers(f) - (IF f \in Out[j] THEN 1 ELSE 0)
    BY <2>1, <2>4 DEF unsubmitted_signalers
  <2>6. f \in In[j] => (unsubmitted_signalers(f))' <= 0 BY <2>1, <2>3, <2>5
  <2>7. unsubmitted_signalers(f) <= 0 => (unsubmitted_signalers(f))' <= 0
    BY <2>4, <2>5 DEF unsubmitted_signalers
  <2>8. CASE k = j BY <2>1, <2>8 DEF Covered
  <2>9. CASE k # j
    <3>1. pc'[k] = pc[k] /\ wakelock_held'[k] = wakelock_held[k] BY <2>2, <2>9 DEF OthersStay
    <3> QED BY <2>1, <2>6, <2>7, <3>1 DEF Covered
  <2> QED BY <2>8, <2>9
<1> QED BY <1>1, <1>2, <1>3, <1>4 DEF Next, cmd_step

\* A fence has no negative number of wakelocks.
LEMMA LocksNat ==
  ASSUME NEW w \in [Fence -> [Ip -> Int]], NEW o, NEW ip \in Ip,
         \A f \in Fence : o[f][ip] \in Nat /\ w[f][ip] >= o[f][ip]
  PROVE  \A f \in Fence : w[f][ip] \in Nat
OBVIOUS

\* No pair, no wakelock.
LEMMA HeldForNone == ASSUME NEW ip PROVE held_for({}, ip) = 0
BY FS_EmptySet DEF held_for

\* What the wakelocks of one IP are, before and after a step.
LEMMA Recording ==
  ASSUME Control, Control', Counting, Counting', NEW ip \in Ip,
         \A f \in Fence : Locks(f, ip) /\ Locks(f, ip)'
  PROVE  /\ \A f \in Fence : block_wakelock[f][ip] \in Nat /\ block_wakelock'[f][ip] \in Nat
         /\ [f \in Fence |-> block_wakelock[f][ip]] \in [Fence -> Nat]
         /\ [f \in Fence |-> block_wakelock'[f][ip]] \in [Fence -> Nat]
         /\ Recorded(ip) = Tokens([f \in Fence |-> block_wakelock[f][ip]])
         /\ Recorded(ip)' = Tokens([f \in Fence |-> block_wakelock'[f][ip]])
         /\ Cardinality(Recorded(ip)) \in Nat /\ Cardinality(Recorded(ip)') \in Nat
         /\ block[ip] \in Int /\ block'[ip] \in Int
<1>1. \A f \in Fence : outstanding_waiters[f][ip] \in Nat BY Naturals_
<1>2. \A f \in Fence : outstanding_waiters'[f][ip] \in Nat
  <2> SUFFICES ASSUME NEW f \in Fence PROVE outstanding_waiters'[f][ip] \in Nat OBVIOUS
  <2>1. Waiting(f, ip)' \subseteq Cmd BY DEF Waiting
  <2>2. Cardinality(Waiting(f, ip)') \in Nat BY <2>1, ConstAssumption, FS_Subset, FS_CardinalityType
  <2> QED BY <2>2 DEF Counting, Counts
<1>3. block_wakelock \in [Fence -> [Ip -> Int]] /\ block_wakelock' \in [Fence -> [Ip -> Int]]
  BY DEF Control, Types
<1>4. \A f \in Fence : block_wakelock[f][ip] \in Nat BY <1>1, <1>3, LocksNat DEF Locks
<1>5. \A f \in Fence : block_wakelock'[f][ip] \in Nat BY <1>2, <1>3, LocksNat DEF Locks
<1>6. /\ [f \in Fence |-> block_wakelock[f][ip]] \in [Fence -> Nat]
      /\ Recorded(ip) = Tokens([f \in Fence |-> block_wakelock[f][ip]])
  BY <1>4 DEF Recorded, Tokens
<1>7. /\ [f \in Fence |-> block_wakelock'[f][ip]] \in [Fence -> Nat]
      /\ Recorded(ip)' = Tokens([f \in Fence |-> block_wakelock'[f][ip]])
  BY <1>5 DEF Recorded, Tokens
<1>8. Cardinality(Recorded(ip)) \in Nat BY <1>6, TokensFinite
<1>9. Cardinality(Recorded(ip)') \in Nat BY <1>7, TokensFinite
<1>10. block[ip] \in Int /\ block'[ip] \in Int BY DEF Control, Types
<1> QED BY <1>4, <1>5, <1>6, <1>7, <1>8, <1>9, <1>10

\* Wakelocks recorded in one fence are released.
LEMMA RecordedLess ==
  ASSUME Control, Control', Counting, Counting', NEW ip \in Ip,
         \A f \in Fence : Locks(f, ip) /\ Locks(f, ip)',
         NEW f \in Fence, \A g \in Fence \ {f} : block_wakelock'[g] = block_wakelock[g],
         block_wakelock'[f][ip] <= block_wakelock[f][ip],
         block'[ip] = block[ip] - (block_wakelock[f][ip] - block_wakelock'[f][ip]),
         InHand(ip)' = InHand(ip),
         block[ip] = Cardinality(Recorded(ip)) + Cardinality(InHand(ip)),
         Cardinality(InHand(ip)) \in Nat
  PROVE  block'[ip] = Cardinality(Recorded(ip)') + Cardinality(InHand(ip)')
<1> DEFINE b == [g \in Fence |-> block_wakelock[g][ip]]
           c == [g \in Fence |-> block_wakelock'[g][ip]]
<1>1. /\ b \in [Fence -> Nat] /\ c \in [Fence -> Nat]
      /\ Recorded(ip) = Tokens(b) /\ Recorded(ip)' = Tokens(c)
      /\ Cardinality(Recorded(ip)) \in Nat /\ Cardinality(Recorded(ip)') \in Nat
      /\ block_wakelock[f][ip] \in Nat /\ block_wakelock'[f][ip] \in Nat
  BY Recording
<1>2. (\A g \in Fence \ {f} : c[g] = b[g]) /\ c[f] <= b[f] OBVIOUS
<1>3. b[f] = block_wakelock[f][ip] /\ c[f] = block_wakelock'[f][ip] OBVIOUS
<1> HIDE DEF b, c
<1>4. Cardinality(Tokens(b)) = Cardinality(Tokens(c)) + (b[f] - c[f]) BY <1>1, <1>2, TokensLess
<1> QED BY <1>1, <1>3, <1>4

\* A command that has not submitted itself and does not begin to has nothing in hand.
LEMMA NothingInHand ==
  ASSUME Control, Control', NEW k \in Cmd, OthersStay(k), NEW ip \in Ip,
         pc[k] \notin {"in", "both"}, pc'[k] \notin {"in", "both"}
  PROVE  InHand(ip)' = InHand(ip)
<1>1. wakelock_held[k] = {} /\ wakelock_held'[k] = {} BY DEF Control, Phase
<1> QED BY <1>1 DEF InHand, OthersStay

\* The IP stays held for what is recorded and in hand: steps of a fence.
LEMMA FenceAccount ==
  ASSUME Control, Control', Counting, Counting', NEW ip \in Ip,
         \A f \in Fence : Locks(f, ip) /\ Locks(f, ip)',
         block[ip] = Cardinality(Recorded(ip)) + Cardinality(InHand(ip)),
         Cardinality(InHand(ip)) \in Nat, NEW f \in Fence, fence_step(f)
  PROVE  block'[ip] = Cardinality(Recorded(ip)') + Cardinality(InHand(ip)')
<1>1. UNCHANGED <<pc, wakelock_held>>
  <2> USE DEF cmd_vars
  <2>1. CASE gcip_fence_create_iif(f) BY <2>1 DEF gcip_fence_create_iif
  <2>2. CASE iif_sync_file_release(f) BY <2>2 DEF iif_sync_file_release
  <2>3. CASE iif_fence_on_sync_file_release(f) BY <2>3 DEF iif_fence_on_sync_file_release
  <2>4. CASE dma_iif_fence_bridge(f) BY <2>4 DEF dma_iif_fence_bridge
  <2>5. CASE dma_iif_fence_release_work(f) BY <2>5 DEF dma_iif_fence_release_work
  <2>6. CASE iif_fence_set_flags(f) BY <2>6 DEF iif_fence_set_flags
  <2>7. CASE signaled_work_func(f) BY <2>7 DEF signaled_work_func
  <2>8. CASE waited_work_func(f) BY <2>8 DEF waited_work_func
  <2>9. CASE iif_fence_do_destroy(f) BY <2>9 DEF iif_fence_do_destroy
  <2> QED BY <2>1, <2>2, <2>3, <2>4, <2>5, <2>6, <2>7, <2>8, <2>9 DEF fence_step
<1>2. InHand(ip)' = InHand(ip) BY <1>1 DEF InHand
<1>3. CASE waited_work_func(f)
  <2>1. release_pended(f) BY <1>3 DEF waited_work_func
  <2>2. /\ block_wakelock'[f][ip] <= block_wakelock[f][ip]
        /\ block'[ip] = block[ip] - (block_wakelock[f][ip] - block_wakelock'[f][ip])
        /\ \A g \in Fence \ {f} : block_wakelock'[g] = block_wakelock[g]
    BY <2>1, ReleaseLocks
  <2> QED BY <1>2, <2>2, RecordedLess
<1>4. CASE iif_fence_do_destroy(f)
  <2>1. /\ block_wakelock'[f][ip] = 0
        /\ block'[ip] = block[ip] - block_wakelock[f][ip]
        /\ \A g \in Fence \ {f} : block_wakelock'[g] = block_wakelock[g]
    BY <1>4 DEF iif_fence_do_destroy, Control, Types
  <2>2. block_wakelock[f][ip] \in Nat BY Recording
  <2>3. /\ block_wakelock'[f][ip] <= block_wakelock[f][ip]
        /\ block'[ip] = block[ip] - (block_wakelock[f][ip] - block_wakelock'[f][ip])
    BY <2>1, <2>2
  <2> QED BY <1>2, <2>1, <2>3, RecordedLess
<1>5. CASE ~waited_work_func(f) /\ ~iif_fence_do_destroy(f)
  <2>1. UNCHANGED <<block_wakelock, block>>
    <3> USE <1>5 DEF fence_vars
    <3>1. CASE gcip_fence_create_iif(f) BY <3>1 DEF gcip_fence_create_iif
    <3>2. CASE iif_sync_file_release(f) BY <3>2 DEF iif_sync_file_release
    <3>3. CASE iif_fence_on_sync_file_release(f) BY <3>3 DEF iif_fence_on_sync_file_release
    <3>4. CASE dma_iif_fence_bridge(f) BY <3>4 DEF dma_iif_fence_bridge
    <3>5. CASE dma_iif_fence_release_work(f) BY <3>5 DEF dma_iif_fence_release_work
    <3>6. CASE iif_fence_set_flags(f) BY <3>6 DEF iif_fence_set_flags
    <3>7. CASE signaled_work_func(f) BY <3>7 DEF signaled_work_func
    <3>8. CASE waited_work_func(f) BY <3>8 DEF waited_work_func
    <3>9. CASE iif_fence_do_destroy(f) BY <3>9 DEF iif_fence_do_destroy
    <3> QED BY <3>1, <3>2, <3>3, <3>4, <3>5, <3>6, <3>7, <3>8, <3>9 DEF fence_step
  <2>2. Recorded(ip)' = Recorded(ip) BY <2>1 DEF Recorded
  <2> QED BY <1>2, <2>1, <2>2
<1> QED BY <1>3, <1>4, <1>5

\* The same for the steps of a command at one of its fences.
LEMMA SignalAccount ==
  ASSUME Control, Control', Counting, Counting', NEW ip \in Ip,
         \A f \in Fence : Locks(f, ip) /\ Locks(f, ip)',
         block[ip] = Cardinality(Recorded(ip)) + Cardinality(InHand(ip)),
         Cardinality(InHand(ip)) \in Nat, NEW k \in Cmd, NEW f \in Fence, signal_step(k, f), OthersStay(k)
  PROVE  block'[ip] = Cardinality(Recorded(ip)') + Cardinality(InHand(ip)')
<1>1. pc[k] \notin {"in", "both"} /\ pc'[k] \notin {"in", "both"}
  <2> USE DEF Control, Types, next_out_fence
  <2>1. CASE signal_reads(k, f) BY <2>1 DEF signal_reads
  <2>2. CASE signal_writes(k, f) BY <2>2 DEF signal_writes
  <2>3. CASE sync_status(k, f) BY <2>3 DEF sync_status
  <2>4. CASE inc_signaled_signalers(k, f) BY <2>4 DEF inc_signaled_signalers
  <2>5. CASE waited_work_kick(k, f) BY <2>5 DEF waited_work_kick
  <2>6. CASE waiter_completed(k, f) BY <2>6 DEF waiter_completed
  <2>7. CASE waiter_completed_async(k, f) BY <2>7 DEF waiter_completed_async
  <2>8. CASE waited_work_async(k, f) BY <2>8 DEF waited_work_async
  <2> QED BY <2>1, <2>2, <2>3, <2>4, <2>5, <2>6, <2>7, <2>8 DEF signal_step
<1>2. InHand(ip)' = InHand(ip) BY <1>1, NothingInHand
<1>3. CASE waited_work_kick(k, f) /\ release_pended(f)
  <2>1. /\ block_wakelock'[f][ip] <= block_wakelock[f][ip]
        /\ block'[ip] = block[ip] - (block_wakelock[f][ip] - block_wakelock'[f][ip])
        /\ \A g \in Fence \ {f} : block_wakelock'[g] = block_wakelock[g]
    BY <1>3, ReleaseLocks
  <2> QED BY <1>2, <2>1, RecordedLess
<1>4. CASE /\ block_wakelock' = [block_wakelock EXCEPT ![f][IpOf[k]] = @ - 1]
           /\ block' = [block EXCEPT ![IpOf[k]] = @ - 1]
  <2>1. block_wakelock[f][ip] \in Nat /\ block[ip] \in Int BY Recording
  <2>2. /\ block_wakelock'[f][ip] <= block_wakelock[f][ip]
        /\ block'[ip] = block[ip] - (block_wakelock[f][ip] - block_wakelock'[f][ip])
        /\ \A g \in Fence \ {f} : block_wakelock'[g] = block_wakelock[g]
    BY <1>4, <2>1, Constants DEF Control, Types
  <2> QED BY <1>2, <2>2, RecordedLess
<1>5. CASE UNCHANGED <<block_wakelock, block>>
  <2>1. Recorded(ip)' = Recorded(ip) BY <1>5 DEF Recorded
  <2> QED BY <1>2, <1>5, <2>1
<1>6. \/ waited_work_kick(k, f) /\ release_pended(f)
      \/ UNCHANGED <<block_wakelock, block>>
      \/ /\ block_wakelock' = [block_wakelock EXCEPT ![f][IpOf[k]] = @ - 1]
         /\ block' = [block EXCEPT ![IpOf[k]] = @ - 1]
  <2> USE DEF fence_vars
  <2>1. CASE signal_reads(k, f) BY <2>1 DEF signal_reads
  <2>2. CASE signal_writes(k, f) BY <2>2 DEF signal_writes
  <2>3. CASE sync_status(k, f) BY <2>3 DEF sync_status
  <2>4. CASE inc_signaled_signalers(k, f) BY <2>4 DEF inc_signaled_signalers
  <2>5. CASE waited_work_kick(k, f) BY <2>5 DEF waited_work_kick
  <2>6. CASE waiter_completed(k, f) BY <2>6 DEF waiter_completed
  <2>7. CASE waiter_completed_async(k, f) BY <2>7 DEF waiter_completed_async
  <2>8. CASE waited_work_async(k, f) BY <2>8 DEF waited_work_async
  <2> QED BY <2>1, <2>2, <2>3, <2>4, <2>5, <2>6, <2>7, <2>8 DEF signal_step
<1> QED BY <1>3, <1>4, <1>5, <1>6

\* What is taken in hand is what the IP is held for in addition.
LEMMA Balance ==
  ASSUME NEW x \in Int, NEW y \in Int, NEW r \in Nat, NEW i \in Nat, NEW j \in Nat,
         NEW m \in Nat, NEW n \in Nat, x = r + i, j + m = i + n, y + m = x + n
  PROVE  y = r + j
OBVIOUS

\* The same for the steps of a submission before its last section, and for the others of a command at large.
LEMMA CmdAccount ==
  ASSUME Control, Control', Counting, Counting', NEW ip \in Ip,
         \A f \in Fence : Locks(f, ip) /\ Locks(f, ip)',
         block[ip] = Cardinality(Recorded(ip)) + Cardinality(InHand(ip)),
         NEW k \in Cmd, cmd_step(k), ~submit_signaler_and_waiter(k), OthersStay(k)
  PROVE  block'[ip] = Cardinality(Recorded(ip)') + Cardinality(InHand(ip)')
<1>1. UNCHANGED fence_vars BY CmdFences
<1>2. Recorded(ip)' = Recorded(ip) BY <1>1 DEF Recorded, fence_vars
<1>3. /\ Cardinality(InHand(ip)) \in Nat /\ Cardinality(InHand(ip)') \in Nat
      /\ Handed(k, ip) \in Nat /\ Handed(k, ip)' \in Nat
      /\ Cardinality(InHand(ip)') + Handed(k, ip) = Cardinality(InHand(ip)) + Handed(k, ip)'
  BY HandStep
<1>4. Cardinality(Recorded(ip)) \in Nat /\ block[ip] \in Int /\ block'[ip] \in Int BY Recording
<1>5. SUFFICES block'[ip] + Handed(k, ip) = block[ip] + Handed(k, ip)'
  <2>1. Cardinality(Recorded(ip)') = Cardinality(Recorded(ip)) BY <1>2
  <2> DEFINE x == block[ip]  y == block'[ip]  r == Cardinality(Recorded(ip))  i == Cardinality(InHand(ip))
             j == Cardinality(InHand(ip)')  m == Handed(k, ip)  n == Handed(k, ip)'
  <2>2. /\ x \in Int /\ y \in Int /\ r \in Nat /\ i \in Nat /\ j \in Nat /\ m \in Nat /\ n \in Nat
        /\ x = r + i /\ j + m = i + n /\ y + m = x + n
    BY <1>3, <1>4
  <2>3. y = r + j
    <3> HIDE DEF x, y, r, i, j, m, n
    <3> QED BY <2>2, Balance
  <2> QED BY <2>1, <2>3
<1>6. wakelock_held[k] # {} => pc[k] = "both" BY DEF Control, Phase
<1>7. IpOf[k] \in Ip /\ Cardinality(In[k]) \in Nat BY Constants
<1>8. held_for({}, ip) = 0 BY HeldForNone
<1>9. CASE acquire_block_wakelock(k)
  <2>1. pc[k] = "idle" /\ wakelock_held' = wakelock_held /\ wakelock_held[k] = {}
    BY <1>6, <1>9 DEF acquire_block_wakelock
  <2>2. \/ /\ block'[ip] = IF ip = IpOf[k] THEN block[ip] + Cardinality(In[k]) ELSE block[ip]
           /\ pc'[k] = "in"
        \/ block'[ip] = block[ip] /\ pc'[k] = "refused"
    BY <1>9 DEF acquire_block_wakelock, Control, Types
  <2> QED BY <1>4, <1>7, <1>8, <2>1, <2>2 DEF Handed
<1>10. CASE acquire_block_wakelock_of_waiters(k)
  <2> DEFINE h == {p \in Out[k] \X Ip : p[2] \in params_waiters[p[1]]}
  <2>1. pc[k] = "in" /\ wakelock_held[k] = {} BY <1>6, <1>10 DEF acquire_block_wakelock_of_waiters
  <2>2. \/ /\ wakelock_held'[k] = h /\ block'[ip] = block[ip] + held_for(h, ip) /\ pc'[k] = "both"
        \/ /\ wakelock_held'[k] = {} /\ pc'[k] = "refused"
           /\ block'[ip] = IF ip = IpOf[k] THEN block[ip] - Cardinality(In[k]) ELSE block[ip]
    BY <1>10, <2>1 DEF acquire_block_wakelock_of_waiters, Control, Types
  <2>3. held_for(h, ip) \in Nat
    <3>1. h \subseteq Fence \X Ip BY Constants
    <3> QED BY <3>1, HeldForType
  <2> HIDE DEF h
  <2>4. Handed(k, ip) = IF IpOf[k] = ip THEN Cardinality(In[k]) ELSE 0 BY <1>7, <1>8, <2>1 DEF Handed
  <2>5. CASE wakelock_held'[k] = h /\ block'[ip] = block[ip] + held_for(h, ip) /\ pc'[k] = "both"
    <3>1. Handed(k, ip)' = held_for(h, ip) + IF IpOf[k] = ip THEN Cardinality(In[k]) ELSE 0
      BY <2>5 DEF Handed
    <3> QED BY <1>4, <1>7, <2>3, <2>4, <2>5, <3>1
  <2>6. CASE /\ wakelock_held'[k] = {} /\ pc'[k] = "refused"
             /\ block'[ip] = IF ip = IpOf[k] THEN block[ip] - Cardinality(In[k]) ELSE block[ip]
    <3>1. Handed(k, ip)' = 0 BY <1>8, <2>6 DEF Handed
    <3> QED BY <1>4, <1>7, <2>4, <2>6, <3>1
  <2> QED BY <2>2, <2>5, <2>6
<1>11. CASE submit_refused(k)
  <2>1. /\ pc[k] = "both" /\ pc'[k] = "refused" /\ wakelock_held'[k] = {}
        /\ block'[ip] = block[ip] - refused_releases(k, ip)
    BY <1>11 DEF submit_refused, Control, Types
  <2>2. refused_releases(k, ip) = Handed(k, ip) BY <2>1 DEF refused_releases, Handed
  <2>3. Handed(k, ip)' = 0 BY <1>8, <2>1 DEF Handed
  <2> QED BY <1>3, <1>4, <2>1, <2>2, <2>3
<1>12. CASE ~acquire_block_wakelock(k) /\ ~acquire_block_wakelock_of_waiters(k) /\ ~submit_refused(k)
  <2>1. /\ pc[k] \notin {"in", "both"} /\ pc'[k] \notin {"in", "both"} /\ UNCHANGED <<block, wakelock_held>>
    <3> USE <1>12 DEF Control, Types, next_out_fence, Sent
    <3>1. CASE acquire_block_wakelock(k) BY <3>1 DEF acquire_block_wakelock
    <3>2. CASE acquire_block_wakelock_of_waiters(k) BY <3>2 DEF acquire_block_wakelock_of_waiters
    <3>3. CASE submit_signaler_and_waiter(k) BY <3>3 DEF submit_signaler_and_waiter
    <3>4. CASE submit_refused(k) BY <3>4 DEF submit_refused
    <3>5. CASE firmware_processes(k) BY <3>5 DEF firmware_processes
    <3>6. CASE response_arrived(k) BY <3>6 DEF response_arrived
    <3>7. CASE response_error(k) BY <3>7 DEF response_error
    <3>8. CASE clear_responses(k) BY <3>8 DEF clear_responses
    <3>9. CASE put_fences(k) BY <3>9 DEF put_fences
    <3> QED BY <3>1, <3>2, <3>3, <3>4, <3>5, <3>6, <3>7, <3>8, <3>9 DEF cmd_step
  <2> QED BY <1>3, <1>4, <2>1 DEF Handed
<1> QED BY <1>9, <1>10, <1>11, <1>12

\* The submission records in its fences what it had in hand.
LEMMA SubmitAccount ==
  ASSUME Control, Control', Counting, Counting', NEW ip \in Ip,
         \A f \in Fence : Locks(f, ip) /\ Locks(f, ip)',
         block[ip] = Cardinality(Recorded(ip)) + Cardinality(InHand(ip)),
         NEW k \in Cmd, submit_signaler_and_waiter(k), OthersStay(k)
  PROVE  block'[ip] = Cardinality(Recorded(ip)') + Cardinality(InHand(ip)')
<1> DEFINE b == [g \in Fence |-> block_wakelock[g][ip]]
           c == [g \in Fence |-> block_wakelock'[g][ip]]
           D == Mine(k, ip)
<1>1. /\ b \in [Fence -> Nat] /\ c \in [Fence -> Nat]
      /\ Recorded(ip) = Tokens(b) /\ Recorded(ip)' = Tokens(c)
      /\ Cardinality(Recorded(ip)) \in Nat /\ Cardinality(Recorded(ip)') \in Nat
      /\ block[ip] \in Int /\ \A g \in Fence : block_wakelock[g][ip] \in Nat
  BY Recording
<1>2. /\ pc[k] = "both" /\ pc'[k] = "sent" /\ wakelock_held'[k] = {} /\ block' = block
      /\ \A g \in Fence : block_wakelock'[g][ip] =
           block_wakelock[g][ip] + (IF g \in In[k] /\ ip = IpOf[k] THEN 1 ELSE 0)
             + (IF <<g, ip>> \in wakelock_held[k] THEN 1 ELSE 0)
  BY DEF submit_signaler_and_waiter, Control, Types
<1>3. /\ Cardinality(InHand(ip)) \in Nat /\ Cardinality(InHand(ip)') \in Nat
      /\ Handed(k, ip) \in Nat /\ Handed(k, ip)' \in Nat
      /\ Cardinality(InHand(ip)') + Handed(k, ip) = Cardinality(InHand(ip)) + Handed(k, ip)'
  BY HandStep
<1>4. Handed(k, ip)' = 0 BY <1>2, HeldForNone DEF Handed
<1>5. wakelock_held[k] \in SUBSET (Out[k] \X Ip) BY DEF Control, Phase
<1>6. IsFiniteSet(Mine(k, ip)) /\ Cardinality(Mine(k, ip)) = Handed(k, ip) /\ Handed(k, ip) \in Nat
  BY <1>5, MineCard DEF Mine, Handed
<1>7. \A g \in Fence : ~(g \in In[k] /\ <<g, ip>> \in wakelock_held[k])
  BY <1>5, ConstAssumption
<1>8. D \in SUBSET Fence BY DEF Mine
<1>9. (\A g \in D : c[g] = b[g] + 1) /\ \A g \in Fence \ D : c[g] = b[g]
  <2> SUFFICES ASSUME NEW g \in Fence PROVE (g \in D => c[g] = b[g] + 1) /\ (g \notin D => c[g] = b[g])
    BY <1>8
  <2>1. g \in D <=> (g \in In[k] /\ ip = IpOf[k]) \/ <<g, ip>> \in wakelock_held[k]
    BY <1>2 DEF Mine
  <2>2. block_wakelock[g][ip] \in Nat /\ b[g] = block_wakelock[g][ip] /\ c[g] = block_wakelock'[g][ip]
    BY <1>1
  <2> HIDE DEF b, c, D
  <2> QED BY <1>2, <1>7, <2>1, <2>2
<1> HIDE DEF b, c, D
<1>10. Cardinality(Tokens(c)) = Cardinality(Tokens(b)) + Cardinality(D) BY <1>1, <1>8, <1>9, TokensMore
<1> QED BY <1>1, <1>2, <1>3, <1>4, <1>6, <1>10 DEF D

\* The part of the invariant on wakelocks is inductive.
LEMMA WakelocksNext ==
  ASSUME Control, Control', Counting, Counting', Bools, Wakelocks, Next
  PROVE  Wakelocks'
<1>1. \A k \in Cmd, f \in Fence : Covered(k, f)' BY CoveredNext DEF Wakelocks
<1>2. ASSUME NEW g \in Fence, NEW ip \in Ip PROVE Locks(g, ip)'
  <2>1. Locks(g, ip) /\ \A k \in Cmd : Covered(k, g) BY DEF Wakelocks
  <2> QED BY <2>1, FenceLocks, CmdLocks, SignalLocks DEF Next
<1>3. ASSUME NEW ip \in Ip PROVE block'[ip] = Cardinality(Recorded(ip)') + Cardinality(InHand(ip)')
  <2>1. /\ \A f \in Fence : Locks(f, ip) /\ Locks(f, ip)'
        /\ block[ip] = Cardinality(Recorded(ip)) + Cardinality(InHand(ip))
    BY <1>2 DEF Wakelocks, WakelocksAccounted
  <2>2. Cardinality(InHand(ip)) \in Nat
    <3>1. InHand(ip) \subseteq Cmd \X Fence BY DEF InHand
    <3>2. IsFiniteSet(Cmd \X Fence) BY ConstAssumption, FS_Product
    <3> QED BY <3>1, <3>2, FS_Subset, FS_CardinalityType
  <2>3. ASSUME NEW f \in Fence, fence_step(f)
        PROVE  block'[ip] = Cardinality(Recorded(ip)') + Cardinality(InHand(ip)')
    BY <2>1, <2>2, <2>3, FenceAccount
  <2>4. ASSUME NEW k \in Cmd, cmd_step(k)
        PROVE  block'[ip] = Cardinality(Recorded(ip)') + Cardinality(InHand(ip)')
    <3>1. OthersStay(k) BY <2>4, CmdOthers DEF Control
    <3> QED BY <2>1, <2>4, <3>1, CmdAccount, SubmitAccount
  <2>5. ASSUME NEW k \in Cmd, NEW f \in Fence, signal_step(k, f)
        PROVE  block'[ip] = Cardinality(Recorded(ip)') + Cardinality(InHand(ip)')
    <3>1. OthersStay(k) BY <2>5, SignalOthers DEF Control
    <3> QED BY <2>1, <2>2, <2>5, <3>1, SignalAccount
  <2> QED BY <2>3, <2>4, <2>5 DEF Next
<1> QED BY <1>1, <1>2, <1>3 DEF Wakelocks, WakelocksAccounted

-----------------------------------------------------------------------------
(* The release of pended wakelocks, and the poll callbacks                  *)

\* A thread is about to release what is pended for f, or to queue the work that does.
AboutTo(k, f) == pc[k] \in {"kick", "kick_waited"} /\ f \in cur[k]

\* A wakelock that is there for no waiter will be released.
Pended(f, ip) ==
  block_wakelock[f][ip] > outstanding_waiters[f][ip] =>
    outstanding_signalers(f) > 0 \/ waited_work[f] \/ \E k \in Cmd : AboutTo(k, f)

\* The reason to expect the release stays, and no wakelock is pended anew.
LEMMA PendedKept ==
  ASSUME NEW f \in Fence, NEW ip \in Ip, Pended(f, ip),
         block_wakelock'[f][ip] > outstanding_waiters'[f][ip] =>
           block_wakelock[f][ip] > outstanding_waiters[f][ip],
         outstanding_signalers(f) > 0 => (outstanding_signalers(f))' > 0,
         waited_work[f] => waited_work'[f],
         \A k \in Cmd : AboutTo(k, f) => AboutTo(k, f)'
  PROVE  Pended(f, ip)'
BY DEF Pended

\* Where nobody waits for f the wakelocks that remain are those of the waiters.
LEMMA ReleasePended ==
  ASSUME Control, Control', Counting, NEW f \in Fence, NEW ip \in Ip, Locks(f, ip), release_pended(f),
         UNCHANGED <<submitted_signalers, signaled_signalers, outstanding_waiters>>
  PROVE  Pended(f, ip)'
<1>1. /\ block_wakelock'[f][ip] <= block_wakelock[f][ip]
      /\ outstanding_signalers(f) = 0 => block_wakelock'[f][ip] = outstanding_waiters[f][ip]
  BY ReleaseLocks
<1>2. (outstanding_signalers(f))' = outstanding_signalers(f) BY DEF outstanding_signalers
<1>3. block_wakelock'[f][ip] \in Int /\ outstanding_waiters[f][ip] \in Nat /\ block_wakelock[f][ip] \in Int
      /\ outstanding_signalers(f) \in Int
  BY Naturals_ DEF Control, Types
<1>4. CASE state[f] = "freed"
  <2>1. block_wakelock[f][ip] = 0 BY <1>4 DEF Locks
  <2>2. ~(block_wakelock'[f][ip] > outstanding_waiters[f][ip]) BY <1>1, <1>3, <2>1
  <2> QED BY <2>2 DEF Pended
<1>5. CASE state[f] # "freed" /\ outstanding_signalers(f) > 0 BY <1>2, <1>5 DEF Pended
<1>6. CASE state[f] # "freed" /\ ~(outstanding_signalers(f) > 0)
  <2>1. outstanding_signalers(f) = 0 BY <1>3, <1>6, Naturals_
  <2>2. ~(block_wakelock'[f][ip] > outstanding_waiters[f][ip]) BY <1>1, <1>3, <2>1
  <2> QED BY <2>2 DEF Pended
<1> QED BY <1>4, <1>5, <1>6

\* A step of a fence loses no wakelock.
LEMMA FencePended ==
  ASSUME Control, Control', Counting, Bools, NEW f \in Fence, fence_step(f),
         NEW g \in Fence, NEW ip \in Ip, Locks(g, ip), Pended(g, ip)
  PROVE  Pended(g, ip)'
<1>1. UNCHANGED <<pc, cur>>
  <2> USE DEF cmd_vars
  <2>1. CASE gcip_fence_create_iif(f) BY <2>1 DEF gcip_fence_create_iif
  <2>2. CASE iif_sync_file_release(f) BY <2>2 DEF iif_sync_file_release
  <2>3. CASE iif_fence_on_sync_file_release(f) BY <2>3 DEF iif_fence_on_sync_file_release
  <2>4. CASE dma_iif_fence_bridge(f) BY <2>4 DEF dma_iif_fence_bridge
  <2>5. CASE dma_iif_fence_release_work(f) BY <2>5 DEF dma_iif_fence_release_work
  <2>6. CASE iif_fence_set_flags(f) BY <2>6 DEF iif_fence_set_flags
  <2>7. CASE signaled_work_func(f) BY <2>7 DEF signaled_work_func
  <2>8. CASE waited_work_func(f) BY <2>8 DEF waited_work_func
  <2>9. CASE iif_fence_do_destroy(f) BY <2>9 DEF iif_fence_do_destroy
  <2> QED BY <2>1, <2>2, <2>3, <2>4, <2>5, <2>6, <2>7, <2>8, <2>9 DEF fence_step
<1>2. \A k \in Cmd : AboutTo(k, g)' <=> AboutTo(k, g) BY <1>1 DEF AboutTo
<1>3. CASE waited_work_func(f) /\ g = f BY <1>3, ReleasePended DEF waited_work_func
<1>4. CASE iif_fence_do_destroy(f) /\ g = f
  <2>1. block_wakelock'[f][ip] = 0 /\ outstanding_waiters' = outstanding_waiters
    BY <1>4 DEF iif_fence_do_destroy, Control, Types
  <2>2. ~(block_wakelock'[f][ip] > outstanding_waiters'[f][ip]) BY <2>1, Naturals_
  <2> QED BY <1>4, <2>2 DEF Pended
<1>5. CASE ~((waited_work_func(f) \/ iif_fence_do_destroy(f)) /\ g = f)
  <2>1. UNCHANGED <<submitted_signalers, outstanding_waiters>>
    <3> USE <1>5 DEF fence_vars
    <3>1. CASE gcip_fence_create_iif(f) BY <3>1 DEF gcip_fence_create_iif
    <3>2. CASE iif_sync_file_release(f) BY <3>2 DEF iif_sync_file_release
    <3>3. CASE iif_fence_on_sync_file_release(f) BY <3>3 DEF iif_fence_on_sync_file_release
    <3>4. CASE dma_iif_fence_bridge(f) BY <3>4 DEF dma_iif_fence_bridge
    <3>5. CASE dma_iif_fence_release_work(f) BY <3>5 DEF dma_iif_fence_release_work
    <3>6. CASE iif_fence_set_flags(f) BY <3>6 DEF iif_fence_set_flags
    <3>7. CASE signaled_work_func(f) BY <3>7 DEF signaled_work_func
    <3>8. CASE waited_work_func(f) BY <3>8 DEF waited_work_func
    <3>9. CASE iif_fence_do_destroy(f) BY <3>9 DEF iif_fence_do_destroy
    <3> QED BY <3>1, <3>2, <3>3, <3>4, <3>5, <3>6, <3>7, <3>8, <3>9 DEF fence_step
  <2>2. block_wakelock'[g] = block_wakelock[g] /\ signaled_signalers'[g] = signaled_signalers[g]
    <3> USE <1>5 DEF fence_vars, Control, Types, release_pended
    <3>1. CASE gcip_fence_create_iif(f) BY <3>1 DEF gcip_fence_create_iif
    <3>2. CASE iif_sync_file_release(f) BY <3>2 DEF iif_sync_file_release
    <3>3. CASE iif_fence_on_sync_file_release(f) BY <3>3 DEF iif_fence_on_sync_file_release
    <3>4. CASE dma_iif_fence_bridge(f) BY <3>4 DEF dma_iif_fence_bridge
    <3>5. CASE dma_iif_fence_release_work(f) BY <3>5 DEF dma_iif_fence_release_work
    <3>6. CASE iif_fence_set_flags(f) BY <3>6 DEF iif_fence_set_flags
    <3>7. CASE signaled_work_func(f) BY <3>7 DEF signaled_work_func
    <3>8. CASE waited_work_func(f) BY <3>8 DEF waited_work_func
    <3>9. CASE iif_fence_do_destroy(f) BY <3>9 DEF iif_fence_do_destroy
    <3> QED BY <3>1, <3>2, <3>3, <3>4, <3>5, <3>6, <3>7, <3>8, <3>9 DEF fence_step
  <2>3. waited_work'[g] = waited_work[g]
    <3> USE <1>5 DEF work_vars, Bools
    <3>1. CASE gcip_fence_create_iif(f) BY <3>1 DEF gcip_fence_create_iif
    <3>2. CASE iif_sync_file_release(f) BY <3>2 DEF iif_sync_file_release
    <3>3. CASE iif_fence_on_sync_file_release(f) BY <3>3 DEF iif_fence_on_sync_file_release
    <3>4. CASE dma_iif_fence_bridge(f) BY <3>4 DEF dma_iif_fence_bridge
    <3>5. CASE dma_iif_fence_release_work(f) BY <3>5 DEF dma_iif_fence_release_work
    <3>6. CASE iif_fence_set_flags(f) BY <3>6 DEF iif_fence_set_flags
    <3>7. CASE signaled_work_func(f) BY <3>7 DEF signaled_work_func
    <3>8. CASE waited_work_func(f) BY <3>8 DEF waited_work_func
    <3>9. CASE iif_fence_do_destroy(f) BY <3>9 DEF iif_fence_do_destroy
    <3> QED BY <3>1, <3>2, <3>3, <3>4, <3>5, <3>6, <3>7, <3>8, <3>9 DEF fence_step
  <2>4. (outstanding_signalers(g))' = outstanding_signalers(g) BY <2>1, <2>2 DEF outstanding_signalers
  <2> QED BY <1>2, <2>1, <2>2, <2>3, <2>4, PendedKept
<1> QED BY <1>3, <1>4, <1>5

\* The wakelocks of waiters that a submission records are released after its signal.
LEMMA CmdPended ==
  ASSUME Control, Counting, Bools, NEW k \in Cmd, cmd_step(k), OthersStay(k),
         NEW g \in Fence, NEW ip \in Ip, Pended(g, ip)
  PROVE  Pended(g, ip)'
<1>1. ASSUME NEW j \in Cmd, AboutTo(j, g) PROVE AboutTo(j, g)'
  <2>1. CASE j # k BY <1>1, <2>1 DEF AboutTo, OthersStay
  <2>2. CASE j = k
    <3>1. pc'[k] = pc[k] /\ cur'[k] = cur[k]
      <4> USE <1>1, <2>2 DEF AboutTo
      <4>1. CASE acquire_block_wakelock(k) BY <4>1 DEF acquire_block_wakelock
      <4>2. CASE acquire_block_wakelock_of_waiters(k) BY <4>2 DEF acquire_block_wakelock_of_waiters
      <4>3. CASE submit_signaler_and_waiter(k) BY <4>3 DEF submit_signaler_and_waiter
      <4>4. CASE submit_refused(k) BY <4>4 DEF submit_refused
      <4>5. CASE firmware_processes(k) BY <4>5 DEF firmware_processes
      <4>6. CASE response_arrived(k) BY <4>6 DEF response_arrived
      <4>7. CASE response_error(k) BY <4>7 DEF response_error
      <4>8. CASE clear_responses(k) BY <4>8 DEF clear_responses
      <4>9. CASE put_fences(k) BY <4>9 DEF put_fences
      <4> QED BY <4>1, <4>2, <4>3, <4>4, <4>5, <4>6, <4>7, <4>8, <4>9 DEF cmd_step
    <3> QED BY <1>1, <2>2, <3>1 DEF AboutTo
  <2> QED BY <2>1, <2>2
<1>2. UNCHANGED work_vars
  <2>1. CASE acquire_block_wakelock(k) BY <2>1 DEF acquire_block_wakelock
  <2>2. CASE acquire_block_wakelock_of_waiters(k) BY <2>2 DEF acquire_block_wakelock_of_waiters
  <2>3. CASE submit_signaler_and_waiter(k) BY <2>3 DEF submit_signaler_and_waiter
  <2>4. CASE submit_refused(k) BY <2>4 DEF submit_refused
  <2>5. CASE firmware_processes(k) BY <2>5 DEF firmware_processes
  <2>6. CASE response_arrived(k) BY <2>6 DEF response_arrived
  <2>7. CASE response_error(k) BY <2>7 DEF response_error
  <2>8. CASE clear_responses(k) BY <2>8 DEF clear_responses
  <2>9. CASE put_fences(k) BY <2>9 DEF put_fences
  <2> QED BY <2>1, <2>2, <2>3, <2>4, <2>5, <2>6, <2>7, <2>8, <2>9 DEF cmd_step
<1>3. CASE submit_signaler_and_waiter(k)
  <2> DEFINE a == IF g \in In[k] /\ ip = IpOf[k] THEN 1 ELSE 0
             b == IF <<g, ip>> \in wakelock_held[k] THEN 1 ELSE 0
  <2>1. /\ block_wakelock'[g][ip] = block_wakelock[g][ip] + a + b
        /\ outstanding_waiters'[g][ip] = outstanding_waiters[g][ip] + a
        /\ submitted_signalers'[g] = submitted_signalers[g] + (IF g \in Out[k] THEN 1 ELSE 0)
        /\ UNCHANGED signaled_signalers /\ pc[k] = "both"
    BY <1>3 DEF submit_signaler_and_waiter, Control, Types
  <2>2. <<g, ip>> \in wakelock_held[k] => g \in Out[k] BY DEF Control, Phase
  <2>3. (outstanding_signalers(g))' = outstanding_signalers(g) + (IF g \in Out[k] THEN 1 ELSE 0)
    BY <2>1, Naturals_ DEF outstanding_signalers
  <2>4. CASE g \in Out[k]
    <3>1. state[g] # "freed" BY <2>1, <2>4 DEF Counting, Life, live, Holding
    <3>2. (outstanding_signalers(g))' > 0 BY <2>3, <2>4, <3>1, Naturals_
    <3> QED BY <3>2 DEF Pended
  <2>5. CASE g \notin Out[k]
    <3>1. b = 0 /\ a \in {0, 1} BY <2>2, <2>5
    <3>2. block_wakelock'[g][ip] > outstanding_waiters'[g][ip] => block_wakelock[g][ip] > outstanding_waiters[g][ip]
      BY <2>1, <3>1, Naturals_
    <3>3. (outstanding_signalers(g))' = outstanding_signalers(g) BY <2>3, <2>5, Naturals_
    <3> QED BY <1>1, <1>2, <3>2, <3>3, PendedKept DEF work_vars
  <2> QED BY <2>4, <2>5
<1>4. CASE ~submit_signaler_and_waiter(k)
  <2>1. UNCHANGED fence_vars BY <1>4, CmdFences
  <2> QED BY <1>1, <1>2, <2>1, PendedKept DEF fence_vars, work_vars, outstanding_signalers
<1> QED BY <1>3, <1>4

\* The last signaler of those submitted, and a waiter that leaves, see to the release.
LEMMA SignalPended ==
  ASSUME Control, Control', Counting, Counting', Bools, NEW k \in Cmd, NEW f \in Fence, signal_step(k, f),
         OthersStay(k), NEW g \in Fence, NEW ip \in Ip, Locks(g, ip), Pended(g, ip)
  PROVE  Pended(g, ip)'
<1>1. ASSUME NEW j \in Cmd, j # k PROVE AboutTo(j, g)' <=> AboutTo(j, g)
  BY <1>1 DEF AboutTo, OthersStay
<1>2. \/ pc[k] \notin {"kick", "kick_waited"} \/ waited_work_kick(k, f) \/ waited_work_async(k, f)
  <2>1. CASE signal_reads(k, f) BY <2>1 DEF signal_reads
  <2>2. CASE signal_writes(k, f) BY <2>2 DEF signal_writes
  <2>3. CASE sync_status(k, f) BY <2>3 DEF sync_status
  <2>4. CASE inc_signaled_signalers(k, f) BY <2>4 DEF inc_signaled_signalers
  <2>5. CASE waited_work_kick(k, f) BY <2>5 DEF waited_work_kick
  <2>6. CASE waiter_completed(k, f) BY <2>6 DEF waiter_completed
  <2>7. CASE waiter_completed_async(k, f) BY <2>7 DEF waiter_completed_async
  <2>8. CASE waited_work_async(k, f) BY <2>8 DEF waited_work_async
  <2> QED BY <2>1, <2>2, <2>3, <2>4, <2>5, <2>6, <2>7, <2>8 DEF signal_step
<1>3. AboutTo(k, g) => g = f
  <2>1. CASE waited_work_kick(k, f) \/ waited_work_async(k, f)
    <3>1. f \in cur[k] /\ pc[k] \in {"kick", "kick_waited"}
      BY <2>1 DEF waited_work_kick, waited_work_async
    <3>2. \E e : cur[k] = {e} BY <3>1 DEF Control, Phase
    <3> QED BY <3>1, <3>2 DEF AboutTo
  <2> QED BY <1>2, <2>1 DEF AboutTo
<1>4. waited_work[g] => waited_work'[g]
  <2> USE DEF work_vars, Bools
  <2>1. CASE signal_reads(k, f) BY <2>1 DEF signal_reads
  <2>2. CASE signal_writes(k, f) BY <2>2 DEF signal_writes
  <2>3. CASE sync_status(k, f) BY <2>3 DEF sync_status
  <2>4. CASE inc_signaled_signalers(k, f) BY <2>4 DEF inc_signaled_signalers
  <2>5. CASE waited_work_kick(k, f) BY <2>5 DEF waited_work_kick
  <2>6. CASE waiter_completed(k, f) BY <2>6 DEF waiter_completed
  <2>7. CASE waiter_completed_async(k, f) BY <2>7 DEF waiter_completed_async
  <2>8. CASE waited_work_async(k, f) BY <2>8 DEF waited_work_async
  <2> QED BY <2>1, <2>2, <2>3, <2>4, <2>5, <2>6, <2>7, <2>8 DEF signal_step
<1>5. CASE g # f
  <2>1. Types BY DEF Control
  <2>2. /\ block_wakelock'[g] = block_wakelock[g] /\ outstanding_waiters'[g] = outstanding_waiters[g]
        /\ (outstanding_signalers(g))' = outstanding_signalers(g)
    BY <1>5, <2>1, SignalFences DEF outstanding_signalers
  <2> QED BY <1>1, <1>3, <1>4, <1>5, <2>2, PendedKept
<1>6. CASE g = f /\ inc_signaled_signalers(k, f)
  <2>1. /\ UNCHANGED <<submitted_signalers, outstanding_waiters, block_wakelock>>
        /\ signaled_signalers'[f] = signaled_signalers[f] + 1
        /\ pc[k] = "count" /\ f \in cur[k] /\ outstanding_signalers(f) > 0
    BY <1>6 DEF inc_signaled_signalers, count_signaler, signal_allowed, Control, Types
  <2>2. (outstanding_signalers(f))' = outstanding_signalers(f) - 1
    BY <2>1, Naturals_ DEF outstanding_signalers
  <2>3. CASE none_outstanding(f)
    <3>1. pc'[k] = "kick" /\ cur' = cur BY <1>6, <2>3 DEF inc_signaled_signalers, Control, Types
    <3> QED BY <1>6, <2>1, <3>1 DEF Pended, AboutTo
  <2>4. CASE ~none_outstanding(f)
    <3>1. outstanding_signalers(f) # 1 BY <2>4 DEF none_outstanding
    <3>2. (outstanding_signalers(f))' > 0 BY <2>1, <2>2, <3>1, Naturals_
    <3> QED BY <1>6, <3>2 DEF Pended
  <2> QED BY <2>3, <2>4
<1>7. CASE g = f /\ waited_work_kick(k, f)
  <2>1. CASE release_pended(f) BY <1>7, <2>1, ReleasePended DEF waited_work_kick
  <2>2. CASE waited_work' = [waited_work EXCEPT ![f] = TRUE]
    <3>1. waited_work'[f] BY <2>2 DEF Bools
    <3> QED BY <1>7, <3>1 DEF Pended
  <2> QED BY <1>7, <2>1, <2>2 DEF waited_work_kick
<1>8. CASE g = f /\ waited_work_async(k, f)
  <2>1. waited_work'[f] BY <1>8 DEF waited_work_async, Bools
  <2> QED BY <1>8, <2>1 DEF Pended
<1>9. CASE g = f /\ waiter_completed_async(k, f)
  <2>1. AboutTo(k, f)' BY <1>9 DEF waiter_completed_async, AboutTo, Control, Types
  <2> QED BY <1>9, <2>1 DEF Pended
<1>10. CASE g = f /\ waiter_completed(k, f)
  <2>1. /\ UNCHANGED <<submitted_signalers, signaled_signalers>>
        /\ pc[k] = "waited" /\ f \in todo[k] /\ remove_waiter(k, f) /\ IpOf[k] \in Ip
    BY <1>10, Constants DEF waiter_completed
  <2>2. outstanding_waiters'[f][ip] = IF ip = IpOf[k] THEN outstanding_waiters[f][ip] - 1
                                     ELSE outstanding_waiters[f][ip]
    BY <2>1 DEF remove_waiter, Control, Types
  <2>3. IF outstanding_signalers(f) = 0 /\ block_wakelock[f][IpOf[k]] > 0
        THEN block_wakelock'[f][ip] = IF ip = IpOf[k] THEN block_wakelock[f][ip] - 1 ELSE block_wakelock[f][ip]
        ELSE block_wakelock'[f][ip] = block_wakelock[f][ip]
    BY <1>10, <2>1 DEF waiter_completed, Control, Types
  <2>4. (outstanding_signalers(f))' = outstanding_signalers(f) BY <2>1 DEF outstanding_signalers
  <2>5. outstanding_waiters'[f][ip] \in Nat
    <3>1. Waiting(f, ip)' \subseteq Cmd BY DEF Waiting
    <3>2. Cardinality(Waiting(f, ip)') \in Nat BY <3>1, ConstAssumption, FS_Subset, FS_CardinalityType
    <3> QED BY <3>2 DEF Counting, Counts
  <2>6. CASE outstanding_signalers(f) > 0 BY <1>10, <2>4, <2>6 DEF Pended
  <2>7. CASE ~(outstanding_signalers(f) > 0)
    <3>1. state[f] # "freed"
      <4>1. f \in In[k] BY <2>1 DEF Control, Phase
      <4> QED BY <2>1, <4>1 DEF Counting, Life, live, Holding, Sent
    <3>2. outstanding_signalers(f) = 0 BY <2>7, <3>1, Naturals_
    <3>3. /\ outstanding_waiters[f][ip] \in Nat /\ block_wakelock[f][ip] \in Int
          /\ block_wakelock[f][ip] >= outstanding_waiters[f][ip]
      BY <1>10, Naturals_ DEF Locks
    <3>4. ip = IpOf[k] => block_wakelock[f][ip] > 0 BY <2>2, <2>5, <3>3
    <3>5. block_wakelock'[f][ip] > outstanding_waiters'[f][ip] => block_wakelock[f][ip] > outstanding_waiters[f][ip]
      BY <2>2, <2>3, <3>2, <3>3, <3>4
    <3>6. ~AboutTo(k, f) BY <2>1 DEF AboutTo
    <3> QED BY <1>1, <1>4, <1>10, <2>4, <3>5, <3>6, PendedKept
  <2> QED BY <2>6, <2>7
<1>11. CASE g = f /\ (signal_reads(k, f) \/ signal_writes(k, f) \/ sync_status(k, f))
  <2>1. UNCHANGED fence_vars /\ pc[k] \notin {"kick", "kick_waited"}
    BY <1>11 DEF signal_reads, signal_writes, sync_status
  <2> QED BY <1>1, <1>4, <2>1, PendedKept DEF AboutTo, fence_vars, outstanding_signalers
<1> QED BY <1>5, <1>6, <1>7, <1>8, <1>9, <1>10, <1>11 DEF signal_step

\* The part of the invariant on pended wakelocks is inductive.
LEMMA PendedNext ==
  ASSUME Control, Control', Counting, Counting', Bools, Wakelocks, Wakelocks', PendedWakelockReleased, Next
  PROVE  PendedWakelockReleased'
<1> SUFFICES ASSUME NEW g \in Fence, NEW ip \in Ip
             PROVE  block_wakelock'[g][ip] >= outstanding_waiters'[g][ip] /\ Pended(g, ip)'
  BY DEF PendedWakelockReleased, Pended, AboutTo
<1>1. block_wakelock'[g][ip] >= outstanding_waiters'[g][ip] BY DEF Wakelocks, Locks
<1>2. Locks(g, ip) BY DEF Wakelocks
<1>3. Pended(g, ip) BY DEF PendedWakelockReleased, Pended, AboutTo
<1>4. ASSUME NEW f \in Fence, fence_step(f) PROVE Pended(g, ip)' BY <1>2, <1>3, <1>4, FencePended
<1>5. ASSUME NEW k \in Cmd, cmd_step(k) PROVE Pended(g, ip)'
  <2>1. OthersStay(k) BY <1>5, CmdOthers DEF Control
  <2> QED BY <1>3, <1>5, <2>1, CmdPended
<1>6. ASSUME NEW k \in Cmd, NEW f \in Fence, signal_step(k, f) PROVE Pended(g, ip)'
  <2>1. OthersStay(k) BY <1>6, SignalOthers DEF Control
  <2> QED BY <1>2, <1>3, <1>6, <2>1, SignalPended
<1> QED BY <1>1, <1>4, <1>5, <1>6 DEF Next

\* A callback is listed only on a blocked fence, and called when the fence is unblocked or polling is
\* enabled again.
LEMMA PollNext ==
  ASSUME Types, Bools, PollNotLost, Next
  PROVE  PollNotLost'
<1> SUFFICES ASSUME NEW g \in Fence, poll_cb'[g] = "listed", signaled'[g] PROVE disable_poll'[g]
  BY DEF PollNotLost
<1>1. poll_cb[g] = "listed" /\ signaled[g] => disable_poll[g] BY DEF PollNotLost
<1>2. ASSUME UNCHANGED <<poll_cb, signaled, disable_poll>> PROVE disable_poll'[g] BY <1>1, <1>2
<1>3. ASSUME NEW f \in Fence, fence_step(f) PROVE disable_poll'[g]
  <2>1. CASE dma_iif_fence_bridge(f)
    <3>1. UNCHANGED <<signaled, disable_poll>> BY <2>1 DEF dma_iif_fence_bridge, status_vars
    <3>2. CASE g = f
      <4>1. ~poll_refused(f) BY <2>1, <3>2 DEF dma_iif_fence_bridge, Types
      <4> QED BY <3>1, <3>2, <4>1 DEF poll_refused
    <3>3. CASE g # f
      <4>1. poll_cb'[g] = poll_cb[g] BY <2>1, <3>3 DEF dma_iif_fence_bridge, Types
      <4> QED BY <1>1, <3>1, <4>1
    <3> QED BY <3>2, <3>3
  <2>2. CASE dma_iif_fence_release_work(f)
    <3>1. UNCHANGED <<signaled, disable_poll>> BY <2>2 DEF dma_iif_fence_release_work, status_vars
    <3>2. poll_cb'[g] = poll_cb[g] BY <2>2 DEF dma_iif_fence_release_work, Types
    <3> QED BY <1>1, <3>1, <3>2
  <2>3. CASE iif_fence_set_flags(f)
    <3>1. UNCHANGED signaled BY <2>3 DEF iif_fence_set_flags
    <3>2. CASE g = f
      <4>1. poll_cb'[f] = notify_poll_cb(f, signaled[f], ~disable_poll[f])
        BY <2>3 DEF iif_fence_set_flags, Types
      <4>2. ~(poll_cb[f] = "listed" /\ signaled[f] /\ ~~disable_poll[f]) /\ poll_cb[f] = "listed"
        BY <3>2, <4>1 DEF notify_poll_cb
      <4>3. disable_poll'[f] = ~disable_poll[f] BY <2>3 DEF iif_fence_set_flags, Bools
      <4> QED BY <3>1, <3>2, <4>2, <4>3
    <3>3. CASE g # f
      <4>1. poll_cb'[g] = poll_cb[g] BY <2>3, <3>3 DEF iif_fence_set_flags, Types
      <4>2. disable_poll'[g] = disable_poll[g] BY <2>3, <3>3 DEF iif_fence_set_flags, Bools
      <4> QED BY <1>1, <3>1, <4>1, <4>2
    <3> QED BY <3>2, <3>3
  <2>4. CASE iif_fence_do_destroy(f)
    <3>1. UNCHANGED <<poll_cb, disable_poll>> BY <2>4 DEF iif_fence_do_destroy, user_vars
    <3>2. poll_cb[f] # "listed" BY <2>4 DEF iif_fence_do_destroy, refs
    <3>3. g # f BY <3>1, <3>2
    <3>4. \/ signaled' = signaled \/ signaled' = [signaled EXCEPT ![f] = TRUE]
      BY <2>4 DEF iif_fence_do_destroy
    <3>5. signaled'[g] = signaled[g] BY <3>3, <3>4 DEF Bools
    <3> QED BY <1>1, <3>1, <3>5
  <2>5. CASE UNCHANGED <<poll_cb, signaled, disable_poll>> BY <1>2, <2>5
  <2> QED BY <1>3, <2>1, <2>2, <2>3, <2>4, <2>5 DEF fence_step, gcip_fence_create_iif, iif_sync_file_release,
    iif_fence_on_sync_file_release, signaled_work_func, waited_work_func, status_vars, user_vars
<1>4. ASSUME NEW k \in Cmd, cmd_step(k) PROVE disable_poll'[g]
  <2>1. UNCHANGED <<poll_cb, signaled, disable_poll>>
    <3> USE <1>4 DEF status_vars, user_vars
    <3>1. CASE acquire_block_wakelock(k) BY <3>1 DEF acquire_block_wakelock
    <3>2. CASE acquire_block_wakelock_of_waiters(k) BY <3>2 DEF acquire_block_wakelock_of_waiters
    <3>3. CASE submit_signaler_and_waiter(k) BY <3>3 DEF submit_signaler_and_waiter
    <3>4. CASE submit_refused(k) BY <3>4 DEF submit_refused
    <3>5. CASE firmware_processes(k) BY <3>5 DEF firmware_processes
    <3>6. CASE response_arrived(k) BY <3>6 DEF response_arrived
    <3>7. CASE response_error(k) BY <3>7 DEF response_error
    <3>8. CASE clear_responses(k) BY <3>8 DEF clear_responses
    <3>9. CASE put_fences(k) BY <3>9 DEF put_fences
    <3> QED BY <3>1, <3>2, <3>3, <3>4, <3>5, <3>6, <3>7, <3>8, <3>9 DEF cmd_step
  <2> QED BY <1>2, <2>1
<1>5. ASSUME NEW k \in Cmd, NEW f \in Fence, signal_step(k, f) PROVE disable_poll'[g]
  <2>1. CASE sync_status(k, f)
    <3> DEFINE unblocks == remaining_signals[f] = 0 /\ ~signaled[f]
    <3>1. UNCHANGED disable_poll BY <2>1 DEF sync_status
    <3>2. CASE g = f
      <4>1. poll_cb'[f] = notify_poll_cb(f, unblocks, disable_poll[f]) BY <2>1 DEF sync_status, Types
      <4>2. ~(poll_cb[f] = "listed" /\ unblocks /\ ~disable_poll[f]) /\ poll_cb[f] = "listed"
        BY <3>2, <4>1 DEF notify_poll_cb
      <4>3. signaled[f] \/ unblocks BY <2>1, <3>2 DEF sync_status, Bools
      <4> QED BY <1>1, <3>1, <3>2, <4>2, <4>3
    <3>3. CASE g # f
      <4>1. poll_cb'[g] = poll_cb[g] BY <2>1, <3>3 DEF sync_status, Types
      <4>2. signaled'[g] = signaled[g] BY <2>1, <3>3 DEF sync_status, Bools
      <4> QED BY <1>1, <3>1, <4>1, <4>2
    <3> QED BY <3>2, <3>3
  <2>2. CASE ~sync_status(k, f)
    <3>1. UNCHANGED <<poll_cb, signaled, disable_poll>>
      <4> USE <1>5, <2>2 DEF status_vars, user_vars
      <4>1. CASE signal_reads(k, f) BY <4>1 DEF signal_reads
      <4>2. CASE signal_writes(k, f) BY <4>2 DEF signal_writes
      <4>3. CASE sync_status(k, f) BY <4>3 DEF sync_status
      <4>4. CASE inc_signaled_signalers(k, f) BY <4>4 DEF inc_signaled_signalers
      <4>5. CASE waited_work_kick(k, f) BY <4>5 DEF waited_work_kick
      <4>6. CASE waiter_completed(k, f) BY <4>6 DEF waiter_completed
      <4>7. CASE waiter_completed_async(k, f) BY <4>7 DEF waiter_completed_async
      <4>8. CASE waited_work_async(k, f) BY <4>8 DEF waited_work_async
      <4> QED BY <4>1, <4>2, <4>3, <4>4, <4>5, <4>6, <4>7, <4>8 DEF signal_step
    <3> QED BY <1>2, <3>1
  <2> QED BY <2>1, <2>2
<1> QED BY <1>3, <1>4, <1>5 DEF Next

-----------------------------------------------------------------------------
(* The invariant                                                            *)

\* The initial state: no fence, no command, the table full.
LEMMA InitInv == Init => IInv
<1> SUFFICES ASSUME Init PROVE IInv OBVIOUS
<1>1. Types BY InitTypes
<1>2. \A k \in Cmd : /\ pc[k] = "idle" /\ todo[k] = {} /\ cur[k] = {} /\ wakelock_held[k] = {}
                      /\ answer[k] = "none" /\ ~processed[k]
  BY DEF Init
<1>3. Bools BY DEF Init, Bools
<1>4. Control
  <2>1. \A k \in Cmd : Phase(k) BY <1>2 DEF Phase, Signalling
  <2>2. Exclusive BY <1>2 DEF Exclusive
  <2> QED BY <1>1, <2>1, <2>2 DEF Control
<1>5. ASSUME NEW f \in Fence
      PROVE  /\ Submitted(f) = {} /\ Pending(f) = {} /\ Written(f) = {} /\ Synced(f) = {} /\ Processed(f) = {}
             /\ \A ip \in Ip : Waiting(f, ip) = {}
  <2>1. Submitted(f) = {} /\ Pending(f) = {} /\ \A ip \in Ip : Waiting(f, ip) = {}
    BY <1>2 DEF Submitted, Pending, Waiting, Owes, Abandoned, Awaits, Signalling, Sent
  <2>2. Written(f) = {} /\ Synced(f) = {} /\ Processed(f) = {}
    BY <1>2 DEF Written, Synced, Past, Processed, Answered
  <2> QED BY <2>1, <2>2
<1>6. Cardinality({}) = 0 BY FS_EmptySet
<1>7. \A f \in Fence : Total[f] \in Nat \ {0} BY ConstAssumption
<1>8. Counting
  <2> SUFFICES ASSUME NEW f \in Fence PROVE Life(f) /\ Counts(f) /\ Settled(f) BY DEF Counting
  <2>1. Life(f) BY <1>2 DEF Life, Init, live, Holding, Sent
  <2>2. /\ submitted_signalers[f] = 0 /\ signaled_signalers[f] = 0 /\ state[f] = "none"
        /\ \A ip \in Ip : outstanding_waiters[f][ip] = 0
    BY DEF Init
  <2>3. /\ Cardinality(Submitted(f)) = 0 /\ Cardinality(Pending(f)) = 0
        /\ \A ip \in Ip : Cardinality(Waiting(f, ip)) = 0
    BY <1>5, <1>6
  <2>4. Counts(f) BY <1>7, <2>2, <2>3 DEF Counts
  <2> QED BY <2>1, <2>2, <2>4 DEF Settled
<1>9. Signals
  <2>1. \A k \in Cmd : Told(k) BY <1>2 DEF Told
  <2>2. ASSUME NEW f \in Fence PROVE Table(f)
    <3>1. remaining_signals[f] = Total[f] /\ \A k \in Cmd : pc[k] # "write" BY <1>2 DEF Init
    <3> QED BY <1>5, <1>6, <1>7, <3>1 DEF Table
  <2> QED BY <1>3, <2>1, <2>2 DEF Signals
<1>10. PollNotLost BY DEF PollNotLost, Init
<1>11. \A f \in Fence, ip \in Ip : block_wakelock[f][ip] = 0 /\ outstanding_waiters[f][ip] = 0 BY DEF Init
<1>12. Wakelocks
  <2>1. ASSUME NEW ip \in Ip PROVE block[ip] = Cardinality(Recorded(ip)) + Cardinality(InHand(ip))
    <3>1. block[ip] = 0 BY DEF Init
    <3>2. InHand(ip) = {}
      <4> SUFFICES ASSUME NEW p \in InHand(ip) PROVE FALSE OBVIOUS
      <4>1. p[1] \in Cmd /\ (pc[p[1]] \in {"in", "both"} \/ wakelock_held[p[1]] # {}) BY DEF InHand
      <4> QED BY <1>2, <4>1
    <3>3. Recorded(ip) = {}
      <4> SUFFICES ASSUME NEW p \in Recorded(ip) PROVE FALSE OBVIOUS
      <4>1. PICK f \in Fence : p \in {f} \X (1 .. block_wakelock[f][ip]) BY DEF Recorded
      <4>2. block_wakelock[f][ip] = 0 BY <1>11
      <4>3. 1 .. 0 = {} OBVIOUS
      <4> QED BY <4>1, <4>2, <4>3
    <3> QED BY <1>6, <3>1, <3>2, <3>3
  <2>2. ASSUME NEW f \in Fence, NEW ip \in Ip PROVE Locks(f, ip)
    <3>1. outstanding_signalers(f) = 0 BY DEF Init, outstanding_signalers
    <3> QED BY <1>11, <3>1 DEF Locks
  <2>3. \A k \in Cmd, f \in Fence : Covered(k, f) BY <1>2 DEF Covered
  <2> QED BY <2>1, <2>2, <2>3 DEF Wakelocks, WakelocksAccounted
<1>13. PendedWakelockReleased BY <1>11 DEF PendedWakelockReleased
<1> QED BY <1>4, <1>8, <1>9, <1>10, <1>12, <1>13 DEF IInv

\* A step keeps the invariant.
LEMMA NextInv == ASSUME IInv, [Next]_vars PROVE IInv'
<1>1. CASE Next
  <2>1. Control /\ Counting /\ Signals /\ PollNotLost /\ Wakelocks /\ PendedWakelockReleased BY DEF IInv
  <2>2. Bools /\ \A f \in Fence : Table(f) BY <2>1 DEF Signals
  <2>3. Control' BY <1>1, <2>1, <2>2, ControlNext
  <2>4. Counting' BY <1>1, <2>1, <2>2, <2>3, CountingNext
  <2>5. Signals' BY <1>1, <2>1, <2>3, <2>4, SignalsNext
  <2>6. PollNotLost' BY <1>1, <2>1, <2>2, PollNext DEF Control
  <2>7. Wakelocks' BY <1>1, <2>1, <2>2, <2>3, <2>4, WakelocksNext
  <2>8. PendedWakelockReleased' BY <1>1, <2>1, <2>2, <2>3, <2>4, <2>7, PendedNext
  <2> QED BY <2>3, <2>4, <2>5, <2>6, <2>7, <2>8 DEF IInv
<1>2. CASE UNCHANGED vars
  <2> USE <1>2 DEF vars, fence_vars, status_vars, work_vars, table_vars, user_vars, cmd_vars
  <2>1. Control' = Control
    BY DEF Control, Types, Exclusive, Phase
  <2>2. Counting' = Counting
    BY DEF Counting, Life, live, Counts, Settled, Submitted, Pending, Waiting, Owes, Abandoned, Awaits
  <2>3. Signals' = Signals
    BY DEF Signals, Bools, Told, Table, Written, Synced, Past, Processed
  <2>4. PollNotLost' = PollNotLost BY DEF PollNotLost
  <2>5. Wakelocks' = Wakelocks
    BY DEF Wakelocks, WakelocksAccounted, Recorded, InHand, Locks, Covered, outstanding_signalers,
           unsubmitted_signalers
  <2>6. PendedWakelockReleased' = PendedWakelockReleased
    BY DEF PendedWakelockReleased, outstanding_signalers
  <2> QED BY <2>1, <2>2, <2>3, <2>4, <2>5, <2>6 DEF IInv
<1> QED BY <1>1, <1>2

\* The invariant that all the theorems on IIF fences follow from holds in every reachable state.
THEOREM Invariance == Spec => []IInv
<1>1. Init => IInv BY InitInv
<1>2. IInv /\ [Next]_vars => IInv' BY NextInv
<1> QED BY <1>1, <1>2, PTL DEF Spec

\* Types are kept and no count of a fence leaves its range: submitted_signalers and signaled_signalers
\* stay within the total, the table is never decremented below zero by firmware and kernel together, and no
\* wakelock is released that is not held.
THEOREM TypeCorrect == Spec => []TypeOK
<1>1. IInv => TypeOK
  <2> SUFFICES ASSUME IInv PROVE TypeOK OBVIOUS
  <2>1. Control /\ Counting /\ Signals /\ Wakelocks /\ Types /\ Bools BY DEF IInv, Control, Signals
  <2>2. ASSUME NEW f \in Fence
        PROVE  /\ submitted_signalers[f] \in 0 .. Total[f] /\ signaled_signalers[f] \in 0 .. Total[f]
               /\ remaining_signals[f] \in 0 .. Total[f]
    <3>1. Counts(f) /\ Table(f) /\ \A k \in Cmd : Told(k) BY <2>1 DEF Counting, Signals
    <3>2. Cardinality(Written(f)) \in Nat /\ Total[f] \in Nat BY <2>1, <3>1, SignalsFinite
    <3>3. Submitted(f) \subseteq Cmd /\ Pending(f) \subseteq Cmd BY DEF Submitted, Pending
    <3>4. Cardinality(Submitted(f)) \in Nat /\ Cardinality(Pending(f)) \in Nat
      BY <3>3, ConstAssumption, FS_Subset, FS_CardinalityType
    <3>5. Cardinality(Pending(f)) <= Cardinality(Submitted(f)) BY <2>1, PendingSubmitted
    <3>6. submitted_signalers[f] \in 0 .. Total[f] BY <3>1, <3>2, <3>4 DEF Counts
    <3>7. signaled_signalers[f] \in 0 .. Total[f]
      <4>1. CASE state[f] = "freed" BY <3>1, <3>2, <4>1 DEF Counts
      <4>2. CASE state[f] # "freed" BY <3>1, <3>2, <3>4, <3>5, <4>2 DEF Counts
      <4> QED BY <4>1, <4>2
    <3>8. remaining_signals[f] \in Nat BY <2>1 DEF Types
    <3>9. remaining_signals[f] \in 0 .. Total[f] BY <3>1, <3>2, <3>8 DEF Table
    <3> QED BY <3>6, <3>7, <3>9
  <2>3. ASSUME NEW f \in Fence, NEW ip \in Ip
        PROVE  outstanding_waiters[f][ip] \in Nat /\ block_wakelock[f][ip] \in Nat
    <3>1. outstanding_waiters[f][ip] \in Nat /\ block_wakelock[f][ip] \in Int BY <2>1, Naturals_
    <3>2. block_wakelock[f][ip] >= outstanding_waiters[f][ip] BY <2>1 DEF Wakelocks, Locks
    <3> QED BY <3>1, <3>2
  <2>4. outstanding_waiters \in [Fence -> [Ip -> Nat]] /\ block_wakelock \in [Fence -> [Ip -> Nat]]
    BY <2>1, <2>3 DEF Types
  <2>5. ASSUME NEW ip \in Ip PROVE block[ip] \in Nat
    <3> DEFINE b == [f \in Fence |-> block_wakelock[f][ip]]
    <3>1. b \in [Fence -> Nat] /\ Recorded(ip) = Tokens(b) BY <2>3 DEF Recorded, Tokens
    <3> HIDE DEF b
    <3>2. Cardinality(Recorded(ip)) \in Nat BY <3>1, TokensFinite
    <3>3. Cardinality(InHand(ip)) \in Nat
      <4>1. InHand(ip) \subseteq Cmd \X Fence BY DEF InHand
      <4>2. IsFiniteSet(Cmd \X Fence) BY ConstAssumption, FS_Product
      <4> QED BY <4>1, <4>2, FS_Subset, FS_CardinalityType
    <3>4. block[ip] = Cardinality(Recorded(ip)) + Cardinality(InHand(ip))
      BY <2>1 DEF Wakelocks, WakelocksAccounted
    <3> QED BY <3>2, <3>3, <3>4
  <2>6. block \in [Ip -> Nat] BY <2>1, <2>5 DEF Types
  <2>7. /\ state \in [Fence -> {"none", "initialized", "retired", "freed"}]
        /\ params_waiters \in [Fence -> SUBSET Ip]
        /\ file \in [Fence -> {"none", "open", "closing", "closed"}]
        /\ poll_cb \in [Fence -> {"none", "listed", "notified", "refused", "gone"}]
        /\ pc \in [Cmd -> Holding \cup {"idle", "done"}]
        /\ todo \in [Cmd -> SUBSET Fence] /\ cur \in [Cmd -> SUBSET Fence]
        /\ seen \in [Cmd -> Nat]
        /\ wakelock_held \in [Cmd -> SUBSET (Fence \X Ip)]
        /\ answer \in [Cmd -> {"none", "firmware", "driver", "nobody"}]
    BY <2>1 DEF Types, Answered
  <2> QED BY <2>1, <2>2, <2>4, <2>6, <2>7 DEF TypeOK, Bools
<1> QED BY <1>1, Invariance, PTL

\* Neither section of a signal ever refuses a driver: whatever other threads do between the sections, a
\* command that owes a signal finds the fence with an outstanding signaler and not signalled by all.
THEOREM SignalsAccepted == Spec => []SignalAccepted
<1>1. IInv => SignalAccepted
  <2> SUFFICES ASSUME IInv, NEW k \in Cmd, NEW f \in Fence, Owes(k, f) PROVE signal_allowed(f)
    BY DEF SignalAccepted
  <2>1. Control /\ Counting /\ Counts(f) /\ Life(f) BY DEF IInv, Counting
  <2>2. state[f] # "freed" BY <2>1 DEF Owes, Signalling, Life, live, Holding, Sent
  <2>3. k \in Pending(f) /\ Pending(f) \subseteq Cmd BY DEF Pending
  <2>4. IsFiniteSet(Pending(f)) BY <2>3, ConstAssumption, FS_Subset
  <2>5. Cardinality(Pending(f)) \in Nat /\ Cardinality(Pending(f)) # 0
    BY <2>3, <2>4, FS_CardinalityType, FS_EmptySet
  <2>6. /\ submitted_signalers[f] \in Int /\ signaled_signalers[f] \in Int /\ Total[f] \in Int
    BY <2>1, ConstAssumption DEF Control, Types
  <2> QED BY <2>1, <2>2, <2>5, <2>6
          DEF Counts, signal_allowed, all_signalers_signaled, outstanding_signalers
<1> QED BY <1>1, Invariance, PTL

\* The counts that decide when a fence retires are exactly the commands in flight and the abandoned ones.
THEOREM CountsAreExact == Spec => []CountsExact
<1>1. IInv => CountsExact
  <2> SUFFICES ASSUME IInv, NEW f \in Fence, state[f] # "freed"
               PROVE  /\ outstanding_signalers(f) = Cardinality(Pending(f))
                      /\ \A ip \in Ip : outstanding_waiters[f][ip] = Cardinality(Waiting(f, ip))
    BY DEF CountsExact, Pending, Waiting
  <2>1. Control /\ Counts(f) BY DEF IInv, Counting
  <2>2. submitted_signalers[f] \in Int BY <2>1 DEF Control, Types
  <2>3. Cardinality(Pending(f)) \in Nat
    <3>1. Pending(f) \subseteq Cmd BY DEF Pending
    <3> QED BY <3>1, ConstAssumption, FS_Subset, FS_CardinalityType
  <2> QED BY <2>1, <2>2, <2>3 DEF Counts, outstanding_signalers
<1> QED BY <1>1, Invariance, PTL

\* The ID of a fence returns to the pool only when no file, no signaler and no waiter of it is left.
THEOREM RetiredSettled == Spec => []RetiredIsSettled
<1>1. IInv => RetiredIsSettled BY DEF IInv, Counting, Life, Settled, RetiredIsSettled
<1> QED BY <1>1, Invariance, PTL

\* An IP is powered exactly once for each wakelock recorded in a fence or in the hand of a submission: no
\* path, refused submissions and the destruction of a fence included, leaks one or releases one twice.
THEOREM WakelocksConserved == Spec => []WakelocksAccounted
<1>1. IInv => WakelocksAccounted BY DEF IInv, Wakelocks
<1> QED BY <1>1, Invariance, PTL

\* While a signaler is outstanding the block of every registered waiter IP is held, though submissions read
\* params.waiters without the lock.
THEOREM BlockHeld == Spec => []BlockHeldForSignaler
<1>1. IInv => BlockHeldForSignaler BY DEF IInv, Wakelocks, Locks, BlockHeldForSignaler
<1> QED BY <1>1, Invariance, PTL

\* A fence counted as signalled by all is unblocked, although firmware and kernel decrement the table
\* without a common lock.
THEOREM AllSignaledIsUnblocked == Spec => []AllSignaledUnblocks
<1>1. IInv => AllSignaledUnblocks
  <2> SUFFICES ASSUME IInv, NEW f \in Fence, all_signalers_signaled(f) PROVE signaled[f]
    BY DEF AllSignaledUnblocks
  <2>1. Control /\ Counts(f) /\ Table(f) BY DEF IInv, Counting, Signals
  <2> QED BY <2>1, AllCounted
<1> QED BY <1>1, Invariance, PTL

\* A poll callback stays listed on an unblocked fence only while polling is disabled.
THEOREM NoLostPoll == Spec => []PollNotLost
<1>1. IInv => PollNotLost BY DEF IInv
<1> QED BY <1>1, Invariance, PTL

\* Once no signaler is outstanding, a wakelock without a waiter has somebody who will release it.
THEOREM PendedReleased == Spec => []PendedWakelockReleased
<1>1. IInv => PendedWakelockReleased BY DEF IInv
<1> QED BY <1>1, Invariance, PTL

=============================================================================
