------------------------- MODULE EdgetpuIkv_proofs -------------------------
(* Theorems about the commands of in-kernel VII, for any finite set of     *)
(* groups, commands and sequence numbers.                                  *)
EXTENDS EdgetpuIkv, FiniteSetTheorems, WellFoundedInduction, TLAPS

PcStates == Threading \cup {"idle", "sent", "failed", "answered", "abandoned"}
TimerStates == TimerRuns \cup {"none", "armed", "done"}
FwStates == Handling \cup {"none", "exec", "queued", "fetched", "done", "lost"}
ListStates == {"none", "pending", "canceling", "canceled", "clearing", "cleared", "ready",
               "released"}

\* The types of what the arguments below are about; the bounds of refs and
\* credits are results, not types.
Types ==
    /\ pc \in [Cmd -> PcStates]
    /\ resp_seq \in [Cmd -> Nat]
    /\ wait_list \subseteq Cmd /\ pos \in [Cmd -> Nat] /\ pushes \in Nat
    /\ refs \in [Cmd -> Int]
    /\ timer \in [Cmd -> TimerStates]
    /\ fw \in [Cmd -> FwStates]
    /\ list \in [Cmd -> ListStates]
    /\ processed \subseteq Cmd
    /\ signalled \in [Cmd -> Nat]

\* How far the sender is bounds what time-out, wait list, firmware and group
\* can know of a command.
Phase(c) ==
    /\ pc[c] \in {"idle", "fence", "abandoned"} => timer[c] = "none"
    /\ timer[c] \in TimerRuns => pc[c] \in Sending \cup {"sent"}
    /\ PromptEnqueue /\ timer[c] \in TimerRuns => pc[c] \in {"pushed", "sent"}
    /\ timer[c] \in {"removed", "signal"} => pc[c] \in {"pushed", "sent"}
    /\ timer[c] = "armed" => pc[c] \in Sending \cup {"sent"}
    /\ c \in wait_list => pc[c] \in {"pushed", "sent"} /\ fw[c] \notin Handling
    /\ pc[c] # "sent" => fw[c] = "none"
    /\ resp_seq[c] \in {0, SeqOf[c]}
    /\ pc[c] \in {"queued", "pending", "pushed", "sent"} => resp_seq[c] = SeqOf[c]
    /\ list[c] # "none" => pc[c] \in {"pending", "pushed", "sent", "errsignal", "answered"}
    /\ c \in processed <=> list[c] \notin {"none", "pending"}

\* The references of one command.
RefsExact(c) == refs[c] = B(DriverHolds(c)) + B(ArrivalHolds(c)) + B(TimeoutHolds(c))

\* The signals given for a command and those that somebody is committed to give.
Tokens(c) ==
    signalled[c] + B(timer[c] = "signal") + B(fw[c] = "signal") + B(pc[c] = "errsignal")
        + B(list[c] \in {"canceling", "canceled"})
OneToken(c) == Tokens(c) <= 1 /\ (c \notin processed => Tokens(c) = 0)

IInv == Types /\ \A c \in Cmd : Phase(c) /\ RefsExact(c) /\ OneToken(c)

\* The runtimes of all clients use distinct numbers.
DistinctNumbers == \A c, d \in Cmd : SeqOf[c] = SeqOf[d] => c = d

\* Clients do not share numbers, or no time-out expires before its command is in the
\* wait list: a time-out that does both takes another client's entry and completes a
\* command that is still being sent.
Separated == PromptEnqueue \/ DistinctNumbers

-----------------------------------------------------------------------------
\* gcip_mailbox_del_wait_resp takes an entry with the number it looks for, if there is one.
LEMMA FirstMatchFound ==
    ASSUME Types, NEW c \in Cmd, SameSeq(c) # {}
    PROVE  FirstMatch(c) \in wait_list /\ resp_seq[FirstMatch(c)] = resp_seq[c]
<1> DEFINE P == {pos[d] : d \in SameSeq(c)}
<1>1. P \subseteq Nat /\ P # {} BY DEF Types, SameSeq
<1>2. PICK x \in P : \A y \in P : ~ (<<y, x>> \in OpToRel(<, Nat))
  BY <1>1, NatLessThanWellFounded, WFMin
<1>3. ASSUME NEW y \in P PROVE x <= y
  <2>1. x \in Nat /\ y \in Nat BY <1>1
  <2>2. y < x => <<y, x>> \in OpToRel(<, Nat) BY <2>1, Zenon DEF OpToRel
  <2>3. ~ (y < x)
    <3>1. ~ (<<y, x>> \in OpToRel(<, Nat)) BY <1>2, Zenon
    <3> QED BY <3>1, <2>2, Zenon
  <2> QED BY <2>1, <2>3
<1>4. PICK d \in SameSeq(c) : x = pos[d] OBVIOUS
<1>5. \A e \in SameSeq(c) : pos[d] <= pos[e] BY <1>3, <1>4
<1>6. FirstMatch(c) \in SameSeq(c) BY <1>4, <1>5 DEF FirstMatch
<1> QED BY <1>6 DEF SameSeq

\* A group that sends its first command.
LEMMA InitIInv == Init => IInv
<1> SUFFICES ASSUME Init PROVE IInv OBVIOUS
<1>1. Types BY SeqAssumption DEF Init, Types, PcStates, TimerStates, FwStates, ListStates
<1>2. ASSUME NEW c \in Cmd PROVE Phase(c) /\ RefsExact(c) /\ OneToken(c)
  BY DEF Init, Phase, RefsExact, OneToken, Tokens, B, DriverHolds, ArrivalHolds, TimeoutHolds,
         TimerRuns, Handling, Sending, HasAwaiter
<1> QED BY <1>1, <1>2 DEF IInv

-----------------------------------------------------------------------------
(* One lemma for each process; one step for each action.                   *)

\* The sender keeps the invariant.
LEMMA SendIInv ==
    ASSUME IInv, NEW c \in Cmd, IssueStep(c) \/ SendStep(c)
    PROVE  IInv'
<1> USE DEF IInv, Types, Phase, RefsExact, OneToken, Tokens, B, DriverHolds, ArrivalHolds,
            TimeoutHolds, TimerRuns, Handling, Sending, HasAwaiter, Threading, PcStates,
            TimerStates, FwStates, ListStates, sender, waiting, response, driver, groups
<1>1. ASSUME NEW timed \in Timed, send_vii_command(c, timed) PROVE IInv'
  BY <1>1 DEF send_vii_command, put_cmd_flags, send_allowed
<1>2. CASE send_vii_command_fenced(c) BY <1>2 DEF send_vii_command_fenced, send_allowed
<1>3. ASSUME NEW timed \in Timed, fence_signalled(c, timed) PROVE IInv'
  BY <1>3 DEF fence_signalled, put_cmd_flags
<1>4. CASE fence_error(c) BY <1>4 DEF fence_error, build_awaiter_for_error_resp
<1>5. CASE fence_stopped(c) BY <1>5 DEF fence_stopped
<1>6. CASE enqueue_room(c)
  <2>1. SeqOf[c] \in Nat BY SeqAssumption
  <2> QED BY <1>6, <2>1 DEF enqueue_room, set_resp_elem_seq
<1>7. CASE enqueue_full(c) BY <1>7 DEF enqueue_full
<1>8. CASE before_enqueue_wait_list(c) BY <1>8 DEF before_enqueue_wait_list
<1>9. CASE before_enqueue_fails(c) BY <1>9 DEF before_enqueue_fails
<1>10. CASE push_wait_resp(c) BY <1>10 DEF push_wait_resp
<1>11. CASE enqueue_cmd(c)
  <2>1. CASE crash = "no" BY <1>11, <2>1 DEF enqueue_cmd
  <2>2. CASE crash # "no" BY <1>11, <2>2 DEF enqueue_cmd
  <2> QED BY <2>1, <2>2
<1>12. CASE put_cmd_error(c) BY <1>12 DEF put_cmd_error, cancel_waits
<1>13. CASE put_cmd_error_threaded(c)
  BY <1>13 DEF put_cmd_error_threaded, cancel_waits, build_awaiter_for_error_resp
<1>14. CASE send_error_resp(c)
  <2>1. c \notin processed BY <1>14 DEF send_error_resp
  <2>2. pc' = [pc EXCEPT ![c] = "errsignal"] /\ process_response(c)
    BY <1>14, <2>1 DEF send_error_resp, already_processed
  <2> QED BY <1>14, <2>1, <2>2 DEF send_error_resp, process_response
<1>15. CASE signal_error_resp(c) BY <1>15 DEF signal_error_resp, signal_response_waiters
<1> QED
  BY <1>1, <1>2, <1>3, <1>4, <1>5, <1>6, <1>7, <1>8, <1>9, <1>10, <1>11, <1>12, <1>13, <1>14, <1>15
  DEF IssueStep, SendStep

\* The time-out work keeps the invariant.
LEMMA TimeoutIInv ==
    ASSUME IInv, Separated, NEW c \in Cmd, TimeoutStep(c)
    PROVE  IInv'
<1> USE DEF IInv, Types, Phase, RefsExact, OneToken, Tokens, B, DriverHolds, ArrivalHolds,
            TimeoutHolds, TimerRuns, Handling, Sending, HasAwaiter, Threading, PcStates,
            TimerStates, FwStates, ListStates, sender, waiting, response, driver, groups
<1>1. CASE timeout_fires(c)
  BY <1>1 DEF timeout_fires
<1>2. CASE timeout_removes(c)
  <2>1. FirstMatch(c) \in wait_list /\ resp_seq[FirstMatch(c)] = resp_seq[c]
    BY <1>2, FirstMatchFound DEF timeout_removes, del_wait_resp
  <2>2. pc[c] \in {"pushed", "sent"}
    <3>1. CASE PromptEnqueue BY <1>2, <3>1 DEF timeout_removes
    <3>2. CASE DistinctNumbers
      <4>1. FirstMatch(c) = c BY <2>1, <3>2, SeqAssumption DEF DistinctNumbers
      <4> QED BY <2>1, <4>1
    <3> QED BY <3>1, <3>2 DEF Separated
  <2> QED
    BY <1>2, <2>1, <2>2 DEF timeout_removes, del_wait_resp, awaiter_dec_refs, after_removal
<1>3. CASE timeout_too_late(c)
  BY <1>3 DEF timeout_too_late
<1>4. CASE handle_awaiter_timedout(c)
  BY <1>4 DEF handle_awaiter_timedout, already_processed, process_response
<1>5. CASE timedout_already_processed(c)
  BY <1>5 DEF timedout_already_processed
<1>6. CASE timedout_signals(c)
  BY <1>6 DEF timedout_signals, signal_response_waiters
<1>7. CASE timeout_exit(c)
  BY <1>7 DEF timeout_exit, awaiter_dec_refs
<1> QED BY <1>1, <1>2, <1>3, <1>4, <1>5, <1>6, <1>7 DEF TimeoutStep

\* A consumer of the response queue keeps the invariant.
LEMMA ResponseIInv ==
    ASSUME IInv, NEW c \in Cmd, ResponseStep(c)
    PROVE  IInv'
<1> USE DEF IInv, Types, Phase, RefsExact, OneToken, Tokens, B, DriverHolds, ArrivalHolds,
            TimeoutHolds, TimerRuns, Handling, Sending, HasAwaiter, Threading, PcStates,
            TimerStates, FwStates, ListStates, sender, waiting, response, driver, groups
<1>1. CASE handle_response(c)
  BY <1>1, SeqAssumption DEF handle_response, does_response_match_waiter
<1>2. CASE handle_response_unmatched(c)
  BY <1>2 DEF handle_response_unmatched
<1>3. CASE arrived_cancels_timeout(c)
  BY <1>3 DEF arrived_cancels_timeout, cancel_delayed_work, awaiter_dec_refs
<1>4. CASE handle_awaiter_arrived(c)
  BY <1>4 DEF handle_awaiter_arrived, already_processed, process_response
<1>5. CASE arrived_already_processed(c)
  BY <1>5 DEF arrived_already_processed
<1>6. CASE arrived_signals(c)
  BY <1>6 DEF arrived_signals, signal_response_waiters
<1>7. CASE handle_response_exit(c)
  BY <1>7 DEF handle_response_exit, awaiter_dec_refs
<1> QED BY <1>1, <1>2, <1>3, <1>4, <1>5, <1>6, <1>7 DEF ResponseStep

\* A cancellation keeps the invariant.
LEMMA CancelIInv ==
    ASSUME IInv, NEW c \in Cmd, CancelStep(c)
    PROVE  IInv'
<1> USE DEF IInv, Types, Phase, RefsExact, OneToken, Tokens, B, DriverHolds, ArrivalHolds,
            TimeoutHolds, TimerRuns, Handling, Sending, HasAwaiter, Threading, PcStates,
            TimerStates, FwStates, ListStates, sender, waiting, response, driver, groups
<1>1. CASE ikv_cancel_entry(c)
  BY <1>1, FirstMatchFound DEF ikv_cancel_entry, cancel_entry, del_wait_resp, awaiter_dec_refs
<1>2. CASE ikv_cancel_response(c)
  <2> USE DEF ikv_cancel_response, cancel_waits, cancel_delayed_work, awaiter_dec_refs,
              process_response, signal_response_waiters
  <2>1. CASE timer[c] = "armed" BY <1>2, <2>1
  <2>2. CASE timer[c] # "armed" BY <1>2, <2>2
  <2> QED BY <2>1, <2>2
<1>3. CASE clear_entry(c)
  BY <1>3, FirstMatchFound DEF clear_entry, cancel_entry, del_wait_resp, awaiter_dec_refs
<1>4. CASE clear_release(c)
  BY <1>4 DEF clear_release, cancel_waits
<1> QED BY <1>1, <1>2, <1>3, <1>4 DEF CancelStep

\* The firmware, the interrupt handler, the runtime and the crash handler keep the invariant.
LEMMA DeviceIInv ==
    ASSUME IInv,
           \/ \E c \in Cmd : firmware_responds(c) \/ get_vii_response(c)
           \/ edgetpu_ikv_handle_irq \/ firmware_crash \/ FatalErrorStep
    PROVE  IInv'
<1> USE DEF IInv, Types, Phase, RefsExact, OneToken, Tokens, B, DriverHolds, ArrivalHolds,
            TimeoutHolds, TimerRuns, Handling, Sending, HasAwaiter, Threading, PcStates,
            TimerStates, FwStates, ListStates, sender, waiting, response, driver, groups
<1>1. ASSUME NEW c \in Cmd, firmware_responds(c) PROVE IInv'
  BY <1>1 DEF firmware_responds
<1>2. ASSUME NEW c \in Cmd, get_vii_response(c) PROVE IInv'
  BY <1>2 DEF get_vii_response, awaiter_dec_refs
<1>3. CASE edgetpu_ikv_handle_irq
  BY <1>3 DEF edgetpu_ikv_handle_irq, fetch_responses, Queued
<1>4. CASE firmware_crash
  BY <1>4 DEF firmware_crash
<1>5. CASE fatal_error_flush
  BY <1>5 DEF fatal_error_flush, fetch_responses, Queued
<1>6. CASE fatal_error_flushed
  BY <1>6 DEF fatal_error_flushed
<1> QED BY <1>1, <1>2, <1>3, <1>4, <1>5, <1>6 DEF FatalErrorStep

\* The threads that cancel or disband a group keep the invariant.
LEMMA GroupIInv ==
    ASSUME IInv, NEW g \in Group,
           fatal_error_notify(g) \/ client_fatal_error_notify(g) \/ disband(g) \/ GroupStep(g)
    PROVE  IInv'
<1> USE DEF IInv, Types, Phase, RefsExact, OneToken, Tokens, B, DriverHolds, ArrivalHolds,
            TimeoutHolds, TimerRuns, Handling, Sending, HasAwaiter, Threading, PcStates,
            TimerStates, FwStates, ListStates, sender, waiting, response, driver, groups
<1>1. CASE fatal_error_notify(g)
  BY <1>1 DEF fatal_error_notify, take_pending, Pending, Commands
<1>2. CASE client_fatal_error_notify(g)
  BY <1>2 DEF client_fatal_error_notify
<1>3. CASE disband(g)
  BY <1>3 DEF disband
<1>4. CASE ikv_cancel_end(g)
  BY <1>4 DEF ikv_cancel_end
<1>5. CASE threads_stopped(g)
  BY <1>5 DEF threads_stopped
<1>6. ASSUME NEW answered \in SUBSET Cmd, release_vmbox(g, answered) PROVE IInv'
  BY <1>6 DEF release_vmbox
<1>7. CASE flush_responses(g)
  BY <1>7 DEF flush_responses, fetch_responses, Queued
<1>8. CASE vmbox_closed(g)
  BY <1>8 DEF vmbox_closed
<1>9. CASE clear_responses(g)
  BY <1>9 DEF clear_responses, take_pending, Pending, Commands
<1>10. CASE clear_ready(g)
  BY <1>10 DEF clear_ready, On, Commands
<1>11. CASE device_group_put(g)
  BY <1>11 DEF device_group_put
<1> QED BY <1>1, <1>2, <1>3, <1>4, <1>5, <1>6, <1>7, <1>8, <1>9, <1>10, <1>11 DEF GroupStep

\* Every step, or none, keeps the invariant.
LEMMA StepIInv == ASSUME Separated PROVE IInv /\ [Next]_vars => IInv'
<1> SUFFICES ASSUME IInv, [Next]_vars PROVE IInv' OBVIOUS
<1>1. CASE UNCHANGED vars
  BY <1>1 DEF vars, IInv, Types, Phase, RefsExact, OneToken, Tokens, DriverHolds, ArrivalHolds,
              TimeoutHolds
<1>2. CASE Next
  BY <1>2, SendIInv, TimeoutIInv, ResponseIInv, CancelIInv, DeviceIInv, GroupIInv DEF Next
<1> QED BY <1>1, <1>2

\* The invariant holds in every state.
LEMMA AlwaysIInv == ASSUME Separated PROVE Spec => []IInv
BY InitIInv, StepIInv, PTL DEF Spec

-----------------------------------------------------------------------------
(* Results.                                                                *)

\* gcip_mailbox_awaiter_dec_refs frees an awaiter when its last holder is gone and not
\* before: the count is exact whatever responses, time-outs, cancellations, errors and
\* crashes meet.
THEOREM RefsExactHolds == ASSUME Separated PROVE Spec => []AwaiterRefsExact
<1>1. IInv => AwaiterRefsExact BY DEF IInv, AwaiterRefsExact, RefsExact
<1> QED BY <1>1, AlwaysIInv, PTL

\* signal_response_waiters runs at most once for a command, although the response, the
\* time-out, the cancellation and the error path may all reach it.
THEOREM SignalledOnceHolds == ASSUME Separated PROVE Spec => []SignalledOnce
<1>1. IInv => SignalledOnce
  BY DEF IInv, Types, SignalledOnce, OneToken, Tokens, B
<1> QED BY <1>1, AlwaysIInv, PTL

\* With distinct numbers, no pending response is forgotten: its command is in the wait
\* list, or a handler that will complete it is on its way.
THEOREM PendingTracked ==
    ASSUME DistinctNumbers PROVE Spec => []PendingIsTracked
<1>1. Init => PendingIsTracked BY DEF Init, PendingIsTracked
<1>2. IInv /\ PendingIsTracked /\ [Next]_vars => PendingIsTracked'
  <2> SUFFICES ASSUME IInv, PendingIsTracked, [Next]_vars PROVE PendingIsTracked' OBVIOUS
  <2> USE DEF IInv, Types, PendingIsTracked, sender, waiting, response, driver, groups
  <2>1. CASE UNCHANGED vars BY <2>1 DEF vars
  <2>2. ASSUME NEW c \in Cmd, IssueStep(c) \/ SendStep(c) PROVE PendingIsTracked'
    <3>1. CASE IssueStep(c)
      <4>1. ASSUME NEW timed \in Timed, send_vii_command(c, timed) PROVE PendingIsTracked'
        BY <4>1 DEF send_vii_command, put_cmd_flags, send_allowed, Phase
      <4>2. CASE send_vii_command_fenced(c) BY <4>2 DEF send_vii_command_fenced, send_allowed
      <4> QED BY <3>1, <4>1, <4>2 DEF IssueStep
    <3>2. CASE \E timed \in Timed : fence_signalled(c, timed)
      BY <3>2 DEF fence_signalled, put_cmd_flags, Phase
    <3>3. CASE push_wait_resp(c) \/ enqueue_cmd(c)
      BY <3>3 DEF push_wait_resp, enqueue_cmd, Phase
    <3>4. CASE put_cmd_error(c) \/ put_cmd_error_threaded(c)
      BY <3>4 DEF put_cmd_error, put_cmd_error_threaded, cancel_waits, TimerRuns
    <3> QED
      BY <2>2, <3>1, <3>2, <3>3, <3>4
      DEF SendStep, fence_error, fence_stopped, enqueue_room, enqueue_full,
          before_enqueue_wait_list, before_enqueue_fails, send_error_resp, signal_error_resp,
          process_response, already_processed
  <2>3. ASSUME NEW c \in Cmd, SameSeq(c) # {} PROVE FirstMatch(c) = c
    BY <2>3, FirstMatchFound, SeqAssumption DEF Phase, DistinctNumbers
  <2>4. ASSUME NEW c \in Cmd, TimeoutStep(c) PROVE PendingIsTracked'
    <3>1. CASE timeout_removes(c)
      <4>1. FirstMatch(c) = c BY <2>3, <3>1 DEF timeout_removes, del_wait_resp
      <4> QED BY <3>1, <4>1 DEF timeout_removes, del_wait_resp, after_removal
    <3> QED
      BY <2>4, <3>1
      DEF TimeoutStep, timeout_fires, timeout_too_late, handle_awaiter_timedout,
          timedout_already_processed, already_processed, timedout_signals, timeout_exit,
          process_response, Phase
  <2>5. ASSUME NEW c \in Cmd, ResponseStep(c) PROVE PendingIsTracked'
    <3>1. CASE handle_response(c)
      BY <3>1, SeqAssumption DEF handle_response, does_response_match_waiter, Phase
    <3> QED
      BY <2>5, <3>1
      DEF ResponseStep, handle_response_unmatched, arrived_cancels_timeout, cancel_delayed_work,
          handle_awaiter_arrived, arrived_already_processed, already_processed, arrived_signals,
          handle_response_exit, process_response, Phase
  <2>6. ASSUME NEW c \in Cmd, CancelStep(c) PROVE PendingIsTracked'
    <3>1. CASE ikv_cancel_entry(c) \/ clear_entry(c)
      <4>1. SameSeq(c) # {} => FirstMatch(c) = c
        BY <2>3
      <4> QED BY <3>1, <4>1 DEF ikv_cancel_entry, clear_entry, cancel_entry, del_wait_resp
    <3>2. CASE ikv_cancel_response(c)
      BY <3>2 DEF ikv_cancel_response, cancel_delayed_work, process_response
    <3>3. CASE clear_release(c) BY <3>3 DEF clear_release
    <3> QED BY <2>6, <3>1, <3>2, <3>3 DEF CancelStep
  <2>7. ASSUME NEW c \in Cmd, firmware_responds(c) \/ get_vii_response(c)
        PROVE  PendingIsTracked'
    BY <2>7 DEF firmware_responds, get_vii_response
  <2>8. CASE edgetpu_ikv_handle_irq \/ firmware_crash \/ FatalErrorStep
    BY <2>8 DEF edgetpu_ikv_handle_irq, firmware_crash, FatalErrorStep, fatal_error_flush,
                fatal_error_flushed, fetch_responses, Queued
  <2>9. ASSUME NEW g \in Group,
               fatal_error_notify(g) \/ client_fatal_error_notify(g) \/ disband(g) \/ GroupStep(g)
        PROVE  PendingIsTracked'
    BY <2>9 DEF fatal_error_notify, client_fatal_error_notify, disband, GroupStep, ikv_cancel_end,
                threads_stopped, release_vmbox, flush_responses, vmbox_closed, clear_responses,
                clear_ready, device_group_put, take_pending, fetch_responses, Queued
  <2> QED BY <2>1, <2>2, <2>4, <2>5, <2>6, <2>7, <2>8, <2>9 DEF Next
<1>3. Separated BY DEF Separated
<1> QED BY <1>1, <1>2, <1>3, AlwaysIInv, PTL DEF Spec

-----------------------------------------------------------------------------
(* Credits.  A step charges a command, settles one, or leaves all alone.   *)

IsCharged(c) == pc[c] \notin {"idle", "failed"} /\ signalled[c] = 0

Leaves == credits' = credits /\ \A d \in Cmd : IsCharged(d)' <=> IsCharged(d)
Charges(c) ==
    /\ credits' = [credits EXCEPT ![GroupOf[c]] = @ - 1]
    /\ ~ IsCharged(c) /\ IsCharged(c)'
    /\ \A d \in Cmd \ {c} : IsCharged(d)' <=> IsCharged(d)
Settles(c) ==
    /\ credits' = [credits EXCEPT ![GroupOf[c]] = @ + 1]
    /\ IsCharged(c) /\ ~ IsCharged(c)'
    /\ \A d \in Cmd \ {c} : IsCharged(d)' <=> IsCharged(d)

CreditInv == credits \in [Group -> Int] /\ CreditsBalanced

\* The three effects keep the credits balanced.
LEMMA EffectBalanced ==
    ASSUME CreditInv, Leaves \/ \E c \in Cmd : Charges(c) \/ Settles(c)
    PROVE  CreditInv'
<1>1. credits' \in [Group -> Int]
  BY CmdAssumption DEF CreditInv, Leaves, Charges, Settles
<1>2. ASSUME NEW g \in Group PROVE credits'[g] + Cardinality(Charged(g)') = Credits
  <2>1. IsFiniteSet(Charged(g)) /\ Cardinality(Charged(g)) \in Nat
    BY CmdAssumption, FS_Subset, FS_CardinalityType DEF Charged, Commands
  <2>2. credits[g] \in Int /\ credits[g] + Cardinality(Charged(g)) = Credits
    BY DEF CreditInv, CreditsBalanced
  <2>3. \A d \in Cmd : d \in Charged(g) <=> GroupOf[d] = g /\ IsCharged(d)
    BY DEF Charged, Commands, IsCharged
  <2>4. \A d \in Cmd : d \in Charged(g)' <=> GroupOf[d] = g /\ IsCharged(d)'
    BY DEF Charged, Commands, IsCharged
  <2>5. Charged(g) \subseteq Cmd /\ Charged(g)' \subseteq Cmd BY DEF Charged, Commands
  <2>6. CASE Leaves
    <3>1. Charged(g)' = Charged(g) BY <2>3, <2>4, <2>5, <2>6 DEF Leaves
    <3> QED BY <2>2, <2>6, <3>1 DEF Leaves
  <2>7. ASSUME NEW c \in Cmd, Charges(c) PROVE credits'[g] + Cardinality(Charged(g)') = Credits
    <3>1. CASE GroupOf[c] = g
      <4>1. Charged(g)' = Charged(g) \cup {c} /\ c \notin Charged(g)
        BY <2>3, <2>4, <2>5, <2>7, <3>1 DEF Charges
      <4>2. Cardinality(Charged(g)') = Cardinality(Charged(g)) + 1
        BY <2>1, <4>1, FS_AddElement
      <4>3. credits'[g] = credits[g] - 1 BY <2>7, <3>1 DEF Charges, CreditInv
      <4> QED BY <2>1, <2>2, <4>2, <4>3
    <3>2. CASE GroupOf[c] # g
      <4>1. Charged(g)' = Charged(g) BY <2>3, <2>4, <2>5, <2>7, <3>2 DEF Charges
      <4>2. credits'[g] = credits[g] BY <2>7, <3>2 DEF Charges, CreditInv
      <4> QED BY <2>2, <4>1, <4>2
    <3> QED BY <3>1, <3>2
  <2>8. ASSUME NEW c \in Cmd, Settles(c) PROVE credits'[g] + Cardinality(Charged(g)') = Credits
    <3>1. CASE GroupOf[c] = g
      <4>1. Charged(g)' = Charged(g) \ {c} /\ c \in Charged(g)
        BY <2>3, <2>4, <2>5, <2>8, <3>1 DEF Settles
      <4>2. Cardinality(Charged(g)') = Cardinality(Charged(g)) - 1
        BY <2>1, <4>1, FS_RemoveElement
      <4>3. credits'[g] = credits[g] + 1 BY <2>8, <3>1 DEF Settles, CreditInv
      <4> QED BY <2>1, <2>2, <4>2, <4>3
    <3>2. CASE GroupOf[c] # g
      <4>1. Charged(g)' = Charged(g) BY <2>3, <2>4, <2>5, <2>8, <3>2 DEF Settles
      <4>2. credits'[g] = credits[g] BY <2>8, <3>2 DEF Settles, CreditInv
      <4> QED BY <2>2, <4>1, <4>2
    <3> QED BY <3>1, <3>2
  <2> QED BY <2>6, <2>7, <2>8
<1> QED BY <1>1, <1>2 DEF CreditInv, CreditsBalanced

\* Every step has one of the three effects.
LEMMA StepEffect ==
    ASSUME IInv, CreditInv, [Next]_vars
    PROVE  Leaves \/ \E c \in Cmd : Charges(c) \/ Settles(c)
<1> USE DEF IInv, Types, Leaves, IsCharged, sender, driver
<1>1. CASE UNCHANGED vars BY <1>1 DEF vars
<1>2. ASSUME NEW c \in Cmd, IssueStep(c) PROVE Charges(c)
  <2>1. pc[c] = "idle"
    BY <1>2 DEF IssueStep, send_vii_command, send_vii_command_fenced, send_allowed
  <2>2. signalled[c] = 0 BY <2>1 DEF Phase, OneToken, Tokens, B
  <2> QED
    BY <1>2, <2>1, <2>2
    DEF IssueStep, send_vii_command, send_vii_command_fenced, send_allowed, put_cmd_flags, Charges
<1>3. ASSUME NEW c \in Cmd, SendStep(c) PROVE Leaves \/ Settles(c)
  <2>1. CASE put_cmd_error(c)
    <3>1. signalled[c] = 0 BY <2>1 DEF put_cmd_error, Phase, OneToken, Tokens, B
    <3> QED BY <2>1, <3>1 DEF put_cmd_error, refund_credit, Settles
  <2>2. CASE signal_error_resp(c)
    BY <2>2 DEF signal_error_resp, signal_response_waiters, OneToken, Tokens, B, Settles
  <2>3. CASE \E timed \in Timed : fence_signalled(c, timed)
    BY <2>3 DEF fence_signalled, put_cmd_flags
  <2> QED
    BY <1>3, <2>1, <2>2, <2>3
    DEF SendStep, fence_error, fence_stopped, enqueue_room, enqueue_full,
        before_enqueue_wait_list, before_enqueue_fails, push_wait_resp, enqueue_cmd,
        put_cmd_error_threaded, send_error_resp
<1>4. ASSUME NEW c \in Cmd, TimeoutStep(c) PROVE Leaves \/ Settles(c)
  <2>1. CASE timedout_signals(c)
    BY <2>1 DEF timedout_signals, signal_response_waiters, Phase, TimerRuns, OneToken, Tokens, B,
                Settles
  <2> QED
    BY <1>4, <2>1
    DEF TimeoutStep, timeout_fires, timeout_removes, timeout_too_late, handle_awaiter_timedout,
        timedout_already_processed, timeout_exit
<1>5. ASSUME NEW c \in Cmd, ResponseStep(c) PROVE Leaves \/ Settles(c)
  <2>1. CASE arrived_signals(c)
    BY <2>1 DEF arrived_signals, signal_response_waiters, Phase, OneToken, Tokens, B, Settles
  <2> QED
    BY <1>5, <2>1
    DEF ResponseStep, handle_response, handle_response_unmatched, arrived_cancels_timeout,
        handle_awaiter_arrived, arrived_already_processed, handle_response_exit
<1>6. ASSUME NEW c \in Cmd, CancelStep(c) PROVE Leaves \/ Settles(c)
  <2>1. CASE ikv_cancel_response(c)
    BY <2>1 DEF ikv_cancel_response, signal_response_waiters, Phase, OneToken, Tokens, B, Settles
  <2> QED BY <1>6, <2>1 DEF CancelStep, ikv_cancel_entry, clear_entry, clear_release
<1>7. ASSUME NEW c \in Cmd, firmware_responds(c) \/ get_vii_response(c) PROVE Leaves
  BY <1>7 DEF firmware_responds, get_vii_response
<1>8. CASE edgetpu_ikv_handle_irq \/ firmware_crash \/ FatalErrorStep
  BY <1>8 DEF edgetpu_ikv_handle_irq, firmware_crash, FatalErrorStep, fatal_error_flush,
              fatal_error_flushed
<1>9. ASSUME NEW g \in Group,
             fatal_error_notify(g) \/ client_fatal_error_notify(g) \/ disband(g) \/ GroupStep(g)
      PROVE  Leaves
  BY <1>9 DEF fatal_error_notify, client_fatal_error_notify, disband, GroupStep, ikv_cancel_end,
              threads_stopped, release_vmbox, flush_responses, vmbox_closed, clear_responses,
              clear_ready, device_group_put, take_pending
<1> QED BY <1>1, <1>2, <1>3, <1>4, <1>5, <1>6, <1>7, <1>8, <1>9 DEF Next

\* available_vii_credits of every group plus its unanswered commands is always
\* EDGETPU_NUM_VII_CREDITS_PER_CLIENT: no path loses a credit or refunds it twice.
THEOREM CreditsBalancedHolds == ASSUME Separated PROVE Spec => []CreditsBalanced
<1>1. Init => CreditInv
  <2> SUFFICES ASSUME Init PROVE CreditInv OBVIOUS
  <2>1. credits \in [Group -> Int] BY ParameterAssumption DEF Init
  <2>2. ASSUME NEW g \in Group PROVE credits[g] + Cardinality(Charged(g)) = Credits
    <3>1. Charged(g) = {} BY DEF Init, Charged, Commands
    <3> QED BY <3>1, FS_EmptySet, ParameterAssumption DEF Init
  <2> QED BY <2>1, <2>2 DEF CreditInv, CreditsBalanced
<1>2. IInv /\ CreditInv /\ [Next]_vars => CreditInv'
  BY StepEffect, EffectBalanced
<1>3. CreditInv => CreditsBalanced BY DEF CreditInv
<1> QED BY <1>1, <1>2, <1>3, AlwaysIInv, PTL DEF Spec

-----------------------------------------------------------------------------
(* Types.                                                                  *)

\* The types of the rest of the state; credits never go below zero, as a command is
\* issued only where there is one.
OtherTypes ==
    /\ threaded \subseteq Cmd /\ tx \in Cmd \cup {NoCmd}
    /\ by \in [Cmd -> Group \cup {"irq", "watchdog", "nobody"}]
    /\ credits \in [Group -> Nat]
    /\ status \in [Group -> {"ready", "errored", "disbanded", "freed"}]
    /\ writer \in [Group -> {"none", "cancel", "stop", "close", "flush", "drain", "clear", "put"}]
    /\ crash \in {"no", "crashed", "flush", "notify"}
    /\ notified \subseteq Group /\ cancelled \subseteq Cmd

\* The sender keeps them.
LEMMA SendTypes ==
    ASSUME OtherTypes, NEW c \in Cmd, IssueStep(c) \/ SendStep(c)
    PROVE  OtherTypes'
<1>0. GroupOf[c] \in Group BY CmdAssumption
<1> USE <1>0 DEF OtherTypes, waiting, response, driver, groups
<1>1. ASSUME send_allowed(c) PROVE credits' \in [Group -> Nat] BY <1>1 DEF send_allowed
<1>2. ASSUME NEW timed \in Timed, send_vii_command(c, timed) PROVE OtherTypes'
  BY <1>1, <1>2 DEF send_vii_command
<1>3. CASE send_vii_command_fenced(c) BY <1>1, <1>3 DEF send_vii_command_fenced
<1>4. ASSUME NEW timed \in Timed, fence_signalled(c, timed) PROVE OtherTypes'
  BY <1>4 DEF fence_signalled
<1>5. CASE put_cmd_error(c) BY <1>5 DEF put_cmd_error, refund_credit
<1>6. CASE signal_error_resp(c) BY <1>6 DEF signal_error_resp, signal_response_waiters
<1>7. CASE \/ fence_error(c) \/ fence_stopped(c) \/ enqueue_room(c) \/ enqueue_full(c)
           \/ before_enqueue_wait_list(c) \/ before_enqueue_fails(c) \/ push_wait_resp(c)
           \/ enqueue_cmd(c) \/ put_cmd_error_threaded(c) \/ send_error_resp(c)
  BY <1>7 DEF fence_error, fence_stopped, enqueue_room, enqueue_full, before_enqueue_wait_list,
              before_enqueue_fails, push_wait_resp, enqueue_cmd, put_cmd_error_threaded,
              send_error_resp, process_response
<1> QED BY <1>2, <1>3, <1>4, <1>5, <1>6, <1>7 DEF IssueStep, SendStep

\* So does everybody else.
LEMMA OthersTypes == ASSUME OtherTypes, [Next]_vars PROVE OtherTypes'
<1> USE DEF OtherTypes, sender, waiting, response, driver, groups
<1>1. CASE UNCHANGED vars BY <1>1 DEF vars
<1>2. ASSUME NEW c \in Cmd PROVE GroupOf[c] \in Group BY CmdAssumption
<1>3. ASSUME NEW c \in Cmd, TimeoutStep(c) PROVE OtherTypes'
  <2>1. CASE timedout_signals(c) BY <1>2, <2>1 DEF timedout_signals, signal_response_waiters
  <2> QED BY <1>3, <2>1 DEF TimeoutStep, timeout_fires, timeout_removes, timeout_too_late,
             handle_awaiter_timedout, timedout_already_processed, timeout_exit
<1>4. ASSUME NEW c \in Cmd, ResponseStep(c) PROVE OtherTypes'
  <2>1. CASE arrived_signals(c) BY <1>2, <2>1 DEF arrived_signals, signal_response_waiters
  <2> QED BY <1>4, <2>1 DEF ResponseStep, handle_response, handle_response_unmatched,
             arrived_cancels_timeout, handle_awaiter_arrived, arrived_already_processed,
             handle_response_exit
<1>5. ASSUME NEW c \in Cmd, CancelStep(c) PROVE OtherTypes'
  <2>1. CASE ikv_cancel_response(c) BY <1>2, <2>1 DEF ikv_cancel_response, signal_response_waiters
  <2> QED BY <1>5, <2>1 DEF CancelStep, ikv_cancel_entry, clear_entry, clear_release
<1>6. ASSUME NEW c \in Cmd, firmware_responds(c) \/ get_vii_response(c) PROVE OtherTypes'
  BY <1>6 DEF firmware_responds, get_vii_response
<1>7. CASE edgetpu_ikv_handle_irq \/ firmware_crash \/ FatalErrorStep
  BY <1>7 DEF edgetpu_ikv_handle_irq, firmware_crash, FatalErrorStep, fatal_error_flush,
              fatal_error_flushed, fetch_responses
<1>8. ASSUME NEW g \in Group,
             fatal_error_notify(g) \/ client_fatal_error_notify(g) \/ disband(g) \/ GroupStep(g)
      PROVE  OtherTypes'
  <2> USE <1>8 DEF take_pending, fetch_responses
  <2>1. CASE fatal_error_notify(g) BY <2>1 DEF fatal_error_notify
  <2>2. CASE client_fatal_error_notify(g) BY <2>2 DEF client_fatal_error_notify
  <2>3. CASE disband(g) BY <2>3 DEF disband
  <2>4. CASE ikv_cancel_end(g) BY <2>4 DEF ikv_cancel_end
  <2>5. CASE threads_stopped(g) BY <2>5 DEF threads_stopped
  <2>6. CASE \E answered \in SUBSET Cmd : release_vmbox(g, answered) BY <2>6 DEF release_vmbox
  <2>7. CASE flush_responses(g) BY <2>7 DEF flush_responses
  <2>8. CASE vmbox_closed(g) BY <2>8 DEF vmbox_closed
  <2>9. CASE clear_responses(g) BY <2>9 DEF clear_responses
  <2>10. CASE clear_ready(g) BY <2>10 DEF clear_ready
  <2>11. CASE device_group_put(g) BY <2>11 DEF device_group_put
  <2> QED BY <2>1, <2>2, <2>3, <2>4, <2>5, <2>6, <2>7, <2>8, <2>9, <2>10, <2>11 DEF GroupStep
<1> QED BY <1>1, <1>3, <1>4, <1>5, <1>6, <1>7, <1>8, SendTypes DEF Next

\* The state keeps its types: an awaiter never has more than three references nor fewer than
\* none, and a group never more credits than its limit nor fewer than none.
THEOREM TypeCorrect == ASSUME Separated PROVE Spec => []TypeOK
<1>1. Init => OtherTypes BY ParameterAssumption DEF Init, OtherTypes
<1>2. OtherTypes /\ [Next]_vars => OtherTypes' BY OthersTypes
<1>3. IInv /\ OtherTypes /\ CreditsBalanced => TypeOK
  <2> SUFFICES ASSUME IInv, OtherTypes, CreditsBalanced PROVE TypeOK OBVIOUS
  <2>1. refs \in [Cmd -> 0 .. 3]
    <3>1. \A c \in Cmd : refs[c] \in 0 .. 3 BY DEF IInv, RefsExact, B
    <3> QED BY <3>1 DEF IInv, Types
  <2>2. credits \in [Group -> 0 .. Credits]
    <3>1. ASSUME NEW g \in Group PROVE credits[g] \in 0 .. Credits
      <4>1. Charged(g) \subseteq Cmd BY DEF Charged, Commands
      <4>2. Cardinality(Charged(g)) \in Nat BY <4>1, CmdAssumption, FS_Subset, FS_CardinalityType
      <4>3. credits[g] \in Nat /\ Credits \in Nat /\ credits[g] + Cardinality(Charged(g)) = Credits
        BY ParameterAssumption DEF OtherTypes, CreditsBalanced
      <4> QED BY <4>2, <4>3
    <3> QED BY <3>1 DEF OtherTypes
  <2> QED BY <2>1, <2>2 DEF TypeOK, IInv, Types, OtherTypes, PcStates, TimerStates, FwStates, ListStates
<1> QED BY <1>1, <1>2, <1>3, AlwaysIInv, CreditsBalancedHolds, PTL DEF Spec

-----------------------------------------------------------------------------
(* The wait list, for commands that are sent without a fence to wait for.  *)

\* A thread that cancels or disbands a group holds its locks, so no command of the group is
\* on its way to the wait list; a command in the list is outstanding, and after its time-out
\* has taken it off it does not come back.
Waits ==
    /\ threaded = {} /\ \A c \in Cmd : pc[c] # "fence"
    /\ \A c \in Cmd : writer[GroupOf[c]] # "none" => pc[c] \notin Sending
    /\ \A c \in Cmd : pc[c] = "pending" => list[c] = "pending"
    /\ \A c \in Cmd : timer[c] = "removed" => c \notin wait_list
    /\ EntryHasWaiter

\* With distinct numbers a command's own entry is taken off the list.
LEMMA OwnEntry ==
    ASSUME DistinctNumbers, IInv, NEW c \in Cmd
    PROVE  /\ SameSeq(c) # {} => FirstMatch(c) = c
           /\ SameSeq(c) = {} => c \notin wait_list
<1>1. SameSeq(c) # {} => FirstMatch(c) = c
  BY FirstMatchFound, SeqAssumption DEF IInv, Types, Phase, DistinctNumbers
<1> QED BY <1>1 DEF SameSeq

\* With no fence to wait for, no step loses the waiter of an entry.
LEMMA WaitsNext ==
    ASSUME DistinctNumbers, Fenced = {}, IInv, Waits, [Next]_vars
    PROVE  Waits'
<1> USE DEF IInv, Types, Waits, EntryHasWaiter, sender, waiting, response, driver, groups
<1>1. CASE UNCHANGED vars BY <1>1 DEF vars
<1>2. ASSUME NEW c \in Cmd, IssueStep(c) PROVE Waits'
  <2>1. PICK timed \in Timed : send_vii_command(c, timed) BY <1>2 DEF IssueStep
  <2>2. pc[c] = "idle" /\ c \notin wait_list /\ timer[c] = "none"
    BY <2>1 DEF send_vii_command, send_allowed, Phase
  <2> QED BY <2>1, <2>2 DEF send_vii_command, put_cmd_flags, send_allowed, CanRead
<1>3. ASSUME NEW c \in Cmd, SendStep(c) PROVE Waits'
  <2>1. pc[c] # "fence" /\ c \notin threaded OBVIOUS
  <2>2. CASE enqueue_room(c) BY <2>2 DEF enqueue_room, Sending
  <2>3. CASE enqueue_full(c) BY <2>3 DEF enqueue_full, Sending
  <2>4. CASE before_enqueue_wait_list(c) BY <2>4 DEF before_enqueue_wait_list, Sending, Phase
  <2>5. CASE before_enqueue_fails(c) BY <2>5 DEF before_enqueue_fails, Sending
  <2>6. CASE push_wait_resp(c) BY <2>6 DEF push_wait_resp, Sending, Phase
  <2>7. CASE enqueue_cmd(c) BY <2>7 DEF enqueue_cmd, Sending
  <2>8. CASE put_cmd_error(c) BY <2>8 DEF put_cmd_error, Sending
  <2>9. CASE send_error_resp(c) BY <2>9 DEF send_error_resp, process_response, already_processed, Sending, Phase
  <2>10. CASE signal_error_resp(c) BY <2>10 DEF signal_error_resp, Sending
  <2> QED BY <1>3, <2>1, <2>2, <2>3, <2>4, <2>5, <2>6, <2>7, <2>8, <2>9, <2>10
          DEF SendStep, fence_signalled, fence_error, fence_stopped, put_cmd_error_threaded
<1>4. ASSUME NEW c \in Cmd, TimeoutStep(c) PROVE Waits'
  <2>1. CASE timeout_removes(c)
    <3>1. FirstMatch(c) = c BY <2>1, OwnEntry DEF timeout_removes, del_wait_resp
    <3> QED BY <2>1, <3>1 DEF timeout_removes, del_wait_resp, after_removal
  <2>2. CASE handle_awaiter_timedout(c)
    <3>1. pc[c] # "pending" BY <2>2 DEF handle_awaiter_timedout, Phase, TimerRuns
    <3> QED BY <2>2, <3>1 DEF handle_awaiter_timedout, process_response
  <2> QED BY <1>4, <2>1, <2>2
          DEF TimeoutStep, timeout_fires, timeout_too_late, timedout_already_processed, timedout_signals,
              timeout_exit
<1>5. ASSUME NEW c \in Cmd, ResponseStep(c) PROVE Waits'
  <2>1. CASE handle_awaiter_arrived(c)
    <3>1. pc[c] # "pending" /\ c \notin wait_list BY <2>1 DEF handle_awaiter_arrived, Phase, Handling
    <3> QED BY <2>1, <3>1 DEF handle_awaiter_arrived, process_response
  <2> QED BY <1>5, <2>1
          DEF ResponseStep, handle_response, handle_response_unmatched, arrived_cancels_timeout,
              cancel_delayed_work, arrived_already_processed, arrived_signals, handle_response_exit
<1>6. ASSUME NEW c \in Cmd, CancelStep(c) PROVE Waits'
  <2>1. CASE ikv_cancel_entry(c) \/ clear_entry(c)
    <3>1. c \notin wait_list' /\ wait_list' \subseteq wait_list
      BY <2>1, OwnEntry DEF ikv_cancel_entry, clear_entry, cancel_entry, del_wait_resp
    <3> QED BY <2>1, <3>1 DEF ikv_cancel_entry, clear_entry
  <2>2. CASE ikv_cancel_response(c)
    BY <2>2 DEF ikv_cancel_response, process_response, cancel_delayed_work
  <2>3. CASE clear_release(c) BY <2>3 DEF clear_release
  <2> QED BY <1>6, <2>1, <2>2, <2>3 DEF CancelStep
<1>7. ASSUME NEW c \in Cmd, firmware_responds(c) \/ get_vii_response(c) PROVE Waits'
  BY <1>7 DEF firmware_responds, get_vii_response
<1>8. CASE edgetpu_ikv_handle_irq \/ firmware_crash \/ FatalErrorStep
  BY <1>8 DEF edgetpu_ikv_handle_irq, firmware_crash, FatalErrorStep, fatal_error_flush,
              fatal_error_flushed, fetch_responses
<1>9. ASSUME NEW g \in Group,
             fatal_error_notify(g) \/ client_fatal_error_notify(g) \/ disband(g) \/ GroupStep(g)
      PROVE  Waits'
  <2>0. ASSUME CanWrite(g) PROVE \A c \in Commands(g) : pc[c] \notin Sending
    BY <2>0 DEF CanWrite, ViiUnlocked
  <2> USE <1>9 DEF Commands
  <2>1. CASE fatal_error_notify(g)
    BY <2>0, <2>1 DEF fatal_error_notify, take_pending, Pending, Sending
  <2>2. CASE client_fatal_error_notify(g) BY <2>2 DEF client_fatal_error_notify
  <2>3. CASE disband(g) BY <2>0, <2>3 DEF disband
  <2>4. CASE ikv_cancel_end(g) BY <2>4 DEF ikv_cancel_end
  <2>5. CASE threads_stopped(g) BY <2>5 DEF threads_stopped
  <2>6. CASE \E answered \in SUBSET Cmd : release_vmbox(g, answered) BY <2>6 DEF release_vmbox
  <2>7. CASE flush_responses(g) BY <2>7 DEF flush_responses
  <2>8. CASE vmbox_closed(g) BY <2>8 DEF vmbox_closed
  <2>9. CASE clear_responses(g) BY <2>9 DEF clear_responses, take_pending, Pending, Sending
  <2>10. CASE clear_ready(g) BY <2>10 DEF clear_ready, On
  <2>11. CASE device_group_put(g) BY <2>11 DEF device_group_put
  <2> QED BY <2>1, <2>2, <2>3, <2>4, <2>5, <2>6, <2>7, <2>8, <2>9, <2>10, <2>11 DEF GroupStep
<1> QED BY <1>1, <1>2, <1>3, <1>4, <1>5, <1>6, <1>7, <1>8, <1>9 DEF Next

\* Nor does a step take the time-out of an entry that stays.
LEMMA CoverStep ==
    ASSUME DistinctNumbers, IInv, Waits, [Next]_vars, NEW d \in wait_list, d \in wait_list',
           Covered(d)
    PROVE  Covered(d)'
<1> USE DEF IInv, Types, Covered, sender, waiting, response, driver, groups
<1>1. CASE UNCHANGED vars BY <1>1 DEF vars
<1>2. ASSUME NEW c \in Cmd, IssueStep(c) PROVE Covered(d)'
  BY <1>2 DEF IssueStep, send_vii_command, send_vii_command_fenced, put_cmd_flags
<1>3. ASSUME NEW c \in Cmd, SendStep(c) PROVE Covered(d)'
  <2>1. CASE \E timed \in Timed : fence_signalled(c, timed)
    BY <2>1 DEF fence_signalled, put_cmd_flags
  <2>2. CASE put_cmd_error(c) BY <2>2 DEF put_cmd_error, Phase
  <2>3. CASE put_cmd_error_threaded(c) BY <2>3 DEF put_cmd_error_threaded, Phase
  <2> QED BY <1>3, <2>1, <2>2, <2>3
          DEF SendStep, fence_error, fence_stopped, enqueue_room, enqueue_full,
              before_enqueue_wait_list, before_enqueue_fails, push_wait_resp, enqueue_cmd,
              send_error_resp, signal_error_resp
<1>4. ASSUME NEW c \in Cmd, TimeoutStep(c) PROVE Covered(d)'
  <2>1. CASE timeout_removes(c)
    <3>1. FirstMatch(c) = c BY <2>1, OwnEntry DEF timeout_removes, del_wait_resp
    <3>2. c \notin wait_list' BY <2>1, <3>1 DEF timeout_removes, del_wait_resp
    <3> QED BY <2>1, <3>2 DEF timeout_removes
  <2>2. CASE timeout_too_late(c)
    <3>1. c \notin wait_list BY <2>2, OwnEntry DEF timeout_too_late
    <3> QED BY <2>2, <3>1 DEF timeout_too_late
  <2> QED BY <1>4, <2>1, <2>2
          DEF TimeoutStep, timeout_fires, handle_awaiter_timedout, timedout_already_processed,
              timedout_signals, timeout_exit
<1>5. ASSUME NEW c \in Cmd, ResponseStep(c) PROVE Covered(d)'
  <2>1. CASE arrived_cancels_timeout(c)
    <3>1. c \notin wait_list BY <2>1 DEF arrived_cancels_timeout, Phase, Handling
    <3> QED BY <2>1, <3>1 DEF arrived_cancels_timeout, cancel_delayed_work
  <2> QED BY <1>5, <2>1
          DEF ResponseStep, handle_response, handle_response_unmatched, handle_awaiter_arrived,
              arrived_already_processed, arrived_signals, handle_response_exit
<1>6. ASSUME NEW c \in Cmd, CancelStep(c) PROVE Covered(d)'
  <2>1. CASE ikv_cancel_entry(c) \/ clear_entry(c) BY <2>1 DEF ikv_cancel_entry, clear_entry
  <2>2. ASSUME list[c] \in {"canceled", "cleared"} PROVE c \notin wait_list
    BY <2>2 DEF Waits, EntryHasWaiter
  <2>3. CASE ikv_cancel_response(c)
    BY <2>2, <2>3 DEF ikv_cancel_response, cancel_delayed_work
  <2>4. CASE clear_release(c) BY <2>2, <2>4 DEF clear_release
  <2> QED BY <1>6, <2>1, <2>3, <2>4 DEF CancelStep
<1>7. ASSUME NEW c \in Cmd, firmware_responds(c) \/ get_vii_response(c) PROVE Covered(d)'
  BY <1>7 DEF firmware_responds, get_vii_response
<1>8. CASE edgetpu_ikv_handle_irq \/ firmware_crash \/ FatalErrorStep
  BY <1>8 DEF edgetpu_ikv_handle_irq, firmware_crash, FatalErrorStep, fatal_error_flush,
              fatal_error_flushed
<1>9. ASSUME NEW g \in Group,
             fatal_error_notify(g) \/ client_fatal_error_notify(g) \/ disband(g) \/ GroupStep(g)
      PROVE  Covered(d)'
  BY <1>9 DEF fatal_error_notify, client_fatal_error_notify, disband, GroupStep, ikv_cancel_end,
              threads_stopped, release_vmbox, flush_responses, vmbox_closed, clear_responses,
              clear_ready, device_group_put
<1> QED BY <1>1, <1>2, <1>3, <1>4, <1>5, <1>6, <1>7, <1>8, <1>9 DEF Next

\* With distinct numbers and no fenced commands, whatever is in the wait list is outstanding.
LEMMA AlwaysWaits ==
    ASSUME DistinctNumbers, Fenced = {} PROVE Spec => [](IInv /\ Waits)
<1>1. Init => Waits BY CmdAssumption DEF Init, Waits, EntryHasWaiter, Sending
<1>2. IInv /\ Waits /\ [Next]_vars => Waits' BY WaitsNext
<1>3. Separated BY DEF Separated
<1> QED BY <1>1, <1>2, <1>3, AlwaysIInv, PTL DEF Spec

\* No entry outlives the wait for it: with distinct numbers and no fenced commands, a command in the wait
\* list has a response outstanding, whatever response, time-out, cancellation and disbanding meet.
THEOREM EntriesHaveWaiters ==
    ASSUME DistinctNumbers, Fenced = {} PROVE Spec => []EntryHasWaiter
<1>1. Waits => EntryHasWaiter BY DEF Waits
<1> QED BY <1>1, AlwaysWaits, PTL

\* No step takes the time-out from a command in the wait list: one that waits without a time-out
\* was enqueued after it had expired.  Time-outs may expire at any moment, before the enqueue too.
THEOREM TimeoutsKept ==
    ASSUME DistinctNumbers, Fenced = {} PROVE Spec => CoverKept
<1>1. IInv /\ Waits /\ [Next]_vars =>
        [\A c \in wait_list \cap wait_list' : Covered(c) => Covered(c)']_vars
  BY CoverStep
<1> QED BY <1>1, AlwaysWaits, PTL DEF Spec, CoverKept

=============================================================================
