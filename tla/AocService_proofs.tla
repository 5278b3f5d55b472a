------------------------- MODULE AocService_proofs -------------------------
(***************************************************************************)
(* Proofs about the queue service of the AoC, for any number of threads,   *)
(* restarts, slots and any width of the counters.                          *)
(***************************************************************************)
EXTENDS AocService, FiniteSetTheorems, SequenceTheorems, TLAPS

\* Resets do not overlap: user space asks for none while the watchdog work runs.
OneReset == ~ResetsOverlap

\* One thread reads the service, and one writes it (they may be the same).
OneCaller ==
    \A t, u \in Thread :
        t # u => /\ Calls[t] \cap Readers = {} \/ Calls[u] \cap Readers = {}
                 /\ Calls[t] \cap Writers = {} \/ Calls[u] \cap Writers = {}

\* The number of slots divides the range of the counters, and the counters can count them.
SlotsFit ==
    /\ UpSlots < Modulus /\ \E k \in Nat : Modulus = k * UpSlots
    /\ DownSlots < Modulus /\ \E k \in Nat : Modulus = k * DownSlots

-----------------------------------------------------------------------------
(* The invariants. *)

one(b) == IF b THEN 1 ELSE 0

\* Who has incremented aoc_process_active and not yet decremented it.
ClaimedPc == {"check", "ready", "wait", "sleep", "unblock", "recheck", "copy", "advance", "leave"}
Claimers == {t \in Thread : thread[t].pc \in ClaimedPc}
Claims == aoc_process_active = Cardinality(Claimers) + one(irq.pc \in {"check", "scan", "leave"})

\* Every restart loads the firmware once, and every load creates a device once; every load
\* and every reset under way has disabled the crash interrupts once.
Budget ==
    /\ devices + one(online_work) + one(aoc_state = "FIRMWARE_LOADED") + one(loading)
         + one(watchdog.pc # "idle") <= total_restarts + 1
    /\ one(watchdog.queued) + one(watchdog.pc # "idle") + one(loading) <= crash_irq
    /\ watchdog.queued => total_restarts < MaxRestart
    /\ \A t \in Thread : /\ thread[t].pc # "idle" => thread[t].dev \in 1..devices
                         /\ thread[t].pc # "idle" => thread[t].call \in Calls[t]

IInv == TypeOK /\ Claims /\ Budget

\* What aoc_state says about the device and the works, as long as resets do not overlap.
Phases ==
    /\ loading => /\ aoc_state = "OFFLINE" /\ services = 0 /\ ~online_work
                  /\ ~watchdog.queued /\ watchdog.pc = "idle"
    /\ watchdog.pc # "idle" => ~watchdog.queued
    /\ watchdog.pc \in {"dump", "cancelled"} => aoc_state \in {"SSR", "ONLINE"}
    /\ watchdog.pc \in {"drain", "remove", "restart"} => aoc_state = "OFFLINE"
    /\ watchdog.pc \in {"cancelled", "drain", "remove", "restart"} => ~online_work
    /\ watchdog.pc = "restart" => services = 0
    /\ watchdog.pc = "idle" => aoc_state # "SSR" /\ (aoc_state # "ONLINE" => services = 0)
    /\ aoc_state = "ONLINE" => services # 0
    /\ online_work => services = 0
    /\ aoc_state = "FIRMWARE_LOADED" => ~online_work
    /\ services # 0 /\ services \in dead => watchdog.pc \in {"drain", "remove"}

Life == Phases /\ InsideMeansUp

\* A region that nobody has damaged: no more messages than slots, and each slot between the
\* indices holds the message of that number.
Slot(r, n) == r.mem[(n % Modulus) % r.slots]
Sound(r) ==
    /\ _read_write_delta(r) <= r.slots
    /\ \A i \in 0.._read_write_delta(r) - 1 : Slot(r, r.rx + i) = (r.rx + i) % Modulus

\* What a call relies on: past its wait it can go on, unless the AoC is going down; a message
\* that was copied is still the one at the index.
Own(t) ==
    /\ thread[t].pc \in {"unblock", "recheck"} => WaitOver(t) \/ thread[t].failed
    /\ thread[t].pc \in {"copy", "advance"} => can_proceed(t)
    /\ thread[t].pc = "advance" => ~thread[t].failed
    /\ thread[t].pc = "advance" /\ IsRead(t) => thread[t].buffer = current_message(up)
    /\ thread[t].pc = "advance" /\ ~IsRead(t) => Slot(down, down.tx) = down.tx

Queues == Sound(up) /\ Sound(down) /\ \A t \in Thread : Own(t)

-----------------------------------------------------------------------------
(* Regions. *)

Pcs == {"idle", "inc", "check", "ready", "wait", "sleep", "unblock", "recheck", "copy", "advance",
        "leave"}
ThreadSet(n) ==
    [pc : Pcs, call : Readers \cup Writers \cup {"none"}, dev : 0..n, failed : BOOLEAN,
     was_full : BOOLEAN, buffer : 0..Modulus - 1]

\* A remainder is smaller than the divisor.
LEMMA ModRange == ASSUME NEW a \in Int PROVE a % Modulus \in 0..Modulus - 1
BY ModulusAssumption

\* The operations on a region keep its type.
LEMMA RegionTypes ==
    ASSUME NEW s \in Nat \ {0}, NEW r \in Region(s), NEW m \in 0..Modulus - 1
    PROVE  /\ NewRegion(s) \in Region(s)
           /\ _aoc_queue_write_buffer(r, m) \in Region(s)
           /\ aoc_service_increment_write_index(r) \in Region(s)
           /\ aoc_service_increment_read_index(r) \in Region(s)
           /\ current_message(r) \in 0..Modulus - 1
<1>1. r.slots = s /\ r.tx \in Int /\ r.rx \in Int /\ r.mem \in [0..s - 1 -> 0..Modulus - 1]
  BY ModulusAssumption DEF Region
<1>2. r.tx % s \in 0..s - 1 /\ r.rx % s \in 0..s - 1 BY <1>1
<1>3. NewRegion(s) \in Region(s) BY ModulusAssumption DEF NewRegion, Region
<1>4. _aoc_queue_write_buffer(r, m) \in Region(s)
  BY <1>1, <1>2 DEF _aoc_queue_write_buffer, aoc_service_current_write_pointer, Region
<1>5. (r.tx + 1) % Modulus \in 0..Modulus - 1 /\ (r.rx + 1) % Modulus \in 0..Modulus - 1
  <2>1. r.tx + 1 \in Int /\ r.rx + 1 \in Int BY <1>1
  <2> QED BY <2>1, ModRange
<1>6. aoc_service_increment_write_index(r) \in Region(s)
  BY <1>5 DEF aoc_service_increment_write_index, Region
<1>7. aoc_service_increment_read_index(r) \in Region(s)
  BY <1>5 DEF aoc_service_increment_read_index, Region
<1>8. current_message(r) \in 0..Modulus - 1
  BY <1>1, <1>2 DEF current_message, aoc_service_current_read_pointer
<1> QED BY <1>3, <1>4, <1>6, <1>7, <1>8

-----------------------------------------------------------------------------
(* Types, claims and budgets. *)

\* TypeOK, with the set of the threads named.
LEMMA TypeOKThreads == TypeOK => thread \in [Thread -> ThreadSet(devices)]
BY DEF TypeOK, ThreadSet, Pcs

\* Moving one thread to another place keeps the type of the threads.
LEMMA SetPc ==
    ASSUME NEW n \in Nat, NEW th \in [Thread -> ThreadSet(n)], NEW t \in Thread, NEW p \in Pcs
    PROVE  LET new == [th EXCEPT ![t].pc = p]
           IN  /\ new \in [Thread -> ThreadSet(n)]
               /\ \A u \in Thread \ {t} : new[u] = th[u]
               /\ new[t].pc = p /\ new[t].call = th[t].call /\ new[t].dev = th[t].dev
               /\ new[t].failed = th[t].failed /\ new[t].was_full = th[t].was_full
               /\ new[t].buffer = th[t].buffer
BY Zenon DEF ThreadSet

\* Waking moves sleepers from the sleep to the test of the condition, and nothing else.
LEMMA WokenTypes ==
    ASSUME NEW n \in Nat, NEW th \in [Thread -> ThreadSet(n)], NEW d, NEW q,
           NEW new, new = woken(th, d, q)
    PROVE  /\ new \in [Thread -> ThreadSet(n)]
           /\ \A u \in Thread :
                /\ new[u].call = th[u].call /\ new[u].dev = th[u].dev
                /\ new[u].failed = th[u].failed /\ new[u].buffer = th[u].buffer
                /\ new[u].pc = th[u].pc \/ (th[u].pc = "sleep" /\ new[u].pc = "wait")
                /\ th[u].dev = d /\ (th[u].call \in Readers <=> q = "read") => new[u].pc # "sleep"
<1>1. ASSUME NEW u \in Thread
      PROVE  [th[u] EXCEPT !.pc = "wait"] \in ThreadSet(n)
  BY Zenon DEF ThreadSet, Pcs
<1>2. new \in [Thread -> ThreadSet(n)] BY <1>1 DEF woken
<1>3. ASSUME NEW u \in Thread
      PROVE  \/ new[u] = [th[u] EXCEPT !.pc = "wait"] /\ th[u].pc = "sleep"
             \/ /\ new[u] = th[u]
                /\ th[u].dev = d /\ (th[u].call \in Readers <=> q = "read") => th[u].pc # "sleep"
  BY DEF woken
<1>4. ASSUME NEW u \in Thread, NEW x, x = [th[u] EXCEPT !.pc = "wait"]
      PROVE  /\ x.pc = "wait" /\ x.call = th[u].call /\ x.dev = th[u].dev
             /\ x.failed = th[u].failed /\ x.buffer = th[u].buffer
  BY <1>4, Zenon DEF ThreadSet
<1>5. ASSUME NEW u \in Thread
      PROVE  /\ new[u].call = th[u].call /\ new[u].dev = th[u].dev
             /\ new[u].failed = th[u].failed /\ new[u].buffer = th[u].buffer
             /\ new[u].pc = th[u].pc \/ (th[u].pc = "sleep" /\ new[u].pc = "wait")
             /\ th[u].dev = d /\ (th[u].call \in Readers <=> q = "read") => new[u].pc # "sleep"
  <2>1. CASE new[u] = [th[u] EXCEPT !.pc = "wait"] /\ th[u].pc = "sleep"
    <3>1. /\ new[u].pc = "wait" /\ new[u].call = th[u].call /\ new[u].dev = th[u].dev
          /\ new[u].failed = th[u].failed /\ new[u].buffer = th[u].buffer
      BY <1>4, <2>1
    <3> QED BY <2>1, <3>1
  <2>2. CASE /\ new[u] = th[u]
             /\ th[u].dev = d /\ (th[u].call \in Readers <=> q = "read") => th[u].pc # "sleep"
    BY <2>2
  <2> QED BY <1>3, <2>1, <2>2
<1> QED BY <1>2, <1>5

\* The threads that hold a claim are finitely many.
LEMMA ClaimersFinite ==
    ASSUME NEW S \in SUBSET Thread
    PROVE  IsFiniteSet(S) /\ Cardinality(S) \in Nat /\ Cardinality(S) <= Cardinality(Thread)
           /\ Cardinality(Thread) \in Nat /\ (Cardinality(S) = 0 => S = {})
<1>1. IsFiniteSet(Thread) BY ServiceAssumption
<1> QED BY <1>1, FS_Subset, FS_CardinalityType, FS_EmptySet

\* The effect of a step of one thread on the number of claims.
LEMMA ClaimEffect ==
    ASSUME NEW t \in Thread, \A u \in Thread \ {t} : thread'[u] = thread[u]
    PROVE  Cardinality(Claimers') = Cardinality(Claimers) + one(thread'[t].pc \in ClaimedPc)
                                        - one(thread[t].pc \in ClaimedPc)
<1>1. Claimers \subseteq Thread BY DEF Claimers
<1>2. IsFiniteSet(Claimers) /\ Cardinality(Claimers) \in Nat BY <1>1, ClaimersFinite
<1>3. Claimers' = IF thread'[t].pc \in ClaimedPc THEN Claimers \cup {t} ELSE Claimers \ {t}
  BY DEF Claimers
<1>4. t \in Claimers <=> thread[t].pc \in ClaimedPc BY DEF Claimers
<1>5. Cardinality(Claimers \cup {t}) = IF t \in Claimers THEN Cardinality(Claimers)
                                                          ELSE Cardinality(Claimers) + 1
  BY <1>2, FS_AddElement
<1>6. Cardinality(Claimers \ {t}) = IF t \in Claimers THEN Cardinality(Claimers) - 1
                                                      ELSE Cardinality(Claimers)
  BY <1>2, FS_RemoveElement
<1> QED BY <1>2, <1>3, <1>4, <1>5, <1>6 DEF one

\* A step of one thread keeps IInv when it keeps its own record in order and counts its claim.
LEMMA ThreadInv ==
    ASSUME IInv, NEW t \in Thread,
           UNCHANGED <<callVars, irq>>,
           thread' \in [Thread -> ThreadSet(devices)],
           \A u \in Thread \ {t} : thread'[u] = thread[u],
           thread'[t].pc # "idle" => thread'[t].dev \in 1..devices /\ thread'[t].call \in Calls[t],
           aoc_process_active' = aoc_process_active + one(thread'[t].pc \in ClaimedPc)
                                     - one(thread[t].pc \in ClaimedPc),
           blocked' \subseteq {"read", "write"},
           up' \in Region(UpSlots), down' \in Region(DownSlots), fw_waits' \in BOOLEAN
    PROVE  IInv'
<1>1. Claimers \subseteq Thread /\ Claimers' \subseteq Thread BY DEF Claimers
<1>2. /\ Cardinality(Claimers) \in Nat /\ Cardinality(Claimers') \in Nat
      /\ Cardinality(Claimers') <= Cardinality(Thread) /\ Cardinality(Thread) \in Nat
  BY <1>1, ClaimersFinite
<1>3. Cardinality(Claimers') = Cardinality(Claimers) + one(thread'[t].pc \in ClaimedPc)
                                   - one(thread[t].pc \in ClaimedPc)
  BY ClaimEffect
<1>4. Claims' BY <1>2, <1>3 DEF IInv, Claims, one, callVars
<1>5. (aoc_process_active \in 0..Cardinality(Thread) + 1)'
  BY <1>2, <1>4 DEF Claims, one
<1>6. TypeOK'
  BY <1>5 DEF IInv, TypeOK, callVars, apVars, ThreadSet, Pcs
<1>7. Budget' BY DEF IInv, Budget, callVars, apVars
<1> QED BY <1>4, <1>6, <1>7 DEF IInv

\* What a step that moves a thread from one place to another does to the threads.
LEMMA GoEffect ==
    ASSUME TypeOK, NEW t \in Thread, NEW from, NEW to \in Pcs, Go(t, from, to)
    PROVE  /\ thread' \in [Thread -> ThreadSet(devices)]
           /\ \A u \in Thread \ {t} : thread'[u] = thread[u]
           /\ thread[t].pc = from /\ thread'[t].pc = to
           /\ thread'[t].call = thread[t].call /\ thread'[t].dev = thread[t].dev
           /\ thread'[t].failed = thread[t].failed /\ thread'[t].buffer = thread[t].buffer
<1>1. thread \in [Thread -> ThreadSet(devices)] /\ devices \in Nat
  BY TypeOKThreads, ServiceAssumption DEF TypeOK
<1>2. thread' = [thread EXCEPT ![t].pc = to] /\ thread[t].pc = from BY DEF Go
<1> QED BY <1>1, <1>2, SetPc

\* A new call.
LEMMA CallEffect ==
    ASSUME TypeOK, NEW t \in Thread, NEW c \in Calls[t], NEW d \in open, service_call(t, c, d)
    PROVE  /\ thread' \in [Thread -> ThreadSet(devices)]
           /\ \A u \in Thread \ {t} : thread'[u] = thread[u]
           /\ thread[t].pc = "idle" /\ thread'[t].pc = "inc"
           /\ thread'[t].call = c /\ thread'[t].dev = d /\ d \in 1..devices
<1>1. thread \in [Thread -> ThreadSet(devices)] /\ devices \in Nat
  BY TypeOKThreads, ServiceAssumption DEF TypeOK
<1>2. d \in 1..devices /\ d \in 0..devices BY DEF TypeOK
<1>3. c \in Readers \cup Writers BY ServiceAssumption
<1>4. 0 \in 0..Modulus - 1 BY ModulusAssumption
<1> DEFINE x == [IdleThread EXCEPT !.pc = "inc", !.call = c, !.dev = d]
<1>5. IdleThread \in ThreadSet(devices) BY <1>1, <1>4 DEF IdleThread, ThreadSet, Pcs
<1>6. x \in ThreadSet(devices) /\ x.pc = "inc" /\ x.call = c /\ x.dev = d
  BY <1>2, <1>3, <1>5, Zenon DEF ThreadSet, Pcs
<1>7. thread[t].pc = "idle" /\ thread' = [thread EXCEPT ![t] = x] BY DEF service_call
<1> HIDE DEF x
<1>8. thread'[t] = x /\ \A u \in Thread \ {t} : thread'[u] = thread[u] BY <1>1, <1>7
<1> QED BY <1>1, <1>2, <1>6, <1>7, <1>8

\* The end of a call.
LEMMA LeaveEffect ==
    ASSUME TypeOK, NEW t \in Thread, service_leave(t)
    PROVE  /\ thread' \in [Thread -> ThreadSet(devices)]
           /\ \A u \in Thread \ {t} : thread'[u] = thread[u]
           /\ thread[t].pc = "leave" /\ thread'[t].pc = "idle"
<1>1. thread \in [Thread -> ThreadSet(devices)] /\ devices \in Nat
  BY TypeOKThreads, ServiceAssumption DEF TypeOK
<1>2. 0 \in 0..Modulus - 1 BY ModulusAssumption
<1>3. IdleThread \in ThreadSet(devices) /\ IdleThread.pc = "idle"
  BY <1>1, <1>2 DEF IdleThread, ThreadSet, Pcs
<1> QED BY <1>1, <1>3 DEF service_leave

\* The end of a sleep by a signal or a timeout.
LEMMA InterruptedEffect ==
    ASSUME TypeOK, NEW t \in Thread, service_interrupted(t)
    PROVE  /\ thread' \in [Thread -> ThreadSet(devices)]
           /\ \A u \in Thread \ {t} : thread'[u] = thread[u]
           /\ thread[t].pc = "sleep" /\ thread'[t].pc = "unblock"
           /\ thread'[t].call = thread[t].call /\ thread'[t].dev = thread[t].dev
           /\ thread'[t].failed = ~WaitOver(t)
<1>1. thread \in [Thread -> ThreadSet(devices)] BY TypeOKThreads
<1>2. /\ thread[t].pc = "sleep"
      /\ thread' = [thread EXCEPT ![t].pc = "unblock", ![t].failed = ~WaitOver(t)]
  BY DEF service_interrupted
<1>3. WaitOver(t) \in BOOLEAN BY DEF WaitOver, can_proceed, aoc_service_can_read_message,
                                     aoc_service_can_write_message
<1> DEFINE f == ~WaitOver(t)
<1>4. f \in BOOLEAN /\ thread' = [thread EXCEPT ![t].pc = "unblock", ![t].failed = f]
  BY <1>2, <1>3
<1> HIDE DEF f
<1>5. [thread[t] EXCEPT !.pc = "unblock", !.failed = f] \in ThreadSet(devices)
  BY <1>1, <1>4, Zenon DEF ThreadSet, Pcs
<1>6. thread' = [thread EXCEPT ![t] = [thread[t] EXCEPT !.pc = "unblock", !.failed = f]]
  BY <1>1, <1>4, Zenon
<1>7. thread'[t] = [thread[t] EXCEPT !.pc = "unblock", !.failed = f] BY <1>1, <1>6
<1>8. /\ thread'[t].pc = "unblock" /\ thread'[t].call = thread[t].call
      /\ thread'[t].dev = thread[t].dev /\ thread'[t].failed = f
  <2>1. thread[t] \in ThreadSet(devices) BY <1>1
  <2>2. thread'[t].pc = "unblock" /\ thread'[t].failed = f BY <1>7, <2>1, Zenon DEF ThreadSet
  <2>3. thread'[t].call = thread[t].call BY <1>7, <2>1, Zenon DEF ThreadSet
  <2>4. thread'[t].dev = thread[t].dev BY <1>7, <2>1, Zenon DEF ThreadSet
  <2> QED BY <2>2, <2>3, <2>4
<1>9. thread' \in [Thread -> ThreadSet(devices)] BY <1>1, <1>5, <1>6
<1>10. \A u \in Thread \ {t} : thread'[u] = thread[u] BY <1>1, <1>6
<1> QED BY <1>2, <1>8, <1>9, <1>10, Zenon DEF f

\* A call goes on only when its device is alive, the AoC is up and its wait was not interrupted.
LEMMA RecheckEffect ==
    ASSUME TypeOK, NEW t \in Thread, service_recheck(t)
    PROVE  /\ thread' \in [Thread -> ThreadSet(devices)]
           /\ \A u \in Thread \ {t} : thread'[u] = thread[u]
           /\ thread[t].pc = "recheck" /\ thread'[t].pc \in {"copy", "leave"}
           /\ thread'[t].call = thread[t].call /\ thread'[t].dev = thread[t].dev
           /\ thread'[t].pc = "copy" =>
                thread[t].dev \notin dead /\ aoc_state = "ONLINE" /\ ~thread[t].failed
<1>1. thread \in [Thread -> ThreadSet(devices)] BY TypeOKThreads
<1>2. PICK goOn \in {FALSE, ~(thread[t].dev \in dead \/ aoc_state # "ONLINE" \/ thread[t].failed)} :
        thread' = [thread EXCEPT
              ![t].pc = IF goOn THEN "copy" ELSE "leave",
              ![t].was_full = goOn /\ IsRead(t) /\ ~aoc_service_can_write_message(up)]
  BY DEF service_recheck
<1> DEFINE p == IF goOn THEN "copy" ELSE "leave"
           w == goOn /\ IsRead(t) /\ ~aoc_service_can_write_message(up)
<1>3. p \in Pcs /\ w \in BOOLEAN /\ p \in {"copy", "leave"} BY DEF Pcs
<1>4. p = "copy" => thread[t].dev \notin dead /\ aoc_state = "ONLINE" /\ ~thread[t].failed
  BY <1>2
<1>5. thread' = [thread EXCEPT ![t].pc = p, ![t].was_full = w] BY <1>2
<1> HIDE DEF p, w
<1>6. [thread[t] EXCEPT !.pc = p, !.was_full = w] \in ThreadSet(devices)
  BY <1>1, <1>3, Zenon DEF ThreadSet
<1>7. thread' = [thread EXCEPT ![t] = [thread[t] EXCEPT !.pc = p, !.was_full = w]]
  BY <1>1, <1>5, Zenon
<1>8. thread'[t] = [thread[t] EXCEPT !.pc = p, !.was_full = w] BY <1>1, <1>7
<1>9. thread'[t].pc = p /\ thread'[t].call = thread[t].call /\ thread'[t].dev = thread[t].dev
  BY <1>1, <1>8, Zenon DEF ThreadSet
<1>10. thread' \in [Thread -> ThreadSet(devices)] BY <1>1, <1>6, <1>7
<1>11. \A u \in Thread \ {t} : thread'[u] = thread[u] BY <1>1, <1>7
<1>12. thread[t].pc = "recheck" BY DEF service_recheck
<1> QED BY <1>3, <1>4, <1>9, <1>10, <1>11, <1>12

\* The copy of a message.
LEMMA CopyEffect ==
    ASSUME TypeOK, NEW t \in Thread, service_copy(t)
    PROVE  /\ thread' \in [Thread -> ThreadSet(devices)]
           /\ \A u \in Thread \ {t} : thread'[u] = thread[u]
           /\ thread[t].pc = "copy" /\ thread'[t].pc = "advance"
           /\ thread'[t].call = thread[t].call /\ thread'[t].dev = thread[t].dev
           /\ can_proceed(t) => ~thread'[t].failed
           /\ IsRead(t) /\ can_proceed(t) => thread'[t].buffer = current_message(up)
<1>1. thread \in [Thread -> ThreadSet(devices)] BY TypeOKThreads
<1> DEFINE b == IF IsRead(t) /\ can_proceed(t) THEN current_message(up) ELSE thread[t].buffer
           f == ~can_proceed(t)
<1>2. b \in 0..Modulus - 1
  <2>1. current_message(up) \in 0..Modulus - 1
    BY RegionTypes, ServiceAssumption, ModulusAssumption DEF TypeOK
  <2>2. thread[t].buffer \in 0..Modulus - 1 BY <1>1 DEF ThreadSet
  <2> QED BY <2>1, <2>2
<1>3. /\ thread[t].pc = "copy"
      /\ thread' = [thread EXCEPT ![t].pc = "advance", ![t].failed = f, ![t].buffer = b]
  BY DEF service_copy
<1>4. /\ IsRead(t) /\ can_proceed(t) => b = current_message(up)
      /\ f \in BOOLEAN /\ (can_proceed(t) => ~f)
  OBVIOUS
<1> HIDE DEF b, f
<1>5. [thread[t] EXCEPT !.pc = "advance", !.failed = f, !.buffer = b] \in ThreadSet(devices)
  BY <1>1, <1>2, <1>4, Zenon DEF ThreadSet, Pcs
<1>6. thread' = [thread EXCEPT
                   ![t] = [thread[t] EXCEPT !.pc = "advance", !.failed = f, !.buffer = b]]
  BY <1>1, <1>3, Zenon
<1>7. thread'[t] = [thread[t] EXCEPT !.pc = "advance", !.failed = f, !.buffer = b] BY <1>1, <1>6
<1>8. /\ thread'[t].pc = "advance" /\ thread'[t].call = thread[t].call
      /\ thread'[t].dev = thread[t].dev /\ thread'[t].buffer = b /\ thread'[t].failed = f
  <2>1. thread[t] \in ThreadSet(devices) BY <1>1
  <2>2. thread'[t].pc = "advance" /\ thread'[t].buffer = b BY <1>7, <2>1, Zenon DEF ThreadSet
  <2>3. thread'[t].call = thread[t].call BY <1>7, <2>1, Zenon DEF ThreadSet
  <2>4. thread'[t].dev = thread[t].dev BY <1>7, <2>1, Zenon DEF ThreadSet
  <2>5. thread'[t].failed = f BY <1>7, <2>1, Zenon DEF ThreadSet
  <2> QED BY <2>2, <2>3, <2>4, <2>5
<1>9. thread' \in [Thread -> ThreadSet(devices)] BY <1>1, <1>5, <1>6
<1>10. \A u \in Thread \ {t} : thread'[u] = thread[u] BY <1>1, <1>6
<1> QED BY <1>3, <1>4, <1>8, <1>9, <1>10

\* Every step of a call keeps IInv.
LEMMA CallsInv ==
    ASSUME IInv, NEW t \in Thread, Call(t) \/ Progress(t) \/ service_interrupted(t)
    PROVE  IInv'
<1>1. /\ TypeOK /\ blocked \subseteq {"read", "write"} /\ up \in Region(UpSlots)
      /\ down \in Region(DownSlots) /\ fw_waits \in BOOLEAN
      /\ aoc_process_active \in Int
      /\ UpSlots \in Nat \ {0} /\ DownSlots \in Nat \ {0}
  BY ClaimersFinite, ServiceAssumption DEF IInv, TypeOK
<1>2. thread[t].pc # "idle" => thread[t].dev \in 1..devices /\ thread[t].call \in Calls[t]
  BY DEF IInv, Budget
<1>3. QueueOf(t) \in {"read", "write"} BY DEF QueueOf
<1>4. CASE Call(t)
  <2>1. PICK c \in Calls[t], d \in open : service_call(t, c, d) BY <1>4 DEF Call
  <2>2. /\ UNCHANGED <<callVars, irq, blocked, up, down, fw_waits>>
        /\ aoc_process_active' = aoc_process_active
    BY <2>1 DEF service_call
  <2> HIDE DEF callVars
  <2> QED BY <1>1, <2>1, <2>2, CallEffect, ThreadInv DEF one, ClaimedPc
<1>5. CASE service_inc(t)
  BY <1>1, <1>2, <1>5, GoEffect, ThreadInv DEF service_inc, one, ClaimedPc, Pcs
<1>6. CASE service_check(t)
  BY <1>1, <1>2, <1>6, GoEffect, ThreadInv DEF service_check, one, ClaimedPc, Pcs
<1>7. CASE service_ready(t)
  <2>1. /\ UNCHANGED <<callVars, irq, up, down, fw_waits>>
        /\ aoc_process_active' = aoc_process_active
        /\ blocked' \in {blocked, blocked \cup {QueueOf(t)}}
    BY <1>7 DEF service_ready
  <2>2. PICK to \in {"recheck", "wait", "leave"} : Go(t, "ready", to) BY <1>7 DEF service_ready
  <2>3. blocked' \subseteq {"read", "write"} BY <1>1, <1>3, <2>1
  <2> QED BY <1>1, <1>2, <2>1, <2>2, <2>3, GoEffect, ThreadInv DEF one, ClaimedPc, Pcs
<1>8. CASE service_wait(t)
  BY <1>1, <1>2, <1>8, GoEffect, ThreadInv DEF service_wait, one, ClaimedPc, Pcs
<1>9. CASE service_unblock(t)
  <2>1. /\ UNCHANGED <<callVars, irq, up, down, fw_waits>>
        /\ aoc_process_active' = aoc_process_active
        /\ Go(t, "unblock", "recheck")
    BY <1>9 DEF service_unblock
  <2>2. blocked' \subseteq {"read", "write"} BY <1>1, <1>9 DEF service_unblock
  <2> QED BY <1>1, <1>2, <2>1, <2>2, GoEffect, ThreadInv DEF one, ClaimedPc, Pcs
<1>10. CASE service_recheck(t)
  <2>1. /\ UNCHANGED <<callVars, irq, blocked, up, down, fw_waits>>
        /\ aoc_process_active' = aoc_process_active
    BY <1>10 DEF service_recheck
  <2> QED BY <1>1, <1>2, <1>10, <2>1, RecheckEffect, ThreadInv DEF one, ClaimedPc
<1>11. CASE service_copy(t)
  <2>1. /\ UNCHANGED <<callVars, irq, blocked, up, fw_waits>>
        /\ aoc_process_active' = aoc_process_active
        /\ down' = down \/ down' = _aoc_queue_write_buffer(down, down.tx)
    BY <1>11 DEF service_copy
  <2>2. down.tx \in 0..Modulus - 1 BY <1>1 DEF Region
  <2>3. down' \in Region(DownSlots) BY <1>1, <2>1, <2>2, RegionTypes
  <2> QED BY <1>1, <1>2, <1>11, <2>1, <2>3, CopyEffect, ThreadInv DEF one, ClaimedPc
<1>12. CASE service_advance(t)
  <2>1. /\ UNCHANGED <<callVars, irq, blocked>>
        /\ aoc_process_active' = aoc_process_active
        /\ up' = up \/ up' = aoc_service_increment_read_index(up)
        /\ down' = down \/ down' = aoc_service_increment_write_index(down)
        /\ Go(t, "advance", "leave")
    BY <1>12 DEF service_advance
  <2>2. fw_waits' \in BOOLEAN BY <1>12 DEF service_advance
  <2>3. 0 \in 0..Modulus - 1 BY ModulusAssumption
  <2>4. up' \in Region(UpSlots) /\ down' \in Region(DownSlots) BY <1>1, <2>1, <2>3, RegionTypes
  <2> QED BY <1>1, <1>2, <2>1, <2>2, <2>4, GoEffect, ThreadInv DEF one, ClaimedPc, Pcs
<1>13. CASE service_leave(t)
  <2>1. /\ UNCHANGED <<callVars, irq, blocked, up, down, fw_waits>>
        /\ aoc_process_active' = aoc_process_active - 1
    BY <1>13 DEF service_leave
  <2> QED BY <1>1, <1>2, <1>13, <2>1, LeaveEffect, ThreadInv DEF one, ClaimedPc
<1>14. CASE service_interrupted(t)
  <2>1. /\ UNCHANGED <<callVars, irq, blocked, up, down, fw_waits>>
        /\ aoc_process_active' = aoc_process_active
    BY <1>14 DEF service_interrupted
  <2> QED BY <1>1, <1>2, <1>14, <2>1, InterruptedEffect, ThreadInv DEF one, ClaimedPc
<1> QED BY <1>4, <1>5, <1>6, <1>7, <1>8, <1>9, <1>10, <1>11, <1>12, <1>13, <1>14 DEF Progress

\* A step that only wakes sleepers leaves the claims of the threads alone.
LEMMA WakeInv ==
    ASSUME IInv, thread' \in [Thread -> ThreadSet(devices)],
           \A u \in Thread :
              /\ thread'[u].call = thread[u].call /\ thread'[u].dev = thread[u].dev
              /\ \/ thread'[u].pc = thread[u].pc
                 \/ thread[u].pc = "sleep" /\ thread'[u].pc = "wait"
    PROVE  /\ Claimers' = Claimers
           /\ \A t \in Thread : /\ thread'[t].pc # "idle" => thread'[t].dev \in 1..devices
                                /\ thread'[t].pc # "idle" => thread'[t].call \in Calls[t]
<1>1. Claimers' = Claimers BY DEF Claimers, ClaimedPc
<1> QED BY <1>1 DEF IInv, Budget

\* The handler of the mailbox interrupt keeps IInv.
LEMMA InterruptInv == ASSUME IInv, Interrupt PROVE IInv'
<1>1. Claimers \subseteq Thread BY DEF Claimers
<1>2. /\ Cardinality(Claimers) \in Nat /\ Cardinality(Claimers) <= Cardinality(Thread)
      /\ Cardinality(Thread) \in Nat
  BY <1>1, ClaimersFinite
<1>3. TypeOK /\ devices \in Nat /\ thread \in [Thread -> ThreadSet(devices)]
  BY TypeOKThreads, ServiceAssumption DEF IInv, TypeOK
<1>4. CASE aoc_mbox_rx_callback
  <2>1. /\ UNCHANGED <<irqVars, aoc_process_active, thread>>
        /\ irq' = [pending |-> FALSE, pc |-> IF aoc_state = "ONLINE" THEN "inc" ELSE "idle"]
        /\ irq.pc = "idle"
        /\ \/ aoc_state' = aoc_state /\ online_work' = (online_work \/ FALSE)
           \/ aoc_state = "FIRMWARE_LOADED" /\ aoc_state' = "STARTING" /\ online_work' = TRUE
    BY <1>4 DEF aoc_mbox_rx_callback
  <2>2. /\ irq' \in [pending : BOOLEAN, pc : {"idle", "inc", "check", "scan", "leave"}]
        /\ irq'.pc \in {"idle", "inc"}
    BY <2>1
  <2>3. TypeOK'
    <3>1. online_work' \in BOOLEAN BY <1>4 DEF aoc_mbox_rx_callback
    <3> QED BY <1>3, <2>1, <2>2, <3>1 DEF TypeOK, irqVars, fwVars
  <2>4. Claims' BY <2>1, <2>2 DEF IInv, Claims, Claimers, one, irqVars
  <2>5. Budget' BY <2>1 DEF IInv, TypeOK, Budget, one, irqVars, fwVars
  <2> QED BY <2>3, <2>4, <2>5 DEF IInv
<1>5. CASE process_inc \/ process_check \/ process_leave
  <2>1. /\ UNCHANGED <<irqVars, aoc_state, online_work, thread>>
        /\ \E p \in {"idle", "check", "scan", "leave"} : irq' = [irq EXCEPT !.pc = p]
        /\ aoc_process_active' = aoc_process_active
             + one(irq'.pc \in {"check", "scan", "leave"}) - one(irq.pc \in {"check", "scan", "leave"})
    BY <1>2, <1>3, <1>5 DEF process_inc, process_check, process_leave, one, TypeOK
  <2>2. irq' \in [pending : BOOLEAN, pc : {"idle", "inc", "check", "scan", "leave"}]
    BY <1>3, <2>1, Zenon DEF TypeOK
  <2>3. Claims' BY <1>2, <2>1 DEF IInv, Claims, Claimers, one
  <2>4. (aoc_process_active \in 0..Cardinality(Thread) + 1)'
    <3>1. Claimers' = Claimers BY <2>1 DEF Claimers
    <3> QED BY <1>2, <2>3, <3>1 DEF Claims, one
  <2>5. TypeOK' BY <1>3, <2>1, <2>2, <2>4 DEF TypeOK, irqVars, fwVars
  <2>6. Budget' BY <2>1 DEF IInv, Budget, irqVars, fwVars
  <2> QED BY <2>3, <2>5, <2>6 DEF IInv
<1>6. CASE process_scan
  <2>1. /\ UNCHANGED <<irqVars, aoc_state, online_work, aoc_process_active>>
        /\ irq.pc = "scan" /\ irq' = [irq EXCEPT !.pc = "leave"]
    BY <1>6 DEF process_scan
  <2>2. PICK ths : /\ ths = thread \/ ths = woken(thread, services, "read")
                   /\ thread' = ths \/ thread' = woken(ths, services, "write")
    BY <1>6 DEF process_scan
  <2>3. /\ ths \in [Thread -> ThreadSet(devices)]
        /\ \A u \in Thread : /\ ths[u].call = thread[u].call /\ ths[u].dev = thread[u].dev
                             /\ \/ ths[u].pc = thread[u].pc
                                \/ thread[u].pc = "sleep" /\ ths[u].pc = "wait"
    <3>1. CASE ths = thread BY <1>3, <3>1
    <3>2. CASE ths = woken(thread, services, "read") BY <1>3, <3>2, WokenTypes
    <3> QED BY <2>2, <3>1, <3>2
  <2>4. /\ thread' \in [Thread -> ThreadSet(devices)]
        /\ \A u \in Thread : /\ thread'[u].call = ths[u].call /\ thread'[u].dev = ths[u].dev
                             /\ \/ thread'[u].pc = ths[u].pc
                                \/ ths[u].pc = "sleep" /\ thread'[u].pc = "wait"
    <3>1. CASE thread' = ths BY <2>3, <3>1
    <3>2. CASE thread' = woken(ths, services, "write") BY <1>3, <2>3, <3>2, WokenTypes
    <3> QED BY <2>2, <3>1, <3>2
  <2>5. \A u \in Thread : /\ thread'[u].call = thread[u].call /\ thread'[u].dev = thread[u].dev
                          /\ \/ thread'[u].pc = thread[u].pc
                             \/ thread[u].pc = "sleep" /\ thread'[u].pc = "wait"
    BY <2>3, <2>4
  <2>6. /\ Claimers' = Claimers
        /\ \A t \in Thread : /\ thread'[t].pc # "idle" => thread'[t].dev \in 1..devices
                             /\ thread'[t].pc # "idle" => thread'[t].call \in Calls[t]
    BY <2>4, <2>5, WakeInv
  <2>7. irq' \in [pending : BOOLEAN, pc : {"idle", "inc", "check", "scan", "leave"}]
    BY <1>3, <2>1, Zenon DEF TypeOK
  <2>8. irq'.pc = "leave" BY <1>3, <2>1, Zenon DEF TypeOK
  <2>9. Claims' BY <2>1, <2>6, <2>8 DEF IInv, Claims, one
  <2>10. TypeOK'
    BY <1>3, <2>1, <2>4, <2>7 DEF TypeOK, irqVars, fwVars, ThreadSet, Pcs
  <2>11. Budget' BY <2>1, <2>6 DEF IInv, Budget, irqVars, fwVars
  <2> QED BY <2>9, <2>10, <2>11 DEF IInv
<1> QED BY <1>4, <1>5, <1>6 DEF Interrupt

\* Opening and closing the file, and the firmware, keep IInv.
LEMMA OutsideInv ==
    ASSUME IInv,
           acd_open \/ (\E d \in Device : acd_release(d)) \/ fw_ready \/ fw_write \/ fw_read \/ fw_crash
    PROVE  IInv'
<1>1. TypeOK /\ devices \in Nat /\ UpSlots \in Nat \ {0} /\ DownSlots \in Nat \ {0}
  BY ServiceAssumption DEF IInv, TypeOK
<1>2. /\ UNCHANGED <<apVars, aoc_process_active, dead, blocked, thread>>
      /\ irq' = irq \/ irq' = [irq EXCEPT !.pending = TRUE]
  BY DEF acd_open, acd_release, fw_ready, fw_write, fw_read, fw_crash, fwUnchanged
<1>3. /\ irq' \in [pending : BOOLEAN, pc : {"idle", "inc", "check", "scan", "leave"}]
      /\ irq'.pc = irq.pc
  BY <1>1, <1>2, Zenon DEF TypeOK
<1>4. Claims' BY <1>2, <1>3 DEF IInv, Claims, Claimers
<1>5. Budget' BY <1>2 DEF IInv, Budget, apVars
<1>6. open' \subseteq 1..devices BY <1>1 DEF TypeOK, acd_open, acd_release, fw_ready, fw_write,
                                         fw_read, fw_crash, fwUnchanged
<1>7. up.tx \in 0..Modulus - 1 /\ 0 \in 0..Modulus - 1
  BY <1>1, ModulusAssumption DEF TypeOK, Region
<1>8. up' \in Region(UpSlots)
  <2>1. \/ up' = up
        \/ up' = aoc_service_increment_write_index(_aoc_queue_write_buffer(up, up.tx))
    BY DEF acd_open, acd_release, fw_ready, fw_write, fw_read, fw_crash
  <2>2. _aoc_queue_write_buffer(up, up.tx) \in Region(UpSlots)
    BY <1>1, <1>7, RegionTypes DEF TypeOK
  <2>3. aoc_service_increment_write_index(_aoc_queue_write_buffer(up, up.tx)) \in Region(UpSlots)
    BY <1>1, <1>7, <2>2, RegionTypes
  <2> QED BY <1>1, <2>1, <2>3 DEF TypeOK
<1>9. down' \in Region(DownSlots)
  <2>1. down' = down \/ down' = aoc_service_increment_read_index(down)
    BY DEF acd_open, acd_release, fw_ready, fw_write, fw_read, fw_crash
  <2> QED BY <1>1, <1>7, <2>1, RegionTypes DEF TypeOK
<1>10. fw' \in {"off", "booting", "up", "crashed"} /\ fw_waits' \in BOOLEAN
  BY <1>1 DEF TypeOK, acd_open, acd_release, fw_ready, fw_write, fw_read, fw_crash, fwVars
<1>11. TypeOK'
  BY <1>1, <1>2, <1>3, <1>6, <1>8, <1>9, <1>10 DEF TypeOK, apVars
<1> QED BY <1>4, <1>5, <1>11 DEF IInv

\* Loading the firmware and creating the device keep IInv.
LEMMA StartInv ==
    ASSUME IInv, aoc_fw_callback \/ aoc_did_become_online PROVE IInv'
<1>1. TypeOK /\ devices \in Nat /\ MaxRestart \in Nat
  BY ServiceAssumption DEF IInv, TypeOK
<1>2. UNCHANGED <<lifeVars, aoc_process_active, dead, thread, up, down, total_restarts, fw_waits, watchdog>>
  BY DEF aoc_fw_callback, aoc_did_become_online, fwVars
<1>3. Claims' BY <1>2 DEF IInv, Claims, Claimers, lifeVars
<1>4. CASE aoc_fw_callback
  <2>1. loading /\ loading' = FALSE /\ UNCHANGED <<devices, services, online_work>>
    BY <1>4 DEF aoc_fw_callback
  <2>2. \/ /\ aoc_state' = "FIRMWARE_LOADED" /\ fw' = "booting"
           /\ crash_irq' = crash_irq - 1 /\ monitor_work' = TRUE
        \/ aoc_state' = "OFFLINE" /\ UNCHANGED <<fw, crash_irq, monitor_work>>
    BY <1>4 DEF aoc_fw_callback
  <2>3. crash_irq \in 0..2 /\ total_restarts \in Nat BY <1>1 DEF TypeOK, MaxDisable
  <2>4. Budget' BY <1>1, <1>2, <2>1, <2>2, <2>3 DEF IInv, Budget, one
  <2>5. crash_irq' \in 0..2 BY <2>1, <2>2, <2>3 DEF IInv, Budget, one
  <2>6. TypeOK'
    <3>1. /\ aoc_state' \in {"OFFLINE", "FIRMWARE_LOADED", "STARTING", "ONLINE", "SSR"}
          /\ fw' \in {"off", "booting", "up", "crashed"}
          /\ monitor_work' \in BOOLEAN /\ loading' \in BOOLEAN /\ online_work' \in BOOLEAN
      BY <1>1, <2>1, <2>2, Zenon DEF TypeOK
    <3> QED BY <1>1, <1>2, <2>1, <2>5, <3>1 DEF TypeOK, MaxDisable, lifeVars
  <2> QED BY <1>3, <2>4, <2>6 DEF IInv
<1>5. CASE aoc_did_become_online
  <2>1. /\ online_work /\ online_work' = FALSE /\ monitor_work' = FALSE
        /\ UNCHANGED <<loading, crash_irq, fw>>
        /\ \/ /\ devices' = devices + 1 /\ services' = devices + 1 /\ aoc_state' = "ONLINE"
           \/ UNCHANGED <<devices, services, aoc_state>>
    BY <1>5 DEF aoc_did_become_online, fwVars
  <2>2. total_restarts \in 0..MaxRestart /\ devices \in 0..MaxRestart + 1 BY <1>1 DEF TypeOK
  <2>3. devices' \in 0..MaxRestart + 1 /\ devices <= devices'
    BY <1>1, <2>1, <2>2 DEF IInv, Budget, one
  <2>4. Budget' BY <1>1, <1>2, <2>1, <2>2 DEF IInv, Budget, one
  <2>5. /\ services' \in 0..devices' /\ dead' \subseteq 1..devices' /\ open' \subseteq 1..devices'
    BY <1>1, <1>2, <2>1, <2>3 DEF TypeOK, lifeVars
  <2>6. thread' \in [Thread -> ThreadSet(devices')]
    <3>1. thread \in [Thread -> ThreadSet(devices)] BY <1>1, TypeOKThreads
    <3>2. 0..devices \subseteq 0..devices' BY <1>1, <2>3
    <3>3. ThreadSet(devices) \subseteq ThreadSet(devices') BY <3>2, Zenon DEF ThreadSet
    <3> QED BY <1>2, <3>1, <3>3
  <2>7. TypeOK'
    <3>1. /\ aoc_state' \in {"OFFLINE", "FIRMWARE_LOADED", "STARTING", "ONLINE", "SSR"}
          /\ monitor_work' \in BOOLEAN /\ loading' \in BOOLEAN /\ online_work' \in BOOLEAN
      BY <1>1, <2>1, Zenon DEF TypeOK
    <3>2. UNCHANGED <<loading, crash_irq, fw>> BY <2>1
    <3> QED BY <1>1, <1>2, <2>3, <2>5, <2>6, <3>1, <3>2 DEF TypeOK, lifeVars, ThreadSet, Pcs
  <2> QED BY <1>3, <2>4, <2>7 DEF IInv
<1> QED BY <1>4, <1>5

\* A request for a reset keeps IInv.
LEMMA ResetInv ==
    ASSUME IInv, watchdog_int_handler \/ reset_store \/ aoc_monitor_online PROVE IInv'
<1>1. TypeOK /\ crash_irq \in 0..2 /\ total_restarts \in 0..MaxRestart
  BY DEF IInv, TypeOK, MaxDisable
<1>2. UNCHANGED resetVars /\ may_reset
  BY DEF watchdog_int_handler, reset_store, aoc_monitor_online
<1>3. monitor_work' \in BOOLEAN
  BY <1>1 DEF watchdog_int_handler, reset_store, aoc_monitor_online, TypeOK
<1>4. \/ crash_irq' = crash_irq + 1 /\ watchdog' = [watchdog EXCEPT !.queued = TRUE]
      \/ UNCHANGED <<crash_irq, watchdog>>
  BY DEF watchdog_int_handler, reset_store, aoc_monitor_online, trigger_aoc_ssr
<1>5. crash_irq' \in 0..2 BY <1>1, <1>2, <1>4 DEF may_reset, MaxDisable
<1>6. /\ watchdog' \in [queued : BOOLEAN,
                        pc : {"idle", "dump", "cancelled", "drain", "remove", "restart"}]
      /\ watchdog'.pc = watchdog.pc
      /\ watchdog'.queued = watchdog.queued \/ crash_irq' = crash_irq + 1
  BY <1>1, <1>4, Zenon DEF TypeOK
<1>7. TypeOK'
  BY <1>1, <1>2, <1>3, <1>5, <1>6 DEF TypeOK, resetVars, lifeVars, fwVars, MaxDisable
<1>8. Claims' BY <1>2 DEF IInv, Claims, Claimers, resetVars, lifeVars
<1>9. Budget'
  BY <1>1, <1>2, <1>4, <1>6 DEF IInv, Budget, one, resetVars, lifeVars, may_reset
<1> QED BY <1>7, <1>8, <1>9 DEF IInv

\* The watchdog work keeps IInv.
LEMMA WatchdogInv == ASSUME IInv, Watchdog PROVE IInv'
<1>1. /\ TypeOK /\ crash_irq \in 0..2 /\ total_restarts \in 0..MaxRestart /\ devices \in Nat
      /\ MaxRestart \in Nat
      /\ UpSlots \in Nat \ {0} /\ DownSlots \in Nat \ {0}
  BY ServiceAssumption DEF IInv, TypeOK, MaxDisable
<1> DEFINE Wpc == {"idle", "dump", "cancelled", "drain", "remove", "restart"}
<1>2. ASSUME NEW p \in Wpc, watchdog' = [watchdog EXCEPT !.pc = p]
      PROVE  /\ watchdog' \in [queued : BOOLEAN, pc : Wpc]
             /\ watchdog'.pc = p /\ watchdog'.queued = watchdog.queued
  BY <1>1, <1>2, Zenon DEF TypeOK
<1>3. CASE aoc_watchdog
  <2>1. /\ UNCHANGED <<lifeVars, aoc_process_active, devices, services, dead, online_work, monitor_work,
                       loading, crash_irq, fwVars, up, down, thread>>
        /\ watchdog.queued /\ watchdog.pc = "idle" /\ aoc_state' = "SSR"
        /\ watchdog' = [queued |-> FALSE, pc |-> IF aoc_state = "SSR" THEN "idle" ELSE "dump"]
        /\ total_restarts' = IF aoc_state = "SSR" THEN total_restarts ELSE total_restarts + 1
    BY <1>3 DEF aoc_watchdog
  <2>2. total_restarts' \in 0..MaxRestart BY <1>1, <2>1 DEF IInv, Budget
  <2>3. TypeOK'
    <3>1. watchdog' \in [queued : BOOLEAN, pc : Wpc] BY <2>1
    <3>2. /\ UNCHANGED <<lifeVars, aoc_process_active, devices, services, dead, online_work,
                         monitor_work, loading, crash_irq, fwVars, up, down, thread>>
          /\ aoc_state' = "SSR"
      BY <2>1
    <3> QED BY <1>1, <2>2, <3>1, <3>2 DEF TypeOK, lifeVars, fwVars
  <2>4. Claims' BY <2>1 DEF IInv, Claims, Claimers, lifeVars
  <2>5. Budget' BY <1>1, <2>1 DEF IInv, Budget, one
  <2> QED BY <2>3, <2>4, <2>5 DEF IInv
<1>4. CASE watchdog_cancel \/ aoc_take_offline \/ drained \/ aoc_remove_device
  <2>1. /\ UNCHANGED <<lifeVars, aoc_process_active, devices, dead, monitor_work, loading,
                       total_restarts, crash_irq, fwVars, up, down, thread>>
        /\ watchdog.pc # "idle"
        /\ \E p \in Wpc : p # "idle" /\ watchdog' = [watchdog EXCEPT !.pc = p]
        /\ aoc_state' = aoc_state \/ aoc_state' = "OFFLINE"
        /\ online_work' = online_work \/ online_work' = FALSE
        /\ services' = services \/ services' = 0
    BY <1>4 DEF watchdog_cancel, aoc_take_offline, drained, aoc_remove_device
  <2>2. /\ watchdog' \in [queued : BOOLEAN, pc : Wpc]
        /\ watchdog'.pc # "idle" /\ watchdog'.queued = watchdog.queued
    BY <1>2, <2>1
  <2>3. TypeOK'
    <3>1. /\ aoc_state' \in {"OFFLINE", "FIRMWARE_LOADED", "STARTING", "ONLINE", "SSR"}
          /\ online_work' \in BOOLEAN
      BY <1>1, <2>1, Zenon DEF TypeOK
    <3>2. services' \in 0..devices BY <1>1, <2>1 DEF TypeOK
    <3>3. UNCHANGED <<lifeVars, aoc_process_active, devices, dead, monitor_work, loading,
                      total_restarts, crash_irq, fwVars, up, down, thread>>
      BY <2>1
    <3> QED BY <1>1, <2>2, <3>1, <3>2, <3>3 DEF TypeOK, lifeVars, fwVars
  <2>4. Claims' BY <2>1 DEF IInv, Claims, Claimers, lifeVars
  <2>5. Budget' BY <1>1, <2>1, <2>2 DEF IInv, Budget, one
  <2> QED BY <2>3, <2>4, <2>5 DEF IInv
<1>5. CASE aoc_wakeup_queues
  <2>1. /\ UNCHANGED <<lifeVars, apVars, aoc_process_active, fwVars, up, down>>
        /\ dead' = IF services = 0 THEN dead ELSE dead \cup {services}
        /\ thread' = woken(woken(thread, services, "read"), services, "write")
    BY <1>5 DEF aoc_wakeup_queues
  <2> DEFINE ths == woken(thread, services, "read")
  <2>2. thread \in [Thread -> ThreadSet(devices)] BY <1>1, TypeOKThreads
  <2>3. /\ ths \in [Thread -> ThreadSet(devices)]
        /\ \A u \in Thread : /\ ths[u].call = thread[u].call /\ ths[u].dev = thread[u].dev
                             /\ \/ ths[u].pc = thread[u].pc
                                \/ thread[u].pc = "sleep" /\ ths[u].pc = "wait"
    BY <1>1, <2>2, WokenTypes
  <2>4. thread' = woken(ths, services, "write") BY <2>1
  <2> HIDE DEF ths
  <2>5. /\ thread' \in [Thread -> ThreadSet(devices)]
        /\ \A u \in Thread : /\ thread'[u].call = ths[u].call /\ thread'[u].dev = ths[u].dev
                             /\ \/ thread'[u].pc = ths[u].pc
                                \/ ths[u].pc = "sleep" /\ thread'[u].pc = "wait"
    BY <1>1, <2>3, <2>4, WokenTypes
  <2>6. \A u \in Thread : /\ thread'[u].call = thread[u].call /\ thread'[u].dev = thread[u].dev
                          /\ \/ thread'[u].pc = thread[u].pc
                             \/ thread[u].pc = "sleep" /\ thread'[u].pc = "wait"
    BY <2>3, <2>5
  <2>7. /\ Claimers' = Claimers
        /\ \A t \in Thread : /\ thread'[t].pc # "idle" => thread'[t].dev \in 1..devices
                             /\ thread'[t].pc # "idle" => thread'[t].call \in Calls[t]
    BY <2>5, <2>6, WakeInv
  <2>8. dead' \subseteq 1..devices BY <1>1, <2>1 DEF TypeOK
  <2>9. TypeOK'
    BY <1>1, <2>1, <2>5, <2>8 DEF TypeOK, lifeVars, apVars, fwVars, ThreadSet, Pcs
  <2>10. Claims' BY <2>1, <2>7 DEF IInv, Claims, lifeVars
  <2>11. Budget' BY <2>1, <2>7 DEF IInv, Budget, apVars
  <2> QED BY <2>9, <2>10, <2>11 DEF IInv
<1>6. CASE aoc_watchdog_restart
  <2>1. /\ UNCHANGED <<lifeVars, aoc_process_active, aoc_state, devices, services, dead, online_work,
                       monitor_work, total_restarts, crash_irq, thread>>
        /\ watchdog.pc = "restart" /\ watchdog' = [watchdog EXCEPT !.pc = "idle"]
        /\ loading' = TRUE \/ loading' = loading
        /\ up' = NewRegion(UpSlots) \/ up' = up
        /\ down' = NewRegion(DownSlots) \/ down' = down
        /\ fw' = "off" \/ fw' = fw
        /\ fw_waits' = FALSE \/ fw_waits' = fw_waits
    BY <1>6 DEF aoc_watchdog_restart, fwVars
  <2>2. /\ watchdog' \in [queued : BOOLEAN, pc : Wpc]
        /\ watchdog'.pc = "idle" /\ watchdog'.queued = watchdog.queued
    BY <1>2, <2>1
  <2>3. 0 \in 0..Modulus - 1 BY ModulusAssumption
  <2>4. up' \in Region(UpSlots) /\ down' \in Region(DownSlots)
    BY <1>1, <2>1, <2>3, RegionTypes DEF TypeOK
  <2>5. TypeOK'
    <3>1. /\ loading' \in BOOLEAN /\ fw_waits' \in BOOLEAN
          /\ fw' \in {"off", "booting", "up", "crashed"}
      BY <1>1, <2>1, Zenon DEF TypeOK
    <3>2. UNCHANGED <<lifeVars, aoc_process_active, aoc_state, devices, services, dead, online_work,
                      monitor_work, total_restarts, crash_irq, thread>>
      BY <2>1
    <3> QED BY <1>1, <2>2, <2>4, <3>1, <3>2 DEF TypeOK, lifeVars
  <2>6. Claims' BY <2>1 DEF IInv, Claims, Claimers, lifeVars
  <2>7. Budget' BY <1>1, <2>1, <2>2 DEF IInv, Budget, one
  <2> QED BY <2>5, <2>6, <2>7 DEF IInv
<1> QED BY <1>3, <1>4, <1>5, <1>6 DEF Watchdog

\* IInv is inductive.
LEMMA StepInv == IInv /\ [Next]_vars => IInv'
<1> SUFFICES ASSUME IInv, [Next]_vars PROVE IInv' OBVIOUS
<1>1. CASE UNCHANGED vars
  BY <1>1 DEF vars, apVars, fwVars, IInv, TypeOK, Claims, Claimers, Budget
<1>2. CASE acd_open \/ (\E d \in Device : acd_release(d)) \/ fw_ready \/ fw_write \/ fw_read \/ fw_crash
  BY <1>2, OutsideInv
<1>3. CASE \E t \in Thread : Call(t) \/ Progress(t) \/ service_interrupted(t) BY <1>3, CallsInv
<1>4. CASE Interrupt BY <1>4, InterruptInv
<1>5. CASE Watchdog BY <1>5, WatchdogInv
<1>6. CASE aoc_fw_callback \/ aoc_did_become_online BY <1>6, StartInv
<1>7. CASE watchdog_int_handler \/ reset_store \/ aoc_monitor_online BY <1>7, ResetInv
<1> QED BY <1>1, <1>2, <1>3, <1>4, <1>5, <1>6, <1>7 DEF Next

\* The initial states satisfy IInv.
LEMMA InitInv == Init => IInv
<1> SUFFICES ASSUME Init PROVE IInv OBVIOUS
<1>1. 0 \in 0..Modulus - 1 BY ModulusAssumption
<1>2. IdleThread \in ThreadSet(0) /\ IdleThread.pc = "idle"
  BY <1>1 DEF IdleThread, ThreadSet, Pcs
<1>3. thread \in [Thread -> ThreadSet(0)] /\ \A t \in Thread : thread[t].pc = "idle"
  BY <1>2 DEF Init
<1>4. up \in Region(UpSlots) /\ down \in Region(DownSlots)
  <2>1. UpSlots \in Nat \ {0} /\ DownSlots \in Nat \ {0} BY ServiceAssumption
  <2>2. NewRegion(UpSlots) \in Region(UpSlots) /\ NewRegion(DownSlots) \in Region(DownSlots)
    BY <2>1, ModulusAssumption DEF NewRegion, Region
  <2> QED BY <2>2 DEF Init
<1>5. Claimers = {} /\ Cardinality(Claimers) = 0
  BY <1>3, FS_EmptySet DEF Claimers, ClaimedPc
<1>6. Cardinality(Thread) \in Nat BY ClaimersFinite
<1>7. TypeOK
  <2>1. /\ irq \in [pending : BOOLEAN, pc : {"idle", "inc", "check", "scan", "leave"}]
        /\ watchdog \in [queued : BOOLEAN,
                         pc : {"idle", "dump", "cancelled", "drain", "remove", "restart"}]
    BY DEF Init
  <2>2. MaxRestart \in Nat BY ServiceAssumption
  <2>3. devices = 0 /\ aoc_process_active = 0 /\ services = 0 /\ dead = {} /\ open = {}
    BY DEF Init
  <2>4. thread \in [Thread -> ThreadSet(devices)] BY <1>3, <2>3
  <2>5. /\ aoc_state = "OFFLINE" /\ fw = "off" /\ blocked = {} /\ crash_irq = 1 /\ total_restarts = 0
        /\ online_work \in BOOLEAN /\ monitor_work \in BOOLEAN /\ loading \in BOOLEAN
        /\ fw_waits \in BOOLEAN
    BY DEF Init
  <2> QED BY <1>4, <1>6, <2>1, <2>2, <2>3, <2>4, <2>5 DEF TypeOK, ThreadSet, Pcs, MaxDisable
<1>8. Claims BY <1>5 DEF Init, Claims, one
<1>9. Budget BY <1>3 DEF Init, Budget, one
<1> QED BY <1>7, <1>8, <1>9 DEF IInv

\* The inductive invariant: types, and the counting behind them.
THEOREM Invariance == Spec => []IInv
BY InitInv, StepInv, PTL DEF Spec

\* Every variable keeps its type: aoc_process_active counts no more than the threads and the
\* handler, the crash interrupts are enabled no more often than disabled, and no more devices are
\* created than the AoC was started.
THEOREM TypeCorrect == Spec => []TypeOK
<1>1. IInv => TypeOK BY DEF IInv
<1> QED BY <1>1, Invariance, PTL

-----------------------------------------------------------------------------
(* The life of the AoC. *)

\* A request for a reset is only made while the watchdog work is idle.
LEMMA ResetEffect ==
    ASSUME OneReset, IInv, Phases, watchdog_int_handler \/ reset_store \/ aoc_monitor_online
    PROVE  /\ UNCHANGED resetVars /\ watchdog'.pc = watchdog.pc
           /\ \/ watchdog' = watchdog
              \/ watchdog.pc = "idle" /\ ~loading
<1>1. UNCHANGED resetVars BY DEF watchdog_int_handler, reset_store, aoc_monitor_online
<1>2. \/ watchdog' = watchdog
      \/ watchdog' = [watchdog EXCEPT !.queued = TRUE] /\ aoc_state # "SSR" /\ ~aoc_service_lock
  BY DEF watchdog_int_handler, reset_store, aoc_monitor_online, trigger_aoc_ssr
<1>3. watchdog'.pc = watchdog.pc BY <1>2, Zenon DEF IInv, TypeOK
<1>4. CASE watchdog_int_handler
  <2>1. crash_irq = 0 BY <1>4 DEF watchdog_int_handler
  <2> QED BY <1>1, <1>3, <2>1 DEF IInv, Budget, one
<1>5. CASE reset_store
  <2>1. watchdog.pc = "idle" /\ aoc_state = "ONLINE" BY <1>5 DEF reset_store, OneReset
  <2> QED BY <1>1, <1>3, <2>1 DEF Phases
<1>6. CASE aoc_monitor_online
  <2>1. watchdog' = watchdog \/ aoc_state = "FIRMWARE_LOADED"
    BY <1>6 DEF aoc_monitor_online
  <2>2. aoc_state = "FIRMWARE_LOADED" => watchdog.pc = "idle" /\ ~loading
    BY DEF Phases, IInv, TypeOK
  <2> QED BY <1>1, <1>3, <2>1, <2>2
<1> QED BY <1>4, <1>5, <1>6

\* The phases follow each other in order.
LEMMA PhasesNext ==
    ASSUME OneReset, IInv, Phases, [Next]_vars PROVE Phases'
<1>1. CASE UNCHANGED <<apVars, dead>> BY <1>1 DEF Phases, apVars
<1>2. CASE acd_open \/ (\E d \in Device : acd_release(d)) \/ fw_ready \/ fw_write \/ fw_read \/ fw_crash
  BY <1>1, <1>2 DEF acd_open, acd_release, fw_ready, fw_write, fw_read, fw_crash, fwUnchanged
<1>3. ASSUME NEW t \in Thread, Call(t) \/ Progress(t) \/ service_interrupted(t) PROVE Phases'
  BY <1>1, <1>3 DEF Call, Progress, service_interrupted, service_call, service_inc, service_check,
       service_ready, service_wait, service_unblock, service_recheck, service_copy, service_advance,
       service_leave, callVars
<1>4. CASE Interrupt
  <2>1. CASE aoc_mbox_rx_callback
    BY <2>1 DEF aoc_mbox_rx_callback, irqVars, Phases, IInv, TypeOK
  <2>2. CASE ~aoc_mbox_rx_callback
    BY <1>1, <1>4, <2>2 DEF Interrupt, process_inc, process_check, process_scan, process_leave,
         irqVars, apVars
  <2> QED BY <2>1, <2>2
<1>5. CASE aoc_watchdog
  <2>1. /\ UNCHANGED <<services, dead, online_work, loading>>
        /\ watchdog.queued /\ watchdog.pc = "idle" /\ aoc_state' = "SSR"
        /\ watchdog' = [queued |-> FALSE, pc |-> IF aoc_state = "SSR" THEN "idle" ELSE "dump"]
    BY <1>5 DEF aoc_watchdog
  <2>2. aoc_state # "SSR" BY <2>1 DEF Phases
  <2>3. watchdog'.pc = "dump" /\ watchdog'.queued = FALSE BY <2>1, <2>2
  <2> QED BY <2>1, <2>3 DEF Phases
<1>6. ASSUME NEW q \in {"idle", "dump", "cancelled", "drain", "remove", "restart"},
             watchdog' = [watchdog EXCEPT !.pc = q]
      PROVE  watchdog'.pc = q /\ watchdog'.queued = watchdog.queued
  BY <1>6, Zenon DEF IInv, TypeOK
<1>7. CASE watchdog_cancel
  <2>1. /\ UNCHANGED <<services, dead, loading, aoc_state>> /\ online_work' = FALSE
        /\ watchdog.pc = "dump" /\ watchdog' = [watchdog EXCEPT !.pc = "cancelled"]
    BY <1>7 DEF watchdog_cancel
  <2>2. watchdog'.pc = "cancelled" /\ watchdog'.queued = watchdog.queued BY <1>6, <2>1
  <2> QED BY <2>1, <2>2 DEF Phases
<1>8. CASE aoc_take_offline
  <2>1. /\ UNCHANGED <<services, dead, loading, online_work>> /\ watchdog.pc = "cancelled"
        /\ aoc_state \in {"ONLINE", "SSR"} =>
             watchdog' = [watchdog EXCEPT !.pc = "drain"] /\ aoc_state' = "OFFLINE"
    BY <1>8 DEF aoc_take_offline
  <2>2. aoc_state \in {"ONLINE", "SSR"} BY <2>1 DEF Phases
  <2>3. watchdog'.pc = "drain" /\ watchdog'.queued = watchdog.queued BY <1>6, <2>1, <2>2
  <2> QED BY <2>1, <2>2, <2>3 DEF Phases
<1>9. CASE aoc_wakeup_queues
  <2>1. UNCHANGED apVars /\ watchdog.pc = "drain" BY <1>9 DEF aoc_wakeup_queues
  <2> QED BY <2>1 DEF Phases, apVars
<1>10. CASE drained
  <2>1. /\ UNCHANGED <<services, dead, loading, online_work, aoc_state>>
        /\ watchdog.pc = "drain" /\ watchdog' = [watchdog EXCEPT !.pc = "remove"]
    BY <1>10 DEF drained
  <2>2. watchdog'.pc = "remove" /\ watchdog'.queued = watchdog.queued BY <1>6, <2>1
  <2> QED BY <2>1, <2>2 DEF Phases
<1>11. CASE aoc_remove_device
  <2>1. /\ UNCHANGED <<dead, loading, online_work, aoc_state>> /\ services' = 0
        /\ watchdog.pc = "remove" /\ watchdog' = [watchdog EXCEPT !.pc = "restart"]
    BY <1>11 DEF aoc_remove_device
  <2>2. watchdog'.pc = "restart" /\ watchdog'.queued = watchdog.queued BY <1>6, <2>1
  <2> QED BY <2>1, <2>2 DEF Phases
<1>12. CASE aoc_watchdog_restart
  <2>1. /\ UNCHANGED <<services, dead, online_work, aoc_state>>
        /\ watchdog.pc = "restart" /\ watchdog' = [watchdog EXCEPT !.pc = "idle"]
    BY <1>12 DEF aoc_watchdog_restart
  <2>2. watchdog'.pc = "idle" /\ watchdog'.queued = watchdog.queued BY <1>6, <2>1
  <2> QED BY <2>1, <2>2 DEF Phases
<1>13. CASE aoc_fw_callback
  <2>1. /\ UNCHANGED <<services, dead, online_work, watchdog>> /\ loading /\ loading' = FALSE
        /\ aoc_state' \in {"FIRMWARE_LOADED", "OFFLINE"}
    BY <1>13 DEF aoc_fw_callback
  <2> QED BY <2>1 DEF Phases
<1>14. CASE aoc_did_become_online
  <2>1. /\ UNCHANGED <<dead, watchdog, loading>> /\ online_work /\ online_work' = FALSE
        /\ ~aoc_service_lock
        /\ \/ services' = devices + 1 /\ aoc_state' = "ONLINE"
           \/ UNCHANGED <<services, aoc_state>>
    BY <1>14 DEF aoc_did_become_online
  <2>2. devices \in Nat /\ devices + 1 \notin dead /\ devices + 1 # 0
    BY ServiceAssumption DEF IInv, TypeOK
  <2> QED BY <2>1, <2>2 DEF Phases, aoc_service_lock
<1>15. CASE watchdog_int_handler \/ reset_store \/ aoc_monitor_online
  <2>1. /\ UNCHANGED resetVars /\ watchdog'.pc = watchdog.pc
        /\ watchdog' = watchdog \/ (watchdog.pc = "idle" /\ ~loading)
    BY <1>15, ResetEffect
  <2> QED BY <2>1 DEF Phases, resetVars
<1> QED
  BY <1>1, <1>2, <1>3, <1>4, <1>5, <1>7, <1>8, <1>9, <1>10, <1>11, <1>12, <1>13, <1>14, <1>15
  DEF Next, Watchdog, vars

\* Only the test of aoc_state brings a call past the gate.
LEMMA InsideStep ==
    ASSUME TypeOK, NEW t \in Thread, Call(t) \/ Progress(t) \/ service_interrupted(t)
    PROVE  \A u \in Thread : Inside(u)' => Inside(u) \/ aoc_state = "ONLINE"
<1>1. SUFFICES /\ \A u \in Thread \ {t} : thread'[u] = thread[u]
               /\ Inside(t)' => Inside(t) \/ aoc_state = "ONLINE"
  BY DEF Inside
<1>2. CASE Call(t)
  <2>1. PICK c \in Calls[t], d \in open : service_call(t, c, d) BY <1>2 DEF Call
  <2> QED BY <2>1, CallEffect DEF Inside
<1>3. CASE service_inc(t) BY <1>3, GoEffect DEF service_inc, Inside, Pcs
<1>4. CASE service_check(t) BY <1>4, GoEffect DEF service_check, Inside, Pcs
<1>5. CASE service_ready(t)
  <2>1. PICK to \in {"recheck", "wait", "leave"} : Go(t, "ready", to) BY <1>5 DEF service_ready
  <2> QED BY <2>1, GoEffect DEF Inside, Pcs
<1>6. CASE service_wait(t) BY <1>6, GoEffect DEF service_wait, Inside, Pcs
<1>7. CASE service_unblock(t) BY <1>7, GoEffect DEF service_unblock, Inside, Pcs
<1>8. CASE service_recheck(t) BY <1>8, RecheckEffect DEF Inside
<1>9. CASE service_copy(t) BY <1>9, CopyEffect DEF Inside
<1>10. CASE service_advance(t) BY <1>10, GoEffect DEF service_advance, Inside, Pcs
<1>11. CASE service_leave(t) BY <1>11, LeaveEffect DEF Inside
<1>12. CASE service_interrupted(t) BY <1>12, InterruptedEffect DEF Inside
<1> QED BY <1>2, <1>3, <1>4, <1>5, <1>6, <1>7, <1>8, <1>9, <1>10, <1>11, <1>12 DEF Progress

\* A step that only wakes sleepers: what else a thread holds stays.
Wakes ==
    \A u \in Thread :
        /\ thread'[u].call = thread[u].call /\ thread'[u].dev = thread[u].dev
        /\ thread'[u].failed = thread[u].failed /\ thread'[u].buffer = thread[u].buffer
        /\ thread'[u].pc = thread[u].pc \/ (thread[u].pc = "sleep" /\ thread'[u].pc = "wait")

\* The interrupt handler wakes the readers when there is a message, the writers when there is room.
LEMMA ScanEffect ==
    ASSUME TypeOK, process_scan
    PROVE  /\ Wakes
           /\ \A u \in Thread :
                thread[u].dev = services /\ QueueOf(u) \in blocked /\ can_proceed(u)
                    => thread'[u].pc # "sleep"
<1>1. thread \in [Thread -> ThreadSet(devices)] /\ devices \in Nat
  BY TypeOKThreads, ServiceAssumption DEF TypeOK
<1> DEFINE r == "read" \in blocked /\ aoc_service_can_read_message(up)
           w == "write" \in blocked /\ aoc_service_can_write_message(down)
           ths == IF r THEN woken(thread, services, "read") ELSE thread
<1>2. thread' = IF w THEN woken(ths, services, "write") ELSE ths BY DEF process_scan
<1>3. /\ ths \in [Thread -> ThreadSet(devices)]
      /\ \A u \in Thread :
           /\ ths[u].call = thread[u].call /\ ths[u].dev = thread[u].dev
           /\ ths[u].failed = thread[u].failed /\ ths[u].buffer = thread[u].buffer
           /\ ths[u].pc = thread[u].pc \/ (thread[u].pc = "sleep" /\ ths[u].pc = "wait")
           /\ r /\ thread[u].dev = services /\ thread[u].call \in Readers => ths[u].pc # "sleep"
  <2>1. CASE r
    <3>1. ths = woken(thread, services, "read") BY <2>1
    <3> HIDE DEF ths
    <3> QED BY <1>1, <3>1, WokenTypes
  <2>2. CASE ~r
    <3>1. ths = thread BY <2>2
    <3> HIDE DEF ths
    <3> QED BY <1>1, <2>2, <3>1
  <2> QED BY <2>1, <2>2
<1> HIDE DEF ths
<1>4. \A u \in Thread :
           /\ thread'[u].call = ths[u].call /\ thread'[u].dev = ths[u].dev
           /\ thread'[u].failed = ths[u].failed /\ thread'[u].buffer = ths[u].buffer
           /\ thread'[u].pc = ths[u].pc \/ (ths[u].pc = "sleep" /\ thread'[u].pc = "wait")
           /\ w /\ ths[u].dev = services /\ ths[u].call \notin Readers => thread'[u].pc # "sleep"
  <2>1. CASE w
    <3>1. thread' = woken(ths, services, "write") BY <1>2, <2>1
    <3> QED BY <1>1, <1>3, <3>1, WokenTypes
  <2>2. CASE ~w
    <3>1. thread' = ths BY <1>2, <2>2
    <3> QED BY <2>2, <3>1
  <2> QED BY <2>1, <2>2
<1>5. Wakes BY <1>3, <1>4 DEF Wakes
<1>6. ASSUME NEW u \in Thread, thread[u].dev = services, QueueOf(u) \in blocked, can_proceed(u)
      PROVE  thread'[u].pc # "sleep"
  <2>1. CASE thread[u].call \in Readers
    <3>1. r BY <1>6, <2>1 DEF QueueOf, IsRead, can_proceed
    <3>2. ths[u].pc # "sleep" BY <1>3, <1>6, <2>1, <3>1
    <3> QED BY <1>4, <3>2
  <2>2. CASE thread[u].call \notin Readers
    <3>1. w BY <1>6, <2>2 DEF QueueOf, IsRead, can_proceed
    <3> QED BY <1>3, <1>4, <1>6, <2>2, <3>1
  <2> QED BY <2>1, <2>2
<1> QED BY <1>5, <1>6

\* aoc_take_offline wakes everybody on the registered device.
LEMMA WakeupEffect == ASSUME TypeOK, aoc_wakeup_queues PROVE Wakes
<1>1. thread \in [Thread -> ThreadSet(devices)] /\ devices \in Nat
  BY TypeOKThreads, ServiceAssumption DEF TypeOK
<1> DEFINE ths == woken(thread, services, "read")
<1>2. thread' = woken(ths, services, "write") BY DEF aoc_wakeup_queues
<1>3. ths = woken(thread, services, "read") OBVIOUS
<1> HIDE DEF ths
<1>4. /\ ths \in [Thread -> ThreadSet(devices)]
      /\ \A u \in Thread :
           /\ ths[u].call = thread[u].call /\ ths[u].dev = thread[u].dev
           /\ ths[u].failed = thread[u].failed /\ ths[u].buffer = thread[u].buffer
           /\ ths[u].pc = thread[u].pc \/ (thread[u].pc = "sleep" /\ ths[u].pc = "wait")
  BY <1>1, <1>3, WokenTypes
<1>5. \A u \in Thread :
           /\ thread'[u].call = ths[u].call /\ thread'[u].dev = ths[u].dev
           /\ thread'[u].failed = ths[u].failed /\ thread'[u].buffer = ths[u].buffer
           /\ thread'[u].pc = ths[u].pc \/ (ths[u].pc = "sleep" /\ thread'[u].pc = "wait")
  BY <1>1, <1>2, <1>4, WokenTypes
<1> QED BY <1>4, <1>5 DEF Wakes

\* Nobody is inside when the count of claims is 0.
LEMMA DrainedIsEmpty ==
    ASSUME IInv, aoc_process_active = 0
    PROVE  irq.pc # "scan" /\ \A t \in Thread : ~Inside(t)
<1>1. Claimers \subseteq Thread BY DEF Claimers
<1>2. Cardinality(Claimers) \in Nat /\ (Cardinality(Claimers) = 0 => Claimers = {})
  BY <1>1, ClaimersFinite
<1>3. Cardinality(Claimers) = 0 /\ irq.pc # "scan" BY <1>2 DEF IInv, Claims, one
<1> QED BY <1>2, <1>3 DEF Claimers, ClaimedPc, Inside

\* The gate: whoever is inside keeps the device registered and the watchdog work in its drain.
LEMMA InsideNext ==
    ASSUME OneReset, IInv, Life, [Next]_vars PROVE InsideMeansUp'
<1>1. aoc_state = "ONLINE" => services # 0 /\ watchdog.pc \notin {"remove", "restart"}
  BY DEF Life, Phases
<1>2. CASE /\ UNCHANGED <<services, watchdog>> /\ (irq'.pc = "scan" => irq.pc = "scan")
           /\ \A u \in Thread : thread'[u].pc = thread[u].pc
  BY <1>2 DEF Life, InsideMeansUp, Inside
<1>3. CASE UNCHANGED vars BY <1>2, <1>3 DEF vars, apVars
<1>4. CASE acd_open \/ (\E d \in Device : acd_release(d)) \/ fw_ready \/ fw_write \/ fw_read \/ fw_crash
  <2>1. UNCHANGED <<apVars, thread>> /\ (irq' = irq \/ irq' = [irq EXCEPT !.pending = TRUE])
    BY <1>4 DEF acd_open, acd_release, fw_ready, fw_write, fw_read, fw_crash, fwUnchanged
  <2>2. irq'.pc = irq.pc BY <2>1, Zenon DEF IInv, TypeOK
  <2> QED BY <1>2, <2>1, <2>2 DEF apVars
<1>5. ASSUME NEW t \in Thread, Call(t) \/ Progress(t) \/ service_interrupted(t)
      PROVE  InsideMeansUp'
  <2>1. UNCHANGED <<callVars, irq>>
    BY <1>5 DEF Call, Progress, service_interrupted, service_call, service_inc, service_check,
       service_ready, service_wait, service_unblock, service_recheck, service_copy, service_advance,
       service_leave
  <2>2. \A u \in Thread : Inside(u)' => Inside(u) \/ aoc_state = "ONLINE"
    BY <1>5, InsideStep DEF IInv
  <2>3. UNCHANGED <<services, watchdog, irq>> BY <2>1 DEF callVars, apVars
  <2> QED BY <1>1, <2>2, <2>3 DEF Life, InsideMeansUp
<1>6. CASE aoc_mbox_rx_callback
  <2>1. /\ UNCHANGED <<services, watchdog, thread>>
        /\ irq' = [pending |-> FALSE, pc |-> IF aoc_state = "ONLINE" THEN "inc" ELSE "idle"]
    BY <1>6 DEF aoc_mbox_rx_callback, irqVars
  <2>2. irq'.pc # "scan" BY <2>1
  <2> QED BY <1>2, <2>1, <2>2
<1>7. CASE process_inc \/ process_check \/ process_leave
  <2>1. /\ UNCHANGED <<services, watchdog, thread>>
        /\ \E p \in {"idle", "check", "scan", "leave"} :
             irq' = [irq EXCEPT !.pc = p] /\ (p = "scan" => aoc_state = "ONLINE")
    BY <1>7 DEF process_inc, process_check, process_leave, irqVars
  <2>2. irq'.pc = "scan" => aoc_state = "ONLINE" BY <2>1, Zenon DEF IInv, TypeOK
  <2> QED BY <1>1, <2>1, <2>2 DEF Life, InsideMeansUp, Inside
<1>8. CASE process_scan
  <2>1. UNCHANGED <<services, watchdog>> /\ irq' = [irq EXCEPT !.pc = "leave"]
    BY <1>8 DEF process_scan, irqVars
  <2>2. irq'.pc = "leave" BY <2>1, Zenon DEF IInv, TypeOK
  <2>3. Wakes BY <1>8, ScanEffect DEF IInv
  <2>4. \A u \in Thread : Inside(u)' => Inside(u) BY <2>3 DEF Wakes, Inside
  <2> QED BY <2>1, <2>2, <2>4 DEF Life, InsideMeansUp
<1>9. CASE aoc_watchdog \/ watchdog_cancel \/ aoc_take_offline
  <2>1. /\ UNCHANGED <<services, irq, thread>>
        /\ watchdog.pc \in {"idle", "dump", "cancelled"}
    BY <1>9 DEF aoc_watchdog, watchdog_cancel, aoc_take_offline, lifeVars
  <2>2. watchdog'.pc \notin {"remove", "restart"}
    <3>1. CASE aoc_watchdog BY <3>1 DEF aoc_watchdog
    <3>2. CASE watchdog_cancel
      <4>1. watchdog' = [watchdog EXCEPT !.pc = "cancelled"] BY <3>2 DEF watchdog_cancel
      <4>2. watchdog'.pc = "cancelled" BY <4>1, Zenon DEF IInv, TypeOK
      <4> QED BY <4>2
    <3>3. CASE aoc_take_offline
      <4>1. watchdog' = [watchdog EXCEPT !.pc = "drain"]
        BY <3>3 DEF aoc_take_offline, Life, Phases
      <4>2. watchdog'.pc = "drain" BY <4>1, Zenon DEF IInv, TypeOK
      <4> QED BY <4>2
    <3> QED BY <1>9, <3>1, <3>2, <3>3
  <2> QED BY <2>1, <2>2 DEF Life, InsideMeansUp, Inside
<1>10. CASE aoc_wakeup_queues
  <2>1. UNCHANGED <<services, watchdog, irq>> BY <1>10 DEF aoc_wakeup_queues, apVars, lifeVars
  <2>2. Wakes BY <1>10, WakeupEffect DEF IInv
  <2>3. \A u \in Thread : Inside(u)' => Inside(u) BY <2>2 DEF Wakes, Inside
  <2> QED BY <2>1, <2>3 DEF Life, InsideMeansUp
<1>11. CASE drained \/ aoc_remove_device \/ aoc_watchdog_restart
  <2>1. UNCHANGED <<thread, irq>> BY <1>11 DEF drained, aoc_remove_device, aoc_watchdog_restart, lifeVars
  <2>2. irq.pc # "scan" /\ \A t \in Thread : ~Inside(t)
    BY <1>11, DrainedIsEmpty DEF drained, aoc_remove_device, aoc_watchdog_restart, Life, InsideMeansUp
  <2> QED BY <2>1, <2>2 DEF InsideMeansUp, Inside
<1>12. CASE aoc_fw_callback
  BY <1>2, <1>12 DEF aoc_fw_callback, lifeVars
<1>13. CASE aoc_did_become_online
  <2>1. /\ UNCHANGED <<watchdog, irq, thread>> /\ online_work
    BY <1>13 DEF aoc_did_become_online, lifeVars
  <2>2. services = 0 BY <2>1 DEF Life, Phases
  <2> QED BY <2>1, <2>2 DEF Life, InsideMeansUp, Inside
<1>14. CASE watchdog_int_handler \/ reset_store \/ aoc_monitor_online
  <2>1. UNCHANGED resetVars /\ watchdog'.pc = watchdog.pc BY <1>14, ResetEffect DEF Life
  <2> QED BY <2>1 DEF Life, InsideMeansUp, Inside, resetVars, lifeVars
<1> QED
  BY <1>3, <1>4, <1>5, <1>6, <1>7, <1>8, <1>9, <1>10, <1>11, <1>12, <1>13, <1>14
  DEF Next, Interrupt, Watchdog

\* The life of the AoC goes through its phases in order, and the gate holds, as long as resets do
\* not overlap.
LEMMA AlwaysLife == ASSUME OneReset PROVE Spec => [](IInv /\ Life)
<1>1. Init => Life
  BY ServiceAssumption DEF Init, Life, Phases, InsideMeansUp, Inside, IdleThread
<1>2. IInv /\ Life /\ [Next]_vars => Life'
  BY PhasesNext, InsideNext DEF Life
<1> QED BY <1>1, <1>2, InitInv, StepInv, PTL DEF Spec

\* Nobody uses the shared memory or the device table while the watchdog work removes the devices
\* and resets the AoC, for any number of callers and restarts.
THEOREM GateHolds == ASSUME OneReset PROVE Spec => []InsideMeansUp
<1>1. Life => InsideMeansUp BY DEF Life
<1> QED BY <1>1, AlwaysLife, PTL

-----------------------------------------------------------------------------
(* Sleepers. *)

\* Two calls under way are on different queues.
LEMMA DifferentQueues ==
    ASSUME OneCaller, IInv, NEW t \in Thread, NEW u \in Thread, t # u,
           thread[t].pc # "idle", thread[u].pc # "idle"
    PROVE  QueueOf(t) # QueueOf(u) /\ IsRead(t) # IsRead(u)
<1>1. thread[t].call \in Calls[t] /\ thread[u].call \in Calls[u] BY DEF IInv, Budget
<1>2. Calls[t] \subseteq Readers \cup Writers /\ Calls[u] \subseteq Readers \cup Writers
  BY ServiceAssumption
<1>3. ~(thread[t].call \in Readers /\ thread[u].call \in Readers) BY <1>1 DEF OneCaller
<1>4. ~(thread[t].call \in Writers /\ thread[u].call \in Writers) BY <1>1 DEF OneCaller
<1> QED BY <1>1, <1>2, <1>3, <1>4 DEF QueueOf, IsRead

\* What a step of the call of t does to the threads and the regions.
CallStep(t) ==
    /\ UNCHANGED <<callVars, irq>>
    /\ \A u \in Thread \ {t} : thread'[u] = thread[u]
    /\ thread[t].pc # "idle" => \/ thread'[t].call = thread[t].call /\ thread'[t].dev = thread[t].dev
                                \/ thread'[t].pc = "idle"
    /\ thread[t].pc = "idle" => thread'[t].pc = "inc"
    /\ UNCHANGED up \/ (IsRead(t) /\ thread[t].pc = "advance")
    /\ UNCHANGED down \/ (~IsRead(t) /\ thread[t].pc \in {"copy", "advance"})
    /\ \/ UNCHANGED blocked
       \/ blocked' = blocked \cup {QueueOf(t)}
       \/ blocked' = blocked \ {QueueOf(t)} /\ thread[t].pc = "unblock" /\ thread'[t].pc = "recheck"
    /\ thread'[t].pc = "wait" => thread[t].pc = "ready" /\ QueueOf(t) \in blocked'
    /\ thread'[t].pc = "sleep" =>
         thread[t].pc = "wait" /\ ~WaitOver(t) /\ UNCHANGED <<up, down, blocked>>
    /\ thread'[t].pc = "unblock" =>
         /\ thread[t].pc \in {"wait", "sleep"} /\ UNCHANGED <<up, down, blocked>>
         /\ WaitOver(t) \/ thread'[t].failed
    /\ thread'[t].pc = "recheck" =>
         /\ UNCHANGED <<up, down>> /\ thread'[t].failed = thread[t].failed
         /\ thread[t].pc = "unblock" \/ (thread[t].pc = "ready" /\ can_proceed(t))
    /\ thread'[t].pc = "copy" =>
         /\ thread[t].pc = "recheck" /\ UNCHANGED <<up, down>>
         /\ thread[t].dev \notin dead /\ aoc_state = "ONLINE" /\ ~thread[t].failed
    /\ thread'[t].pc = "advance" => service_copy(t)
    /\ thread[t].pc = "advance" => service_advance(t)

\* A step of a call is such a step.
LEMMA CallStepOf ==
    ASSUME TypeOK, NEW t \in Thread, Call(t) \/ Progress(t) \/ service_interrupted(t)
    PROVE  CallStep(t)
<1>1. CASE Call(t)
  <2>1. PICK c \in Calls[t], d \in open : service_call(t, c, d) BY <1>1 DEF Call
  <2>2. UNCHANGED <<callVars, irq, blocked, up, down>> BY <2>1 DEF service_call
  <2> HIDE DEF callVars
  <2> QED BY <2>1, <2>2, CallEffect DEF CallStep
<1>2. CASE service_inc(t)
  <2>1. UNCHANGED <<callVars, irq, blocked, up, down>> /\ Go(t, "inc", "check")
    BY <1>2 DEF service_inc
  <2> QED BY <2>1, GoEffect DEF CallStep, Pcs
<1>3. CASE service_check(t)
  <2>1. UNCHANGED <<callVars, irq, blocked, up, down>> BY <1>3 DEF service_check
  <2>2. PICK to \in {"ready", "leave"} : Go(t, "check", to) BY <1>3 DEF service_check
  <2> QED BY <2>1, <2>2, GoEffect DEF CallStep, Pcs
<1>4. CASE service_ready(t)
  <2>1. UNCHANGED <<callVars, irq, up, down>> BY <1>4 DEF service_ready
  <2>2. PICK to \in {"recheck", "wait", "leave"} :
          /\ Go(t, "ready", to) /\ (to = "recheck" => can_proceed(t))
          /\ to = "wait" => blocked' = blocked \cup {QueueOf(t)}
          /\ to # "wait" => blocked' = blocked
    BY <1>4 DEF service_ready
  <2>3. CASE to = "recheck" BY <2>1, <2>2, <2>3, GoEffect DEF CallStep, Pcs
  <2>4. CASE to = "wait" BY <2>1, <2>2, <2>4, GoEffect DEF CallStep, Pcs
  <2>5. CASE to = "leave" BY <2>1, <2>2, <2>5, GoEffect DEF CallStep, Pcs
  <2> QED BY <2>3, <2>4, <2>5
<1>5. CASE service_wait(t)
  <2>1. UNCHANGED <<callVars, irq, blocked, up, down>> BY <1>5 DEF service_wait
  <2>2. PICK to \in {"unblock", "sleep"} :
          Go(t, "wait", to) /\ (to = "unblock" => WaitOver(t)) /\ (to = "sleep" => ~WaitOver(t))
    BY <1>5 DEF service_wait
  <2> QED BY <2>1, <2>2, GoEffect DEF CallStep, Pcs
<1>6. CASE service_unblock(t)
  <2>1. UNCHANGED <<callVars, irq, up, down>> /\ blocked' = blocked \ {QueueOf(t)}
    BY <1>6 DEF service_unblock
  <2>2. Go(t, "unblock", "recheck") BY <1>6 DEF service_unblock
  <2> QED BY <2>1, <2>2, GoEffect DEF CallStep, Pcs
<1>7. CASE service_recheck(t)
  <2>1. UNCHANGED <<callVars, irq, blocked, up, down>> BY <1>7 DEF service_recheck
  <2> QED BY <1>7, <2>1, RecheckEffect DEF CallStep
<1>8. CASE service_copy(t)
  <2>1. UNCHANGED <<callVars, irq, blocked, up>> /\ (down' = down \/ ~IsRead(t))
    BY <1>8 DEF service_copy
  <2> QED BY <1>8, <2>1, CopyEffect DEF CallStep
<1>9. CASE service_advance(t)
  <2>1. /\ UNCHANGED <<callVars, irq, blocked>> /\ Go(t, "advance", "leave")
        /\ up' = up \/ IsRead(t)
        /\ down' = down \/ ~IsRead(t)
    BY <1>9 DEF service_advance
  <2> QED BY <1>9, <2>1, GoEffect DEF CallStep, Pcs
<1>10. CASE service_leave(t)
  <2>1. UNCHANGED <<callVars, irq, blocked, up, down>> BY <1>10 DEF service_leave
  <2> QED BY <1>10, <2>1, LeaveEffect DEF CallStep
<1>11. CASE service_interrupted(t)
  <2>1. UNCHANGED <<callVars, irq, blocked, up, down>> BY <1>11 DEF service_interrupted
  <2> QED BY <1>11, <2>1, InterruptedEffect DEF CallStep
<1> QED BY <1>1, <1>2, <1>3, <1>4, <1>5, <1>6, <1>7, <1>8, <1>9, <1>10, <1>11 DEF Progress

\* What every other step does to the threads.
LEMMA OtherStep ==
    ASSUME TypeOK, [Next]_vars,
           ~\E t \in Thread : Call(t) \/ Progress(t) \/ service_interrupted(t)
    PROVE  UNCHANGED blocked /\ Wakes
<1>1. UNCHANGED thread => Wakes BY DEF Wakes
<1>2. CASE UNCHANGED vars BY <1>1, <1>2 DEF vars
<1>3. CASE acd_open \/ (\E d \in Device : acd_release(d)) \/ fw_ready \/ fw_write \/ fw_read \/ fw_crash
  BY <1>1, <1>3 DEF acd_open, acd_release, fw_ready, fw_write, fw_read, fw_crash, fwUnchanged
<1>4. CASE process_scan BY <1>4, ScanEffect DEF process_scan, irqVars
<1>5. CASE Interrupt /\ ~process_scan
  BY <1>1, <1>5 DEF Interrupt, aoc_mbox_rx_callback, process_inc, process_check, process_leave, irqVars
<1>6. CASE aoc_wakeup_queues BY <1>6, WakeupEffect DEF aoc_wakeup_queues, lifeVars
<1>7. CASE Watchdog /\ ~aoc_wakeup_queues
  BY <1>1, <1>7 DEF Watchdog, aoc_watchdog, watchdog_cancel, aoc_take_offline, drained,
       aoc_remove_device, aoc_watchdog_restart, lifeVars
<1>8. CASE aoc_fw_callback \/ aoc_did_become_online
  BY <1>1, <1>8 DEF aoc_fw_callback, aoc_did_become_online, lifeVars
<1>9. CASE watchdog_int_handler \/ reset_store \/ aoc_monitor_online
  BY <1>1, <1>9 DEF watchdog_int_handler, reset_store, aoc_monitor_online, resetVars, lifeVars
<1> QED BY <1>2, <1>3, <1>4, <1>5, <1>6, <1>7, <1>8, <1>9 DEF Next

Bits ==
    \A t \in Thread : thread[t].pc \in {"wait", "sleep", "unblock"} => QueueOf(t) \in blocked

\* Nobody clears the bit of a call that is waiting.
LEMMA BitsNext ==
    ASSUME OneCaller, IInv, Bits, [Next]_vars PROVE Bits'
<1>1. ASSUME NEW t \in Thread, Call(t) \/ Progress(t) \/ service_interrupted(t) PROVE Bits'
  <2>1. CallStep(t) BY <1>1, CallStepOf DEF IInv
  <2>2. SUFFICES ASSUME NEW u \in Thread, thread'[u].pc \in {"wait", "sleep", "unblock"}
                 PROVE  (QueueOf(u) \in blocked)'
    BY DEF Bits
  <2>3. CASE u = t
    <3>1. thread'[t].call = thread[t].call BY <2>1, <2>2, <2>3 DEF CallStep
    <3>2. QueueOf(t)' = QueueOf(t) BY <3>1 DEF QueueOf, IsRead
    <3>3. QueueOf(t) \in blocked' BY <2>1, <2>2, <2>3 DEF CallStep, Bits
    <3> QED BY <2>3, <3>2, <3>3
  <2>4. CASE u # t
    <3>1. thread'[u] = thread[u] BY <2>1, <2>4 DEF CallStep
    <3>2. QueueOf(u)' = QueueOf(u) /\ QueueOf(u) \in blocked
      BY <2>2, <3>1 DEF QueueOf, IsRead, Bits
    <3>3. thread[t].pc = "unblock" => QueueOf(u) # QueueOf(t)
      BY <2>2, <2>4, <3>1, DifferentQueues
    <3>4. QueueOf(u) \in blocked' BY <2>1, <3>2, <3>3 DEF CallStep
    <3> QED BY <3>2, <3>4
  <2> QED BY <2>3, <2>4
<1>2. CASE ~\E t \in Thread : Call(t) \/ Progress(t) \/ service_interrupted(t)
  BY <1>2, OtherStep DEF IInv, Wakes, Bits, QueueOf, IsRead
<1> QED BY <1>1, <1>2

Waker ==
    irq.pending \/ irq.pc \in {"inc", "check", "scan"} \/ watchdog.pc \in {"dump", "cancelled", "drain"}

\* A caller asleep on the current device when the AoC goes down: the watchdog work is coming. Stated
\* of the state after a step.
LEMMA GoingDown ==
    ASSUME IInv', Life', NEW t \in Thread, thread'[t].pc = "sleep", thread'[t].dev = services',
           aoc_state' # "ONLINE" \/ thread'[t].dev \in dead'
    PROVE  watchdog'.pc \in {"dump", "cancelled", "drain"}
<1>1. services' # 0 BY DEF IInv, Budget
<1>2. watchdog'.pc \notin {"remove", "restart"} BY DEF Life, InsideMeansUp, Inside
<1>3. watchdog'.pc \in {"idle", "dump", "cancelled", "drain", "remove", "restart"} BY DEF IInv, TypeOK
<1> QED BY <1>1, <1>2, <1>3 DEF Life, Phases

\* A step by which somebody sleeps whose wait is over leaves a waker.
LEMMA WakerNext ==
    ASSUME OneReset, OneCaller, IInv, Life, Bits, SleeperHasWaker, [Next]_vars
    PROVE  SleeperHasWaker'
<1> SUFFICES ASSUME NEW u \in Thread, thread'[u].pc = "sleep", thread'[u].dev = services',
                    WaitOver(u)'
             PROVE  Waker'
  BY DEF SleeperHasWaker, Waker
<1>0. IInv' /\ Life' BY StepInv, PhasesNext, InsideNext DEF Life
<1>1. CASE aoc_state' # "ONLINE" \/ thread'[u].dev \in dead' BY <1>0, <1>1, GoingDown DEF Waker
<1>2. CASE aoc_state' = "ONLINE" /\ thread'[u].dev \notin dead'
 <2>1. can_proceed(u)' BY <1>2 DEF WaitOver
 <2>2. services' # 0 BY <1>0 DEF IInv, Budget
 <2>3. CASE /\ thread[u].pc = "sleep" /\ thread[u].dev = services /\ can_proceed(u)
            /\ irq.pending => irq'.pending
            /\ irq.pc \in {"inc", "check", "scan"} => irq'.pc \in {"inc", "check", "scan"}
            /\ watchdog.pc \in {"dump", "cancelled", "drain"} =>
                 watchdog'.pc \in {"dump", "cancelled", "drain"}
   BY <2>3 DEF SleeperHasWaker, WaitOver, Waker
 <2>4. ASSUME NEW t \in Thread, Call(t) \/ Progress(t) \/ service_interrupted(t) PROVE Waker'
   <3>1. CallStep(t) BY <2>4, CallStepOf DEF IInv
   <3>2. UNCHANGED <<irq, watchdog, services, aoc_state, dead>>
     BY <3>1 DEF CallStep, callVars, apVars
   <3>3. CASE u = t
     <4>1. ~WaitOver(t) /\ UNCHANGED <<up, down>> /\ thread'[t].call = thread[t].call
       BY <3>1, <3>3 DEF CallStep
     <4> QED BY <2>1, <3>3, <4>1 DEF WaitOver, can_proceed, IsRead
   <3>4. CASE u # t
     <4>1. thread'[u] = thread[u] BY <3>1, <3>4 DEF CallStep
     <4>2. thread[t].pc # "idle" => IsRead(t) # IsRead(u) BY <3>4, <4>1, DifferentQueues
     <4>3. IsRead(u) => UNCHANGED up BY <3>1, <4>2 DEF CallStep
     <4>4. ~IsRead(u) => UNCHANGED down BY <3>1, <4>2 DEF CallStep, IsRead
     <4>5. can_proceed(u) BY <2>1, <4>1, <4>3, <4>4 DEF can_proceed, IsRead
     <4> QED BY <2>3, <3>2, <4>1, <4>5
   <3> QED BY <3>3, <3>4
 <2>5. CASE ~\E t \in Thread : Call(t) \/ Progress(t) \/ service_interrupted(t)
  <3>1. Wakes /\ UNCHANGED blocked BY <2>5, OtherStep DEF IInv
  <3>2. /\ thread[u].pc = "sleep" /\ thread'[u].dev = thread[u].dev
        /\ thread'[u].call = thread[u].call
    BY <3>1 DEF Wakes
  <3>3. UNCHANGED <<up, down>> => can_proceed(u) BY <2>1, <3>2 DEF can_proceed, IsRead
  <3>4. services # 0 /\ watchdog.pc \notin {"remove", "restart"}
    BY <3>2 DEF Life, InsideMeansUp, Inside
  <3>5. CASE UNCHANGED vars BY <2>3, <3>2, <3>3, <3>5 DEF vars, apVars
  <3>6. CASE acd_open \/ (\E d \in Device : acd_release(d)) \/ fw_ready \/ fw_crash
    <4>1. /\ UNCHANGED <<up, down, apVars>>
          /\ irq' = irq \/ irq' = [irq EXCEPT !.pending = TRUE]
      BY <3>6 DEF acd_open, acd_release, fw_ready, fw_crash, fwUnchanged
    <4>2. irq'.pc = irq.pc /\ (irq.pending => irq'.pending)
      BY <4>1, Zenon DEF IInv, TypeOK
    <4> QED BY <2>3, <3>2, <3>3, <4>1, <4>2 DEF apVars
  <3>7. CASE fw_write \/ fw_read
    <4>1. UNCHANGED apVars BY <3>7 DEF fw_write, fw_read, fwUnchanged
    <4>2. CASE UNCHANGED <<up, down, irq>> BY <2>3, <3>2, <3>3, <4>1, <4>2 DEF apVars
    <4>3. CASE irq' = [irq EXCEPT !.pending = TRUE]
      <5>1. irq'.pending BY <4>3, Zenon DEF IInv, TypeOK
      <5> QED BY <5>1 DEF Waker
    <4> QED BY <3>7, <4>2, <4>3 DEF fw_write, fw_read
  <3>8. CASE aoc_mbox_rx_callback
    <4>1. /\ irq' = [pending |-> FALSE, pc |-> IF aoc_state = "ONLINE" THEN "inc" ELSE "idle"]
          /\ aoc_state' = "ONLINE" => aoc_state = "ONLINE"
      BY <3>8 DEF aoc_mbox_rx_callback
    <4>2. irq'.pc = "inc" BY <1>2, <4>1
    <4> QED BY <4>2 DEF Waker
  <3>9. CASE process_inc \/ process_check
    <4>1. aoc_state' = aoc_state BY <3>9 DEF process_inc, process_check
    <4>2. irq' = [irq EXCEPT !.pc = "check"] \/ irq' = [irq EXCEPT !.pc = "scan"]
      BY <1>2, <3>9, <4>1 DEF process_inc, process_check
    <4>3. irq'.pc \in {"check", "scan"} BY <4>2, Zenon DEF IInv, TypeOK
    <4> QED BY <4>3 DEF Waker
  <3>10. CASE process_scan
    <4>1. UNCHANGED <<up, down, services>> BY <3>10 DEF process_scan, irqVars
    <4>2. thread[u].dev = services /\ QueueOf(u) \in blocked /\ can_proceed(u)
      BY <3>2, <3>3, <4>1 DEF Bits
    <4> QED BY <3>10, <4>2, ScanEffect DEF IInv
  <3>11. CASE process_leave
    <4>1. /\ UNCHANGED <<up, down, services, watchdog>> /\ irq.pc = "leave"
          /\ irq' = [irq EXCEPT !.pc = "idle"]
      BY <3>11 DEF process_leave, irqVars
    <4>2. irq'.pending = irq.pending BY <4>1, Zenon DEF IInv, TypeOK
    <4> QED BY <2>3, <3>2, <3>3, <4>1, <4>2
  <3>12. CASE aoc_watchdog BY <1>2, <3>12 DEF aoc_watchdog
  <3>13. CASE watchdog_cancel
    <4>1. watchdog' = [watchdog EXCEPT !.pc = "cancelled"] BY <3>13 DEF watchdog_cancel
    <4>2. watchdog'.pc = "cancelled" BY <4>1, Zenon DEF IInv, TypeOK
    <4> QED BY <4>2 DEF Waker
  <3>14. CASE aoc_take_offline
    <4>1. watchdog' = [watchdog EXCEPT !.pc = "drain"] BY <3>14 DEF aoc_take_offline, Life, Phases
    <4>2. watchdog'.pc = "drain" BY <4>1, Zenon DEF IInv, TypeOK
    <4> QED BY <4>2 DEF Waker
  <3>15. CASE aoc_wakeup_queues
    BY <3>15 DEF aoc_wakeup_queues, apVars, Waker
  <3>16. CASE drained BY <3>2, <3>16, DrainedIsEmpty DEF drained, Inside
  <3>17. CASE aoc_remove_device \/ aoc_watchdog_restart
    BY <3>4, <3>17 DEF aoc_remove_device, aoc_watchdog_restart
  <3>18. CASE aoc_fw_callback BY <3>4, <3>18 DEF aoc_fw_callback, Life, Phases
  <3>19. CASE aoc_did_become_online BY <3>4, <3>19 DEF aoc_did_become_online, Life, Phases
  <3>20. CASE watchdog_int_handler \/ reset_store \/ aoc_monitor_online
    <4>1. UNCHANGED resetVars /\ watchdog'.pc = watchdog.pc BY <3>20, ResetEffect DEF Life
    <4> QED BY <2>3, <3>2, <3>3, <4>1 DEF resetVars, lifeVars
  <3> QED
    BY <2>5, <3>5, <3>6, <3>7, <3>8, <3>9, <3>10, <3>11, <3>12, <3>13, <3>14, <3>15, <3>16, <3>17,
       <3>18, <3>19, <3>20
    DEF Next, Interrupt, Watchdog
 <2> QED BY <2>4, <2>5
<1> QED BY <1>1, <1>2

\* Nobody sleeps on the current device with its wait over and no interrupt or watchdog work to
\* wake it: for any number of restarts, with one reader and one writer of the service.
THEOREM NoLostSleeper == ASSUME OneReset, OneCaller PROVE Spec => []SleeperHasWaker
<1>1. Init => Bits /\ SleeperHasWaker
  BY DEF Init, Bits, SleeperHasWaker, IdleThread
<1>2. IInv /\ Life /\ Bits /\ SleeperHasWaker /\ [Next]_vars => Bits' /\ SleeperHasWaker'
  BY BitsNext, WakerNext
<1> QED BY <1>1, <1>2, AlwaysLife, PTL DEF Spec

-----------------------------------------------------------------------------
(* The remainders that the counters and the slots are computed with. *)

\* Division with remainder.
LEMMA Division ==
    ASSUME NEW s \in Nat \ {0}, NEW a \in Int
    PROVE  \E q \in Int, r \in 0..s - 1 : a = s * q + r /\ r = a % s
OBVIOUS

\* Quotient and remainder are unique.
LEMMA UniqueRemainder ==
    ASSUME NEW s \in Nat \ {0}, NEW q \in Int, NEW p \in Int, NEW r \in 0..s - 1, NEW u \in 0..s - 1,
           s * q + r = s * p + u
    PROVE  r = u
<1>1. s * (q - p) = u - r OBVIOUS
<1>2. q - p >= 1 => s * (q - p) >= s OBVIOUS
<1>3. q - p <= -1 => s * (q - p) <= -s OBVIOUS
<1>4. q - p = 0 BY <1>1, <1>2, <1>3
<1> QED BY <1>1, <1>4

\* A decomposition gives the remainder.
LEMMA RemainderIs ==
    ASSUME NEW s \in Nat \ {0}, NEW a \in Int, NEW q \in Int, NEW r \in 0..s - 1, a = s * q + r
    PROVE  a % s = r
<1>1. PICK p \in Int, u \in 0..s - 1 : a = s * p + u /\ u = a % s BY Division
<1>2. r = u BY <1>1, UniqueRemainder
<1> QED BY <1>1, <1>2

\* Multiples of the divisor do not change the remainder.
LEMMA Multiples ==
    ASSUME NEW s \in Nat \ {0}, NEW a \in Int, NEW k \in Int PROVE (a + k * s) % s = a % s
<1>1. PICK q \in Int, r \in 0..s - 1 : a = s * q + r /\ r = a % s BY Division
<1>2. a + k * s = s * (q + k) + r BY <1>1
<1>3. a + k * s \in Int /\ q + k \in Int OBVIOUS
<1>4. (a + k * s) % s = r BY <1>2, <1>3, RemainderIs
<1> QED BY <1>1, <1>4

\* Numbers less than s apart have different remainders.
LEMMA Apart ==
    ASSUME NEW s \in Nat \ {0}, NEW a \in Int, NEW b \in Int, a < b, b < a + s
    PROVE  a % s # b % s
<1>1. PICK q \in Int, r \in 0..s - 1 : a = s * q + r /\ r = a % s BY Division
<1>2. PICK p \in Int, u \in 0..s - 1 : b = s * p + u /\ u = b % s BY Division
<1>3. SUFFICES ASSUME r = u PROVE FALSE BY <1>1, <1>2
<1>4. b - a = s * (p - q) BY <1>1, <1>2, <1>3
<1>5. p - q >= 1 => s * (p - q) >= s OBVIOUS
<1>6. p - q <= 0 => s * (p - q) <= 0 OBVIOUS
<1> QED BY <1>4, <1>5, <1>6

\* Small numbers, and those one divisor off.
LEMMA Wrap ==
    ASSUME NEW s \in Nat \ {0}, NEW a \in Int
    PROVE  /\ a % s \in 0..s - 1
           /\ 0 <= a /\ a < s => a % s = a
           /\ s <= a /\ a < 2 * s => a % s = a - s
           /\ -s <= a /\ a < 0 => a % s = a + s
<1>1. a % s \in 0..s - 1 OBVIOUS
<1>2. ASSUME 0 <= a, a < s PROVE a % s = a BY <1>2
<1>3. ASSUME s <= a, a < 2 * s PROVE a % s = a - s
  <2>1. a = s * 1 + (a - s) /\ a - s \in 0..s - 1 BY <1>3
  <2> QED BY <2>1, RemainderIs
<1>4. ASSUME -s <= a, a < 0 PROVE a % s = a + s
  <2>1. a = s * (-1) + (a + s) /\ a + s \in 0..s - 1 BY <1>4
  <2> QED BY <2>1, RemainderIs
<1> QED BY <1>1, <1>2, <1>3, <1>4

\* The counters wrap at Modulus: a remainder may be taken early.
LEMMA ModAdd ==
    ASSUME NEW a \in Int, NEW b \in Int PROVE ((a % Modulus) + b) % Modulus = (a + b) % Modulus
<1>1. Modulus \in Nat \ {0} BY ModulusAssumption
<1>2. PICK q \in Int, r \in 0..Modulus - 1 : a = Modulus * q + r /\ r = a % Modulus
  BY <1>1, Division
<1>3. a + b = (r + b) + q * Modulus BY <1>1, <1>2
<1>4. r + b \in Int BY <1>1
<1>5. ((r + b) + q * Modulus) % Modulus = (r + b) % Modulus BY <1>1, <1>4, Multiples
<1> QED BY <1>2, <1>3, <1>5

\* A number of slots that the counters can count, and that divides their range.
Fits(s) == s \in Nat \ {0} /\ s < Modulus /\ \E k \in Nat : Modulus = k * s

\* Then the slot of a message does not depend on the wrap of its number.
LEMMA SlotOfNumber ==
    ASSUME NEW s, Fits(s), NEW a \in Int PROVE (a % Modulus) % s = a % s
<1>1. Modulus \in Nat \ {0} /\ s \in Nat \ {0} BY ModulusAssumption DEF Fits
<1>2. PICK k \in Nat : Modulus = k * s BY DEF Fits
<1>3. PICK q \in Int, r \in 0..Modulus - 1 : a = Modulus * q + r /\ r = a % Modulus
  BY <1>1, Division
<1>4. r \in Int /\ k * q \in Int BY <1>1
<1>5. a = r + (k * q) * s
  <2>1. (k * s) * q = (k * q) * s BY <1>1
  <2> QED BY <1>1, <1>2, <1>3, <2>1
<1>6. (r + (k * q) * s) % s = r % s BY <1>1, <1>4, Multiples
<1> QED BY <1>3, <1>5, <1>6

-----------------------------------------------------------------------------
(* Regions as queues. *)

\* The delta is the distance of the counters, whichever has wrapped.
LEMMA DeltaIs ==
    ASSUME NEW s \in Nat \ {0}, NEW r \in Region(s)
    PROVE  /\ _read_write_delta(r) \in 0..Modulus - 1
           /\ r.tx = r.rx + _read_write_delta(r) \/ r.tx = r.rx + _read_write_delta(r) - Modulus
           /\ (r.rx + _read_write_delta(r)) % Modulus = r.tx
<1>1. r.tx \in 0..Modulus - 1 /\ r.rx \in 0..Modulus - 1 BY DEF Region
<1>2. Modulus \in Nat \ {0} BY ModulusAssumption
<1>3. CASE r.tx >= r.rx
  <2>1. _read_write_delta(r) = r.tx - r.rx BY <1>3 DEF _read_write_delta
  <2>2. r.rx + (r.tx - r.rx) = r.tx BY <1>1
  <2>3. r.tx % Modulus = r.tx
    <3>1. r.tx \in Int /\ 0 <= r.tx /\ r.tx < Modulus BY <1>1, <1>2
    <3> QED BY <1>2, <3>1, Wrap
  <2>4. r.tx - r.rx \in 0..Modulus - 1 BY <1>1, <1>2, <1>3
  <2> QED BY <2>1, <2>2, <2>3, <2>4
<1>4. CASE ~(r.tx >= r.rx)
  <2> DEFINE e == (Modulus * Modulus - 1 - r.rx) + r.tx + 1
             d == r.tx - r.rx
  <2>1. _read_write_delta(r) = e % Modulus BY <1>4 DEF _read_write_delta
  <2>2. d \in Int /\ -Modulus <= d /\ d < 0 BY <1>1, <1>2, <1>4
  <2>3. e = d + Modulus * Modulus BY <1>1, <1>2
  <2> HIDE DEF e, d
  <2>4. (d + Modulus * Modulus) % Modulus = d % Modulus
    <3>1. Modulus \in Int BY <1>2
    <3> QED BY <1>2, <2>2, <3>1, Multiples
  <2>5. d % Modulus = d + Modulus BY <1>2, <2>2, Wrap
  <2>6. _read_write_delta(r) = r.tx - r.rx + Modulus BY <2>1, <2>3, <2>4, <2>5 DEF d
  <2>7. r.rx + (r.tx - r.rx + Modulus) = r.tx + Modulus BY <1>1, <1>2
  <2>8. (r.tx + Modulus) % Modulus = r.tx
    <3>1. r.tx + Modulus \in Int /\ Modulus <= r.tx + Modulus /\ r.tx + Modulus < 2 * Modulus
      BY <1>1, <1>2
    <3>2. (r.tx + Modulus) % Modulus = (r.tx + Modulus) - Modulus BY <1>2, <3>1, Wrap
    <3> QED BY <1>1, <1>2, <3>2
  <2>9. r.tx = r.rx + (r.tx - r.rx + Modulus) - Modulus BY <1>1, <1>2
  <2>10. r.tx - r.rx + Modulus \in 0..Modulus - 1 BY <1>1, <1>2, <1>4
  <2> QED BY <2>6, <2>7, <2>8, <2>9, <2>10
<1> QED BY <1>3, <1>4

\* The delta is the only number of that kind.
LEMMA DeltaUnique ==
    ASSUME NEW s \in Nat \ {0}, NEW r \in Region(s), NEW d \in 0..Modulus - 1,
           r.tx = r.rx + d \/ r.tx = r.rx + d - Modulus
    PROVE  _read_write_delta(r) = d
<1>1. r.tx \in Int /\ r.rx \in Int BY ModulusAssumption DEF Region
<1>2. Modulus \in Nat BY ModulusAssumption
<1> QED BY <1>1, <1>2, DeltaIs

\* There is something to read when the delta is not 0, and room when it is below the number of slots.
LEMMA Readiness ==
    ASSUME NEW s, Fits(s), NEW r \in Region(s), _read_write_delta(r) <= s
    PROVE  /\ aoc_service_can_read_message(r) <=> _read_write_delta(r) > 0
           /\ aoc_service_can_write_message(r) <=> _read_write_delta(r) < s
<1>1. s \in Nat \ {0} /\ s < Modulus /\ Modulus \in Nat /\ Modulus > 1 /\ r.slots = s
  BY ModulusAssumption DEF Fits, Region
<1>2. _read_write_delta(r) \in 0..Modulus - 1 BY <1>1, DeltaIs
<1> DEFINE d == _read_write_delta(r)
<1>3. d \in Nat /\ d <= s BY <1>1, <1>2
<1>4. aoc_service_slots_available_to_read(r) = d
  <2>1. aoc_service_slots_available_to_read(r) = IF d > s THEN s ELSE d
    BY <1>1 DEF aoc_service_slots_available_to_read
  <2> HIDE DEF d
  <2> QED BY <1>1, <1>3, <2>1
<1>5. aoc_service_slots_available_to_write(r) = s - d
  <2>1. aoc_service_slots_available_to_write(r) = (s - d) % (Modulus * Modulus)
    BY <1>1 DEF aoc_service_slots_available_to_write
  <2> HIDE DEF d
  <2>2. Modulus * Modulus \in Nat \ {0} /\ Modulus <= Modulus * Modulus
    <3>1. Modulus * Modulus \in Nat BY <1>1
    <3>2. Modulus * Modulus >= Modulus BY <1>1
    <3> QED BY <1>1, <3>1, <3>2
  <2>3. s - d \in Int /\ 0 <= s - d /\ s - d < Modulus * Modulus BY <1>1, <1>3, <2>2
  <2>4. (s - d) % (Modulus * Modulus) = s - d BY <2>2, <2>3, Wrap
  <2> QED BY <2>1, <2>4
<1> HIDE DEF d
<1>6. (s - d > 0) <=> d < s BY <1>1, <1>3
<1> QED BY <1>4, <1>5, <1>6 DEF aoc_service_can_read_message, aoc_service_can_write_message, d

\* The slot that is written next is none of those with a message, and the slots do not depend on the
\* wrap of the numbers.
LEMMA SlotsApart ==
    ASSUME NEW s, Fits(s), NEW r \in Region(s), _read_write_delta(r) < s
    PROVE  \A i \in 0.._read_write_delta(r) - 1 : ((r.rx + i) % Modulus) % s # r.tx % s
<1> DEFINE d == _read_write_delta(r)
<1>1. s \in Nat \ {0} BY DEF Fits
<1>2. d \in Nat /\ (r.rx + d) % Modulus = r.tx BY <1>1, DeltaIs
<1>3. r.rx \in Int BY ModulusAssumption DEF Region
<1> HIDE DEF d
<1>4. SUFFICES ASSUME NEW i \in 0..d - 1 PROVE ((r.rx + i) % Modulus) % s # r.tx % s
  BY DEF d
<1>5. r.rx + i \in Int /\ r.rx + d \in Int BY <1>2, <1>3
<1>6. ((r.rx + i) % Modulus) % s = (r.rx + i) % s BY <1>5, SlotOfNumber
<1>7. r.tx % s = (r.rx + d) % s BY <1>2, <1>5, SlotOfNumber
<1>8. r.rx + i < r.rx + d /\ r.rx + d < (r.rx + i) + s BY <1>1, <1>2, <1>3 DEF d
<1> QED BY <1>1, <1>5, <1>6, <1>7, <1>8, Apart

\* The messages of a sound region are those from rx to tx, in order.
LEMMA ContentIs ==
    ASSUME NEW s, Fits(s), NEW r \in Region(s), Sound(r)
    PROVE  /\ Content(r) = [i \in 1.._read_write_delta(r) |-> (r.rx + i - 1) % Modulus]
           /\ Content(r) \in Seq(0..Modulus - 1) /\ Len(Content(r)) = _read_write_delta(r)
<1> DEFINE d == _read_write_delta(r)
<1>1. s \in Nat \ {0} BY DEF Fits
<1>2. d \in Nat BY <1>1, DeltaIs
<1>3. r.rx \in Int /\ r.slots = s BY ModulusAssumption DEF Region
<1>4. \A i \in 0..d - 1 : r.mem[((r.rx + i) % Modulus) % s] = (r.rx + i) % Modulus
  BY <1>3 DEF Sound, Slot
<1>5. Content(r) = [i \in 1..d |-> r.mem[((r.rx + i - 1) % Modulus) % s]] BY <1>3 DEF Content
<1> HIDE DEF d
<1>6. ASSUME NEW i \in 1..d
      PROVE  /\ r.mem[((r.rx + i - 1) % Modulus) % s] = (r.rx + i - 1) % Modulus
             /\ (r.rx + i - 1) % Modulus \in 0..Modulus - 1
  <2>1. i - 1 \in 0..d - 1 /\ r.rx + (i - 1) = r.rx + i - 1 /\ r.rx + i - 1 \in Int BY <1>2, <1>3
  <2> QED BY <1>4, <2>1, ModRange
<1>7. Content(r) = [i \in 1..d |-> (r.rx + i - 1) % Modulus] BY <1>5, <1>6
<1>8. Content(r) \in Seq(0..Modulus - 1) /\ Len(Content(r)) = d BY <1>2, <1>6, <1>7
<1> QED BY <1>7, <1>8 DEF d

\* Copying a message into the slot at tx does not disturb those that wait in a region with room.
LEMMA WriteBuffer ==
    ASSUME NEW s, Fits(s), NEW r \in Region(s), Sound(r), aoc_service_can_write_message(r),
           NEW w, w = _aoc_queue_write_buffer(r, r.tx)
    PROVE  /\ w \in Region(s) /\ w.tx = r.tx /\ w.rx = r.rx
           /\ _read_write_delta(w) = _read_write_delta(r)
           /\ Sound(w) /\ Slot(w, w.tx) = w.tx
           /\ aoc_service_can_write_message(w)
           /\ aoc_service_can_read_message(w) <=> aoc_service_can_read_message(r)
           /\ Content(w) = Content(r)
<1> DEFINE d == _read_write_delta(r)
<1>1. s \in Nat \ {0} BY DEF Fits
<1>2. d \in Nat /\ d < s
  <2>1. d \in Nat BY <1>1, DeltaIs
  <2>2. r.slots = s /\ d <= r.slots BY DEF Sound, Region
  <2> QED BY <2>1, <2>2, Readiness
<1>3. /\ r.rx \in 0..Modulus - 1 /\ r.tx \in 0..Modulus - 1 /\ r.slots = s
      /\ r.mem \in [0..s - 1 -> 0..Modulus - 1]
  BY DEF Region
<1>4. w \in Region(s) BY <1>1, <1>3, RegionTypes
<1>5. /\ w.tx = r.tx /\ w.rx = r.rx /\ w.slots = s
      /\ w.mem = [r.mem EXCEPT ![r.tx % s] = r.tx]
  BY <1>3 DEF _aoc_queue_write_buffer, aoc_service_current_write_pointer, Region
<1>6. _read_write_delta(w) = d BY <1>5 DEF _read_write_delta
<1>7. \A i \in 0..d - 1 : ((r.rx + i) % Modulus) % s # r.tx % s BY <1>2, SlotsApart
<1>8. \A i \in 0..d - 1 : r.mem[((r.rx + i) % Modulus) % s] = (r.rx + i) % Modulus
  BY <1>3 DEF Sound, Slot
<1> HIDE DEF d
<1>9. Modulus \in Nat \ {0} BY ModulusAssumption
<1>10. ASSUME NEW i \in 0..d - 1
       PROVE  w.mem[((w.rx + i) % Modulus) % s] = (w.rx + i) % Modulus
  <2>1. r.rx + i \in Int BY <1>2, <1>3, <1>9
  <2>2. (r.rx + i) % Modulus \in Int BY <2>1, <1>9
  <2>3. ((r.rx + i) % Modulus) % s \in 0..s - 1 BY <1>1, <2>2
  <2> QED BY <1>3, <1>5, <1>7, <1>8, <2>3
<1>11. Sound(w)
  <2>1. d <= s BY <1>1, <1>2
  <2> QED BY <1>5, <1>6, <1>10, <2>1 DEF Sound, Slot
<1>12. Slot(w, w.tx) = w.tx
  <2>1. r.tx \in Int /\ 0 <= r.tx /\ r.tx < Modulus BY <1>3, <1>9
  <2>2. r.tx % Modulus = r.tx BY <1>9, <2>1, Wrap
  <2>3. r.tx % s \in 0..s - 1 BY <1>1, <2>1
  <2> QED BY <1>3, <1>5, <2>2, <2>3 DEF Slot
<1>13. _read_write_delta(w) <= s BY <1>1, <1>2, <1>6
<1>14. aoc_service_can_write_message(w) BY <1>2, <1>4, <1>6, <1>13, Readiness
<1>15. aoc_service_can_read_message(w) <=> aoc_service_can_read_message(r)
  BY <1>5 DEF aoc_service_can_read_message, aoc_service_slots_available_to_read, _read_write_delta, Region
<1>16. Content(w) = Content(r)
  BY <1>4, <1>5, <1>6, <1>11, ContentIs DEF d
<1> QED BY <1>4, <1>5, <1>6, <1>11, <1>12, <1>14, <1>15, <1>16 DEF d

\* Moving tx behind a message that has been copied appends it.
LEMMA WriteIndex ==
    ASSUME NEW s, Fits(s), NEW r \in Region(s), Sound(r), aoc_service_can_write_message(r),
           Slot(r, r.tx) = r.tx, NEW w, w = aoc_service_increment_write_index(r)
    PROVE  /\ w \in Region(s) /\ w.tx = (r.tx + 1) % Modulus /\ w.rx = r.rx /\ w.mem = r.mem
           /\ Sound(w) /\ aoc_service_can_read_message(w)
           /\ Len(Content(r)) < s /\ Content(w) = Append(Content(r), r.tx)
<1> DEFINE d == _read_write_delta(r)
<1>1. s \in Nat \ {0} /\ s < Modulus BY DEF Fits
<1>2. /\ d \in Nat /\ d < s
      /\ r.tx = r.rx + d \/ r.tx = r.rx + d - Modulus
      /\ (r.rx + d) % Modulus = r.tx
  <2>1. d \in Nat BY <1>1, DeltaIs
  <2>2. r.slots = s /\ d <= r.slots BY DEF Sound, Region
  <2>3. d < s BY <2>1, <2>2, Readiness
  <2> QED BY <1>1, <2>1, <2>3, DeltaIs
<1>3. /\ r.rx \in 0..Modulus - 1 /\ r.tx \in 0..Modulus - 1 /\ r.slots = s
  BY DEF Region
<1>4. w \in Region(s) BY <1>1, <1>3, RegionTypes
<1>5. /\ w.tx = (r.tx + 1) % Modulus /\ w.rx = r.rx /\ w.slots = s /\ w.mem = r.mem
  BY <1>3 DEF aoc_service_increment_write_index, Region
<1>6. \A i \in 0..d - 1 : r.mem[((r.rx + i) % Modulus) % s] = (r.rx + i) % Modulus
  BY <1>3 DEF Sound, Slot
<1>7. r.mem[(r.tx % Modulus) % s] = r.tx BY <1>3 DEF Slot
<1>8. Modulus \in Nat \ {0} BY ModulusAssumption
<1> HIDE DEF d
<1>9. w.tx = r.rx + (d + 1) \/ w.tx = r.rx + (d + 1) - Modulus
  <2>1. r.tx + 1 \in Int BY <1>3, <1>8
  <2>2. r.tx + 1 < Modulus => w.tx = r.tx + 1 BY <1>3, <1>5, <1>8, <2>1, Wrap
  <2>3. r.tx + 1 = Modulus => w.tx = 0 BY <1>3, <1>5, <1>8, <2>1, Wrap
  <2> QED BY <1>1, <1>2, <1>3, <1>8, <2>2, <2>3
<1>10. d + 1 \in 0..Modulus - 1 BY <1>1, <1>2, <1>8
<1>11. _read_write_delta(w) = d + 1
  <2>1. PICK e \in 0..Modulus - 1 : e = d + 1 BY <1>10
  <2>2. w.tx = w.rx + e \/ w.tx = w.rx + e - Modulus BY <1>5, <1>9, <2>1
  <2>3. _read_write_delta(w) = e BY <1>1, <1>4, <2>2, DeltaUnique
  <2> QED BY <2>1, <2>3
<1>12. ASSUME NEW i \in 0..d PROVE w.mem[((w.rx + i) % Modulus) % s] = (w.rx + i) % Modulus
  <2>1. CASE i = d
    <3>1. r.tx \in Int /\ 0 <= r.tx /\ r.tx < Modulus BY <1>3, <1>8
    <3>2. r.tx % Modulus = r.tx BY <1>8, <3>1, Wrap
    <3> QED BY <1>2, <1>5, <1>7, <2>1, <3>2
  <2>2. CASE i # d
    <3>1. i \in 0..d - 1 BY <1>2, <2>2
    <3> QED BY <1>5, <1>6, <3>1
  <2> QED BY <2>1, <2>2
<1>13. Sound(w)
  <2>1. (d + 1) - 1 = d BY <1>2
  <2> QED BY <1>1, <1>2, <1>5, <1>11, <1>12, <2>1 DEF Sound, Slot
<1>14. aoc_service_can_read_message(w)
  BY <1>2, <1>4, <1>5, <1>11, <1>13, Readiness DEF Sound
<1>15. /\ Content(r) = [i \in 1..d |-> (r.rx + i - 1) % Modulus]
       /\ Content(r) \in Seq(0..Modulus - 1) /\ Len(Content(r)) = d
  BY ContentIs DEF d
<1>16. /\ Content(w) = [i \in 1..d + 1 |-> (r.rx + i - 1) % Modulus]
       /\ Content(w) \in Seq(0..Modulus - 1) /\ Len(Content(w)) = d + 1
  BY <1>4, <1>5, <1>11, <1>13, ContentIs
<1>17. Content(w) = Append(Content(r), r.tx)
  <2> DEFINE c == Content(r)
             e == Content(w)
  <2> HIDE DEF c, e
  <2>1. c \in Seq(0..Modulus - 1) /\ Len(c) = d /\ e \in Seq(0..Modulus - 1) /\ Len(e) = d + 1
    BY <1>15, <1>16 DEF c, e
  <2>2. \A i \in 1..d : e[i] = c[i] BY <1>2, <1>15, <1>16 DEF c, e
  <2>3. e[d + 1] = r.tx
    <3>1. d + 1 \in 1..d + 1 /\ r.rx + (d + 1) - 1 = r.rx + d BY <1>2, <1>3, <1>8
    <3> QED BY <1>2, <1>16, <3>1 DEF e
  <2>4. /\ Append(c, r.tx) \in Seq(0..Modulus - 1) /\ Len(Append(c, r.tx)) = d + 1
        /\ \A i \in 1..d : Append(c, r.tx)[i] = c[i]
        /\ Append(c, r.tx)[d + 1] = r.tx
    BY <1>3, <2>1, AppendProperties
  <2>5. \A i \in 1..d + 1 : e[i] = Append(c, r.tx)[i] BY <1>2, <2>2, <2>3, <2>4
  <2>6. e = Append(c, r.tx) BY <2>1, <2>4, <2>5, SeqEqual
  <2> QED BY <2>6 DEF c, e
<1> QED BY <1>2, <1>4, <1>5, <1>13, <1>14, <1>15, <1>17

\* Moving rx takes the oldest message.
LEMMA ReadIndex ==
    ASSUME NEW s, Fits(s), NEW r \in Region(s), Sound(r), aoc_service_can_read_message(r),
           NEW w, w = aoc_service_increment_read_index(r)
    PROVE  /\ w \in Region(s) /\ w.tx = r.tx /\ w.mem = r.mem
           /\ Sound(w) /\ aoc_service_can_write_message(w)
           /\ Content(r) # << >> /\ Content(w) = Tail(Content(r))
<1> DEFINE d == _read_write_delta(r)
<1>1. s \in Nat \ {0} /\ s < Modulus BY DEF Fits
<1>2. /\ d \in Nat /\ d > 0 /\ d <= s
      /\ r.tx = r.rx + d \/ r.tx = r.rx + d - Modulus
  BY <1>1, DeltaIs, Readiness DEF Sound, Region
<1>3. r.rx \in 0..Modulus - 1 /\ r.tx \in 0..Modulus - 1 /\ r.slots = s BY DEF Region
<1>4. w \in Region(s) BY <1>1, <1>3, RegionTypes
<1>5. w.rx = (r.rx + 1) % Modulus /\ w.tx = r.tx /\ w.slots = s /\ w.mem = r.mem
  BY <1>3 DEF aoc_service_increment_read_index, Region
<1>6. \A i \in 0..d - 1 : r.mem[((r.rx + i) % Modulus) % s] = (r.rx + i) % Modulus
  BY <1>3 DEF Sound, Slot
<1>7. Modulus \in Nat \ {0} BY ModulusAssumption
<1> HIDE DEF d
<1>8. w.tx = w.rx + (d - 1) \/ w.tx = w.rx + (d - 1) - Modulus
  <2>1. r.rx + 1 \in Int BY <1>3, <1>7
  <2>2. r.rx + 1 < Modulus => w.rx = r.rx + 1 BY <1>3, <1>5, <1>7, <2>1, Wrap
  <2>3. r.rx + 1 = Modulus => w.rx = 0 BY <1>3, <1>5, <1>7, <2>1, Wrap
  <2> QED BY <1>1, <1>2, <1>3, <1>5, <1>7, <2>2, <2>3
<1>9. d - 1 \in 0..Modulus - 1 BY <1>1, <1>2, <1>7
<1>10. _read_write_delta(w) = d - 1 BY <1>1, <1>4, <1>8, <1>9, DeltaUnique
<1>11. ASSUME NEW i \in Int PROVE (w.rx + i) % Modulus = (r.rx + (i + 1)) % Modulus
  <2>1. r.rx + 1 \in Int /\ (r.rx + 1) + i = r.rx + (i + 1) BY <1>3, <1>7
  <2>2. (((r.rx + 1) % Modulus) + i) % Modulus = ((r.rx + 1) + i) % Modulus BY <2>1, ModAdd
  <2> QED BY <1>5, <2>1, <2>2
<1>12. ASSUME NEW i \in 0..d - 2 PROVE w.mem[((w.rx + i) % Modulus) % s] = (w.rx + i) % Modulus
  <2>1. i \in Int /\ i + 1 \in 0..d - 1 BY <1>2
  <2> QED BY <1>5, <1>6, <1>11, <2>1
<1>13. Sound(w)
  <2>1. (d - 1) - 1 = d - 2 /\ d - 1 <= s BY <1>1, <1>2
  <2> QED BY <1>5, <1>10, <1>12, <2>1 DEF Sound, Slot
<1>14. aoc_service_can_write_message(w)
  <2>1. d - 1 <= s /\ d - 1 < s BY <1>1, <1>2
  <2> QED BY <1>4, <1>10, <2>1, Readiness
<1>15. /\ Content(r) = [i \in 1..d |-> (r.rx + i - 1) % Modulus]
       /\ Content(r) \in Seq(0..Modulus - 1) /\ Len(Content(r)) = d
  BY ContentIs DEF d
<1>16. /\ Content(w) = [i \in 1..d - 1 |-> (w.rx + i - 1) % Modulus]
       /\ Content(w) \in Seq(0..Modulus - 1) /\ Len(Content(w)) = d - 1
  BY <1>4, <1>10, <1>13, ContentIs
<1>17. Content(r) # << >> BY <1>2, <1>15
<1>18. Content(w) = Tail(Content(r))
  <2> DEFINE c == Content(r)
             e == Content(w)
  <2> HIDE DEF c, e
  <2>1. /\ c \in Seq(0..Modulus - 1) /\ Len(c) = d /\ c # << >>
        /\ e \in Seq(0..Modulus - 1) /\ Len(e) = d - 1
    BY <1>15, <1>16, <1>17 DEF c, e
  <2>2. ASSUME NEW i \in 1..d - 1 PROVE e[i] = c[i + 1]
    <3>1. /\ i - 1 \in Int /\ i + 1 \in 1..d /\ w.rx + (i - 1) = w.rx + i - 1
          /\ r.rx + ((i - 1) + 1) = r.rx + (i + 1) - 1
      <4>1. w.rx \in Int BY <1>4, <1>7 DEF Region
      <4> QED BY <1>2, <1>3, <1>7, <4>1
    <3>2. e[i] = (w.rx + i - 1) % Modulus BY <1>16 DEF e
    <3>3. c[i + 1] = (r.rx + (i + 1) - 1) % Modulus BY <1>15, <3>1 DEF c
    <3> QED BY <1>11, <3>1, <3>2, <3>3
  <2>3. /\ Tail(c) \in Seq(0..Modulus - 1) /\ Len(Tail(c)) = d - 1
        /\ \A i \in 1..d - 1 : Tail(c)[i] = c[i + 1]
    BY <2>1, HeadTailProperties
  <2>4. e = Tail(c) BY <2>1, <2>2, <2>3, SeqEqual
  <2> QED BY <2>4 DEF c, e
<1> QED BY <1>4, <1>5, <1>13, <1>14, <1>17, <1>18

\* The message at rx is the oldest.
LEMMA OldestIs ==
    ASSUME NEW s, Fits(s), NEW r \in Region(s), Sound(r), aoc_service_can_read_message(r)
    PROVE  Content(r) # << >> /\ Head(Content(r)) = current_message(r)
<1>1. s \in Nat \ {0} BY DEF Fits
<1>2. /\ _read_write_delta(r) \in Nat /\ _read_write_delta(r) > 0
      /\ Len(Content(r)) = _read_write_delta(r) /\ Content(r) \in Seq(0..Modulus - 1)
  BY <1>1, DeltaIs, Readiness, ContentIs DEF Sound, Region
<1>3. Content(r) # << >> BY <1>2
<1>4. Head(Content(r)) = Content(r)[1] BY <1>2, <1>3
<1>5. 1 \in 1.._read_write_delta(r) BY <1>2
<1>6. Content(r)[1] = r.mem[((r.rx + 1 - 1) % Modulus) % r.slots] BY <1>5 DEF Content
<1>7. r.rx \in Int /\ 0 <= r.rx /\ r.rx < Modulus /\ Modulus \in Nat \ {0}
  BY ModulusAssumption DEF Region
<1>8. r.rx + 1 - 1 = r.rx BY <1>7
<1>9. r.rx % Modulus = r.rx BY <1>7, Wrap
<1> QED BY <1>3, <1>4, <1>6, <1>8, <1>9 DEF current_message, aoc_service_current_read_pointer

\* A region as the firmware sets it up is sound and empty.
LEMMA NewIsSound ==
    ASSUME NEW s \in Nat \ {0} PROVE Sound(NewRegion(s)) /\ Content(NewRegion(s)) = << >>
                                     /\ NewRegion(s).tx = 0
<1>1. _read_write_delta(NewRegion(s)) = 0 BY DEF NewRegion, _read_write_delta
<1>2. NewRegion(s).slots = s BY DEF NewRegion
<1>3. Sound(NewRegion(s)) BY <1>1, <1>2 DEF Sound
<1>4. Content(NewRegion(s)) = << >> BY <1>1 DEF Content
<1> QED BY <1>3, <1>4 DEF NewRegion

\* A message that is written and announced at once, as the firmware does it.
LEMMA WriteMessage ==
    ASSUME NEW s, Fits(s), NEW r \in Region(s), Sound(r), aoc_service_can_write_message(r),
           NEW w, w = aoc_service_increment_write_index(_aoc_queue_write_buffer(r, r.tx))
    PROVE  /\ w \in Region(s) /\ w.tx = (r.tx + 1) % Modulus
           /\ Sound(w) /\ aoc_service_can_read_message(w)
           /\ Len(Content(r)) < s /\ Content(w) = Append(Content(r), r.tx)
           /\ aoc_service_can_read_message(r) => current_message(w) = current_message(r)
<1> DEFINE b == _aoc_queue_write_buffer(r, r.tx)
<1>1. /\ b \in Region(s) /\ b.tx = r.tx /\ Sound(b) /\ Slot(b, b.tx) = b.tx
      /\ aoc_service_can_write_message(b) /\ Content(b) = Content(r)
  BY WriteBuffer
<1> HIDE DEF b
<1>2. w = aoc_service_increment_write_index(b) BY DEF b
<1>3. /\ w \in Region(s) /\ w.tx = (b.tx + 1) % Modulus
      /\ Sound(w) /\ aoc_service_can_read_message(w)
      /\ Len(Content(b)) < s /\ Content(w) = Append(Content(b), b.tx)
  BY <1>1, <1>2, WriteIndex
<1>4. ASSUME aoc_service_can_read_message(r) PROVE current_message(w) = current_message(r)
  <2>1. Content(r) # << >> /\ Head(Content(r)) = current_message(r) BY <1>4, OldestIs
  <2>2. Head(Content(w)) = current_message(w) BY <1>3, OldestIs
  <2>3. Content(r) \in Seq(0..Modulus - 1) /\ r.tx \in 0..Modulus - 1 BY ContentIs DEF Region
  <2>4. Head(Append(Content(r), r.tx)) = Head(Content(r)) BY <2>1, <2>3
  <2> QED BY <1>1, <1>3, <2>1, <2>2, <2>4
<1> QED BY <1>1, <1>3, <1>4

-----------------------------------------------------------------------------
(* The two queues, and the calls that use them. *)

\* Who changes a region, and when.
UpStep ==
    \/ UNCHANGED up
    \/ /\ fw_write /\ aoc_service_can_write_message(up)
       /\ up' = aoc_service_increment_write_index(_aoc_queue_write_buffer(up, up.tx))
    \/ \E t \in Thread : /\ service_advance(t) /\ IsRead(t) /\ aoc_service_can_read_message(up)
                         /\ up' = aoc_service_increment_read_index(up)
    \/ aoc_watchdog_restart /\ up' = NewRegion(UpSlots)

DownStep ==
    \/ UNCHANGED down
    \/ /\ fw_read /\ aoc_service_can_read_message(down)
       /\ down' = aoc_service_increment_read_index(down)
    \/ \E t \in Thread : /\ service_copy(t) /\ ~IsRead(t) /\ aoc_service_can_write_message(down)
                         /\ down' = _aoc_queue_write_buffer(down, down.tx)
    \/ \E t \in Thread : /\ service_advance(t) /\ ~IsRead(t) /\ aoc_service_can_write_message(down)
                         /\ Slot(down, down.tx) = down.tx
                         /\ down' = aoc_service_increment_write_index(down)
    \/ aoc_watchdog_restart /\ down' = NewRegion(DownSlots)

\* Every step is one of those.
LEMMA RegionStep == ASSUME IInv, Queues, [Next]_vars PROVE UpStep /\ DownStep
<1>1. ASSUME NEW t \in Thread, Call(t) \/ Progress(t) \/ service_interrupted(t)
      PROVE  UpStep /\ DownStep
  <2>1. CallStep(t) BY <1>1, CallStepOf DEF IInv
  <2>2. Own(t) BY DEF Queues
  <2>3. CASE thread[t].pc = "advance"
    <3>1. service_advance(t) /\ can_proceed(t) /\ ~thread[t].failed
      BY <2>1, <2>2, <2>3 DEF CallStep, Own
    <3>2. CASE IsRead(t)
      <4>1. up' = aoc_service_increment_read_index(up) /\ UNCHANGED down
        BY <3>1, <3>2 DEF service_advance
      <4> QED BY <3>1, <3>2, <4>1 DEF can_proceed, UpStep, DownStep
    <3>3. CASE ~IsRead(t)
      <4>1. UNCHANGED up /\ down' = aoc_service_increment_write_index(down)
        BY <3>1, <3>3 DEF service_advance
      <4>2. Slot(down, down.tx) = down.tx BY <2>2, <2>3, <3>3 DEF Own
      <4> QED BY <3>1, <3>3, <4>1, <4>2 DEF can_proceed, UpStep, DownStep
    <3> QED BY <3>2, <3>3
  <2>4. CASE service_copy(t) /\ ~IsRead(t)
    <3>1. can_proceed(t) BY <2>2, <2>4 DEF Own, service_copy
    <3>2. down' = _aoc_queue_write_buffer(down, down.tx) /\ UNCHANGED up
      BY <2>4, <3>1 DEF service_copy
    <3> QED BY <2>4, <3>1, <3>2 DEF can_proceed, UpStep, DownStep
  <2>5. CASE thread[t].pc # "advance" /\ ~(service_copy(t) /\ ~IsRead(t))
    <3>1. UNCHANGED up BY <2>1, <2>5 DEF CallStep
    <3>2. UNCHANGED down
      <4>1. CASE thread[t].pc # "copy" \/ IsRead(t) BY <2>1, <2>5, <4>1 DEF CallStep
      <4>2. CASE thread[t].pc = "copy" /\ ~IsRead(t)
        BY <1>1, <2>5, <4>2 DEF Call, Progress, Go, service_interrupted, service_call, service_inc,
           service_check, service_ready, service_wait, service_unblock, service_recheck,
           service_advance, service_leave
      <4> QED BY <4>1, <4>2
    <3> QED BY <3>1, <3>2 DEF UpStep, DownStep
  <2> QED BY <2>3, <2>4, <2>5
<1>2. CASE UNCHANGED vars BY <1>2 DEF vars, UpStep, DownStep
<1>3. CASE acd_open \/ (\E d \in Device : acd_release(d)) \/ fw_ready \/ fw_crash
  BY <1>3 DEF acd_open, acd_release, fw_ready, fw_crash, UpStep, DownStep
<1>4. CASE fw_write \/ fw_read
  BY <1>4 DEF fw_write, fw_read, UpStep, DownStep
<1>5. CASE Interrupt
  BY <1>5 DEF Interrupt, aoc_mbox_rx_callback, process_inc, process_check, process_scan,
     process_leave, irqVars, UpStep, DownStep
<1>6. CASE aoc_watchdog_restart BY <1>6 DEF aoc_watchdog_restart, UpStep, DownStep
<1>7. CASE Watchdog /\ ~aoc_watchdog_restart
  BY <1>7 DEF Watchdog, aoc_watchdog, watchdog_cancel, aoc_take_offline, aoc_wakeup_queues, drained,
     aoc_remove_device, UpStep, DownStep
<1>8. CASE aoc_fw_callback \/ aoc_did_become_online
  BY <1>8 DEF aoc_fw_callback, aoc_did_become_online, UpStep, DownStep
<1>9. CASE watchdog_int_handler \/ reset_store \/ aoc_monitor_online
  BY <1>9 DEF watchdog_int_handler, reset_store, aoc_monitor_online, resetVars, UpStep, DownStep
<1> QED BY <1>1, <1>2, <1>3, <1>4, <1>5, <1>6, <1>7, <1>8, <1>9 DEF Next

\* The region from the AoC stays sound, and moves as the abstract channel does.
LEMMA UpEffect ==
    ASSUME SlotsFit, IInv, Sound(up), UpStep
    PROVE  Sound(up') /\ [Up!Next]_<<up.tx, Content(up)>>
<1>1. Fits(UpSlots) /\ up \in Region(UpSlots)
  BY ServiceAssumption DEF SlotsFit, Fits, IInv, TypeOK
<1>2. CASE UNCHANGED up BY <1>2
<1>3. CASE /\ fw_write /\ aoc_service_can_write_message(up)
           /\ up' = aoc_service_increment_write_index(_aoc_queue_write_buffer(up, up.tx))
  <2>1. /\ Sound(up') /\ up'.tx = (up.tx + 1) % Modulus
        /\ Len(Content(up)) < UpSlots /\ Content(up') = Append(Content(up), up.tx)
    BY <1>1, <1>3, WriteMessage
  <2>2. Up!Send BY <2>1 DEF Up!Send
  <2> QED BY <2>1, <2>2 DEF Up!Next
<1>4. CASE aoc_service_can_read_message(up) /\ up' = aoc_service_increment_read_index(up)
  <2>1. /\ Sound(up') /\ up'.tx = up.tx
        /\ Content(up) # << >> /\ Content(up') = Tail(Content(up))
    BY <1>1, <1>4, ReadIndex
  <2>2. Up!Take BY <2>1 DEF Up!Take
  <2> QED BY <2>1, <2>2 DEF Up!Next
<1>5. CASE up' = NewRegion(UpSlots)
  <2>1. Sound(up') /\ Content(up') = << >> /\ up'.tx = 0
    BY <1>1, <1>5, NewIsSound DEF Fits
  <2>2. Up!Restart BY <2>1 DEF Up!Restart
  <2> QED BY <2>1, <2>2 DEF Up!Next
<1> QED BY <1>2, <1>3, <1>4, <1>5 DEF UpStep

\* The same of the region to the AoC, where the copy and the index are two steps.
LEMMA DownEffect ==
    ASSUME SlotsFit, IInv, Sound(down), DownStep
    PROVE  Sound(down') /\ [Down!Next]_<<down.tx, Content(down)>>
<1>1. Fits(DownSlots) /\ down \in Region(DownSlots)
  BY ServiceAssumption DEF SlotsFit, Fits, IInv, TypeOK
<1>2. CASE UNCHANGED down BY <1>2
<1>3. CASE aoc_service_can_write_message(down) /\ down' = _aoc_queue_write_buffer(down, down.tx)
  <2>1. Sound(down') /\ down'.tx = down.tx /\ Content(down') = Content(down)
    BY <1>1, <1>3, WriteBuffer
  <2> QED BY <2>1
<1>4. CASE /\ aoc_service_can_write_message(down) /\ Slot(down, down.tx) = down.tx
           /\ down' = aoc_service_increment_write_index(down)
  <2>1. /\ Sound(down') /\ down'.tx = (down.tx + 1) % Modulus
        /\ Len(Content(down)) < DownSlots /\ Content(down') = Append(Content(down), down.tx)
    BY <1>1, <1>4, WriteIndex
  <2>2. Down!Send BY <2>1 DEF Down!Send
  <2> QED BY <2>1, <2>2 DEF Down!Next
<1>5. CASE aoc_service_can_read_message(down) /\ down' = aoc_service_increment_read_index(down)
  <2>1. /\ Sound(down') /\ down'.tx = down.tx
        /\ Content(down) # << >> /\ Content(down') = Tail(Content(down))
    BY <1>1, <1>5, ReadIndex
  <2>2. Down!Take BY <2>1 DEF Down!Take
  <2> QED BY <2>1, <2>2 DEF Down!Next
<1>6. CASE down' = NewRegion(DownSlots)
  <2>1. Sound(down') /\ Content(down') = << >> /\ down'.tx = 0
    BY <1>1, <1>6, NewIsSound DEF Fits
  <2>2. Down!Restart BY <2>1 DEF Down!Restart
  <2> QED BY <2>1, <2>2 DEF Down!Next
<1> QED BY <1>2, <1>3, <1>4, <1>5, <1>6 DEF DownStep

\* A device that is registered stays registered while the AoC is not online again, and the dead stay
\* dead.
LEMMA GoneStaysGone ==
    ASSUME Life, services # 0, [Next]_vars
    PROVE  (aoc_state # "ONLINE" => aoc_state' # "ONLINE") /\ dead \subseteq dead'
<1>1. CASE UNCHANGED <<aoc_state, dead>> BY <1>1
<1>2. CASE UNCHANGED vars BY <1>1, <1>2 DEF vars, apVars
<1>3. CASE acd_open \/ (\E d \in Device : acd_release(d)) \/ fw_ready \/ fw_write \/ fw_read \/ fw_crash
  BY <1>1, <1>3 DEF acd_open, acd_release, fw_ready, fw_write, fw_read, fw_crash, fwUnchanged, apVars
<1>4. ASSUME NEW t \in Thread, Call(t) \/ Progress(t) \/ service_interrupted(t)
      PROVE  UNCHANGED <<aoc_state, dead>>
  BY <1>4 DEF Call, Progress, service_interrupted, service_call, service_inc, service_check,
     service_ready, service_wait, service_unblock, service_recheck, service_copy, service_advance,
     service_leave, callVars, apVars
<1>5. CASE Interrupt
  BY <1>5 DEF Interrupt, aoc_mbox_rx_callback, process_inc, process_check, process_scan,
     process_leave, irqVars
<1>6. CASE Watchdog
  BY <1>6 DEF Watchdog, aoc_watchdog, watchdog_cancel, aoc_take_offline, aoc_wakeup_queues, drained,
     aoc_remove_device, aoc_watchdog_restart, apVars
<1>7. CASE aoc_fw_callback BY <1>7 DEF aoc_fw_callback
<1>8. CASE aoc_did_become_online BY <1>8 DEF aoc_did_become_online, Life, Phases
<1>9. CASE watchdog_int_handler \/ reset_store \/ aoc_monitor_online
  BY <1>1, <1>9 DEF watchdog_int_handler, reset_store, aoc_monitor_online, resetVars
<1> QED BY <1>1, <1>2, <1>3, <1>4, <1>5, <1>6, <1>7, <1>8, <1>9 DEF Next

\* What a call relies on is not disturbed by a step that is not its own.
LEMMA OwnKept ==
    ASSUME OneReset, OneCaller, SlotsFit, IInv, Life, Queues, [Next]_vars, UpStep, DownStep,
           NEW u \in Thread, thread[u].pc \in {"unblock", "recheck", "copy", "advance"},
           \A t \in Thread : service_copy(t) \/ service_advance(t) => t # u,
           thread'[u].pc = thread[u].pc, thread'[u].call = thread[u].call,
           thread'[u].dev = thread[u].dev, thread'[u].failed = thread[u].failed,
           thread'[u].buffer = thread[u].buffer
    PROVE  Own(u)'
<1>1. services # 0 /\ watchdog.pc \notin {"remove", "restart"}
  BY DEF Life, InsideMeansUp, Inside
<1>2. Own(u) /\ Sound(up) /\ Sound(down) BY DEF Queues
<1>3. /\ Fits(UpSlots) /\ up \in Region(UpSlots) /\ Fits(DownSlots) /\ down \in Region(DownSlots)
  BY ServiceAssumption DEF SlotsFit, Fits, IInv, TypeOK
<1>4. ~aoc_watchdog_restart BY <1>1 DEF aoc_watchdog_restart
<1>5. ASSUME NEW t \in Thread, service_copy(t) \/ service_advance(t)
      PROVE  IsRead(t) # IsRead(u)
  <2>1. thread[t].pc # "idle" BY <1>5 DEF service_copy, service_advance, Go
  <2> QED BY <1>5, <2>1, DifferentQueues
<1>6. IsRead(u)' = IsRead(u) BY DEF IsRead
<1>7. ASSUME IsRead(u)
      PROVE  /\ can_proceed(u) => can_proceed(u)'
             /\ can_proceed(u) => current_message(up') = current_message(up)
  <2>1. CASE UNCHANGED up BY <1>6, <1>7, <2>1 DEF can_proceed
  <2>2. CASE /\ fw_write /\ aoc_service_can_write_message(up)
             /\ up' = aoc_service_increment_write_index(_aoc_queue_write_buffer(up, up.tx))
    <3>1. /\ aoc_service_can_read_message(up')
          /\ aoc_service_can_read_message(up) => current_message(up') = current_message(up)
      BY <1>2, <1>3, <2>2, WriteMessage
    <3> QED BY <1>6, <1>7, <3>1 DEF can_proceed
  <2> QED BY <1>4, <1>5, <1>7, <2>1, <2>2 DEF UpStep
<1>8. ASSUME ~IsRead(u)
      PROVE  /\ can_proceed(u) => can_proceed(u)'
             /\ Slot(down, down.tx) = down.tx => Slot(down', down'.tx) = down'.tx
  <2>1. CASE UNCHANGED down BY <1>6, <1>8, <2>1 DEF can_proceed
  <2>2. CASE aoc_service_can_read_message(down) /\ down' = aoc_service_increment_read_index(down)
    <3>1. /\ aoc_service_can_write_message(down') /\ down'.tx = down.tx /\ down'.mem = down.mem
          /\ down' \in Region(DownSlots)
      BY <1>2, <1>3, <2>2, ReadIndex
    <3>2. down'.slots = down.slots BY <1>3, <3>1 DEF Region
    <3> QED BY <1>6, <1>8, <3>1, <3>2 DEF can_proceed, Slot
  <2>3. \A t \in Thread : service_copy(t) \/ service_advance(t) => IsRead(t)
    BY <1>5, <1>8 DEF IsRead
  <2> QED BY <1>4, <2>1, <2>2, <2>3 DEF DownStep
<1>9. WaitOver(u) => WaitOver(u)'
  <2>1. (aoc_state # "ONLINE" => aoc_state' # "ONLINE") /\ dead \subseteq dead'
    BY <1>1, GoneStaysGone
  <2> QED BY <1>7, <1>8, <2>1 DEF WaitOver
<1> QED BY <1>2, <1>6, <1>7, <1>8, <1>9 DEF Own

\* A step of the call itself leaves it with what it relies on.
LEMMA OwnStep ==
    ASSUME SlotsFit, IInv, Queues, NEW t \in Thread, CallStep(t) PROVE Own(t)'
<1>1. Own(t) /\ Sound(down) BY DEF Queues
<1>2. UNCHANGED <<aoc_state, dead>> BY DEF CallStep, callVars, apVars
<1>3. CASE thread'[t].pc \in {"unblock", "recheck"}
  <2>1. UNCHANGED <<up, down>> /\ thread'[t].call = thread[t].call /\ thread'[t].dev = thread[t].dev
    BY <1>3 DEF CallStep
  <2>2. WaitOver(t)' = WaitOver(t) BY <1>2, <2>1 DEF WaitOver, can_proceed, IsRead
  <2>3. WaitOver(t) \/ thread'[t].failed BY <1>1, <1>3 DEF CallStep, Own, WaitOver
  <2> QED BY <1>3, <2>2, <2>3 DEF Own
<1>4. CASE thread'[t].pc = "copy"
  <2>1. /\ UNCHANGED <<up, down>> /\ thread'[t].call = thread[t].call
        /\ WaitOver(t) /\ thread[t].dev \notin dead /\ aoc_state = "ONLINE"
    BY <1>1, <1>4 DEF CallStep, Own
  <2>2. can_proceed(t)' BY <2>1 DEF WaitOver, can_proceed, IsRead
  <2> QED BY <1>4, <2>2 DEF Own
<1>5. CASE thread'[t].pc = "advance"
  <2>1. service_copy(t) /\ thread[t].pc = "copy" BY <1>5 DEF CallStep, service_copy
  <2>2. can_proceed(t) /\ thread'[t].call = thread[t].call /\ ~thread'[t].failed
    BY <1>1, <2>1, CopyEffect DEF Own, IInv
  <2>3. IsRead(t)' = IsRead(t) BY <2>2 DEF IsRead
  <2>4. CASE IsRead(t)
    <3>1. UNCHANGED up /\ thread'[t].buffer = current_message(up)
      BY <2>1, <2>2, <2>4, CopyEffect DEF IInv, service_copy
    <3> QED BY <1>5, <2>2, <2>3, <2>4, <3>1 DEF Own, can_proceed
  <2>5. CASE ~IsRead(t)
    <3>1. aoc_service_can_write_message(down) /\ down' = _aoc_queue_write_buffer(down, down.tx)
      BY <2>1, <2>2, <2>5 DEF service_copy, can_proceed
    <3>2. Fits(DownSlots) /\ down \in Region(DownSlots)
      BY ServiceAssumption DEF SlotsFit, Fits, IInv, TypeOK
    <3>3. Slot(down', down'.tx) = down'.tx /\ aoc_service_can_write_message(down')
      BY <1>1, <3>1, <3>2, WriteBuffer
    <3> QED BY <1>5, <2>2, <2>3, <2>5, <3>3 DEF Own, can_proceed
  <2> QED BY <2>4, <2>5
<1>6. CASE thread'[t].pc \notin {"unblock", "recheck", "copy", "advance"} BY <1>6 DEF Own
<1> QED BY <1>3, <1>4, <1>5, <1>6

\* The queues stay sound, and every call keeps what it relies on.
LEMMA QueuesNext ==
    ASSUME OneReset, OneCaller, SlotsFit, IInv, Life, Queues, [Next]_vars PROVE Queues'
<1>1. UpStep /\ DownStep BY RegionStep
<1>2. Sound(up') /\ Sound(down') BY <1>1, UpEffect, DownEffect DEF Queues
<1>3. ASSUME NEW u \in Thread PROVE Own(u)'
  <2>1. CASE thread'[u].pc \notin {"unblock", "recheck", "copy", "advance"} BY <2>1 DEF Own
  <2>2. ASSUME thread'[u].pc \in {"unblock", "recheck", "copy", "advance"},
               NEW t \in Thread, Call(t) \/ Progress(t) \/ service_interrupted(t)
        PROVE  Own(u)'
    <3>1. CallStep(t) BY <2>2, CallStepOf DEF IInv
    <3>2. CASE u = t BY <3>1, <3>2, OwnStep
    <3>3. CASE u # t
      <4>1. thread'[u] = thread[u] BY <3>1, <3>3 DEF CallStep
      <4>2. ASSUME NEW v \in Thread, service_copy(v) \/ service_advance(v) PROVE v # u
        <5>1. thread'[v].pc # thread[v].pc
          <6>1. CASE service_copy(v) BY <6>1, CopyEffect DEF IInv
          <6>2. CASE service_advance(v)
            <7>1. Go(v, "advance", "leave") BY <6>2 DEF service_advance
            <7>2. thread[v].pc = "advance" /\ thread'[v].pc = "leave"
              BY <7>1, GoEffect DEF IInv, Pcs
            <7> QED BY <7>2
          <6> QED BY <4>2, <6>1, <6>2
        <5> QED BY <4>1, <5>1
      <4> QED BY <1>1, <2>2, <4>1, <4>2, OwnKept
    <3> QED BY <3>2, <3>3
  <2>3. CASE /\ thread'[u].pc \in {"unblock", "recheck", "copy", "advance"}
             /\ ~\E t \in Thread : Call(t) \/ Progress(t) \/ service_interrupted(t)
    <3>1. Wakes BY <2>3, OtherStep DEF IInv
    <3>2. \A t \in Thread : ~(service_copy(t) \/ service_advance(t)) BY <2>3 DEF Progress
    <3>3. /\ thread'[u].pc = thread[u].pc /\ thread'[u].call = thread[u].call
          /\ thread'[u].dev = thread[u].dev /\ thread'[u].failed = thread[u].failed
          /\ thread'[u].buffer = thread[u].buffer
      BY <2>3, <3>1 DEF Wakes
    <3> QED BY <1>1, <2>3, <3>2, <3>3, OwnKept
  <2> QED BY <2>1, <2>2, <2>3
<1> QED BY <1>2, <1>3 DEF Queues

\* The queues are sound from the start on.
LEMMA AlwaysQueues ==
    ASSUME OneReset, OneCaller, SlotsFit PROVE Spec => [](IInv /\ Life /\ Queues)
<1>1. Init => Queues
  <2>1. SUFFICES ASSUME Init PROVE Queues OBVIOUS
  <2>2. Sound(up) /\ Sound(down) BY <2>1, NewIsSound, ServiceAssumption DEF Init
  <2> QED BY <2>1, <2>2 DEF Init, Queues, Own, IdleThread
<1>2. IInv /\ Life /\ Queues /\ [Next]_vars => Queues' BY QueuesNext
<1> QED BY <1>1, <1>2, AlwaysLife, PTL DEF Spec

\* A reader that moves the index holds the oldest message, for any number of slots that the
\* counters can count and any number of wraps of the counters and restarts.
THEOREM ReadsOldest == ASSUME OneReset, OneCaller, SlotsFit PROVE Spec => []ReadsTheOldest
<1>1. IInv /\ Queues => ReadsTheOldest
  <2>1. SUFFICES ASSUME IInv, Queues, NEW t \in Thread, thread[t].pc = "advance", IsRead(t)
                 PROVE  Content(up) # << >> /\ thread[t].buffer = Head(Content(up))
    BY DEF ReadsTheOldest
  <2>2. aoc_service_can_read_message(up) /\ thread[t].buffer = current_message(up) /\ Sound(up)
    BY <2>1 DEF Queues, Own, can_proceed
  <2>3. Fits(UpSlots) /\ up \in Region(UpSlots)
    BY <2>1, ServiceAssumption DEF SlotsFit, Fits, IInv, TypeOK
  <2> QED BY <2>2, <2>3, OldestIs
<1> QED BY <1>1, AlwaysQueues, PTL

\* Each direction of the service implements the abstract FIFO channel: messages are taken once, in
\* order and unchanged.
THEOREM Fifo == ASSUME OneReset, OneCaller, SlotsFit PROVE Spec => QueuesAreFifo
<1>1. Init => Up!Init /\ Down!Init
  <2>1. SUFFICES ASSUME Init PROVE Up!Init /\ Down!Init OBVIOUS
  <2>2. up.tx = 0 /\ Content(up) = << >> /\ down.tx = 0 /\ Content(down) = << >>
    BY <2>1, NewIsSound, ServiceAssumption DEF Init
  <2> QED BY <2>2 DEF Up!Init, Down!Init
<1>2. IInv /\ Queues /\ [Next]_vars =>
        [Up!Next]_<<up.tx, Content(up)>> /\ [Down!Next]_<<down.tx, Content(down)>>
  BY RegionStep, UpEffect, DownEffect DEF Queues
<1> QED BY <1>1, <1>2, AlwaysQueues, PTL DEF Spec, QueuesAreFifo, Up!Spec, Down!Spec

=============================================================================
