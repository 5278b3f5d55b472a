----------------------------- MODULE AocChannel -----------------------------
(***************************************************************************)
(* The channels that share one AoC service: every open file is a channel,  *)
(* a kernel thread hands each message of the service to the file it is for, *)
(* and readers of the file take it from there.  A file with too many        *)
(* pending messages asks the AoC to hold that channel back.                 *)
(* Source: aoc_channel_dev.c.                                               *)
(***************************************************************************)
EXTENDS Naturals, Sequences, FiniteSets

CONSTANTS
    Channel,        \* each is opened at most once: the index is never used again
    Reader,         \* threads that read
    MaxPending,     \* aocc_max_pending_msgs
    Threshold,      \* aocc_block_channel_threshold
    MaxInFlight,    \* bound: messages in the service
    CommandsFail    \* a command may find the queue to the AoC full

ASSUME ChannelAssumption ==
    /\ IsFiniteSet(Reader)
    /\ MaxPending \in Nat /\ Threshold \in Nat \ {0} /\ MaxInFlight \in Nat \ {0}
    /\ CommandsFail \in BOOLEAN

VARIABLES
    file,           \* file_prvdata of each channel
    demux,          \* the kernel thread, and the channel of its message
    reader,         \* aocc_read calls
    dead,           \* the service device is dead
    in_flight,      \* messages in the service, by channel
    fw_open, fw_blocked     \* what the AoC was told

vars == <<file, demux, reader, dead, in_flight, fw_open, fw_blocked>>

TypeOK ==
    /\ file \in [Channel -> [st : {"new", "listed", "open", "unlisted", "freed"},
                             pending : 0..MaxPending + 1,       \* pending_aoc_messages
                             count : 0..MaxPending + 1,         \* pending_msg_count
                             is_channel_blocked : BOOLEAN]]
    /\ demux \in [pc : {"read", "lookup", "append", "wake", "close", "stopped"}, chan : Channel]
    /\ reader \in [Reader -> [pc : {"idle", "test", "sleep", "pop", "got"}, chan : Channel]]
    /\ dead \in BOOLEAN
    /\ in_flight \in Seq(Channel) /\ Len(in_flight) <= MaxInFlight
    /\ fw_open \subseteq Channel /\ fw_blocked \subseteq Channel

Init ==
    /\ file = [c \in Channel |-> [st |-> "new", pending |-> 0, count |-> 0,
                                  is_channel_blocked |-> FALSE]]
    /\ \E c \in Channel :
         /\ demux = [pc |-> "read", chan |-> c]
         /\ reader = [r \in Reader |-> [pc |-> "idle", chan |-> c]]
    /\ dead = FALSE /\ in_flight = <<>> /\ fw_open = {} /\ fw_blocked = {}

\* The list of open files is locked by the demux thread while it uses an entry.
s_open_files_lock == demux.pc \in {"append", "wake"}
InList(c) == file[c].st \in {"listed", "open"}

\* aocc_send_cmd_msg: a write that does not block.
Outcomes == IF dead THEN {FALSE} ELSE IF CommandsFail THEN BOOLEAN ELSE {TRUE}

-----------------------------------------------------------------------------
(* aocc_open and aocc_release. *)

\* is_channel_blocked is left as the allocation had it.
aocc_open(c) ==
    /\ file[c].st = "new" /\ ~dead /\ ~s_open_files_lock
    /\ \E garbage \in BOOLEAN :
         file' = [file EXCEPT ![c] = [st |-> "listed", pending |-> 0, count |-> 0,
                                      is_channel_blocked |-> garbage]]
    /\ UNCHANGED <<demux, reader, dead, in_flight, fw_open, fw_blocked>>

\* The OPEN command; without it the file leaves the list and is freed.
aocc_open_command(c) ==
    /\ file[c].st = "listed"
    /\ \E sent \in Outcomes :
         /\ sent \/ ~s_open_files_lock
         /\ file' = [file EXCEPT ![c].st = IF sent THEN "open" ELSE "freed"]
         /\ fw_open' = IF sent THEN fw_open \cup {c} ELSE fw_open
    /\ UNCHANGED <<demux, reader, dead, in_flight, fw_blocked>>

\* Mutant: the list is changed without its lock.
aocc_release_mutant(c) ==
    /\ file[c].st = "open" /\ \A r \in Reader : reader[r].pc # "idle" => reader[r].chan # c
    /\ file' = [file EXCEPT ![c].st = "unlisted"]
    /\ UNCHANGED <<demux, reader, dead, in_flight, fw_open, fw_blocked>>

\* The last reference of the file: no read is under way.
aocc_release(c) ==
    /\ file[c].st = "open" /\ \A r \in Reader : reader[r].pc # "idle" => reader[r].chan # c
    /\ ~s_open_files_lock
    /\ file' = [file EXCEPT ![c].st = "unlisted"]
    /\ UNCHANGED <<demux, reader, dead, in_flight, fw_open, fw_blocked>>

\* The messages left are dropped; a CLOSE command that fails is not repeated.
aocc_release_rest(c) ==
    /\ file[c].st = "unlisted"
    /\ file' = [file EXCEPT ![c].st = "freed", ![c].pending = 0, ![c].count = @ - file[c].pending]
    /\ \E sent \in Outcomes :
         /\ fw_open' = IF sent THEN fw_open \ {c} ELSE fw_open
         /\ fw_blocked' = IF sent THEN fw_blocked \ {c} ELSE fw_blocked
    /\ UNCHANGED <<demux, reader, dead, in_flight>>

-----------------------------------------------------------------------------
(* aocc_demux_kthread. *)

demux_read ==
    /\ demux.pc = "read" /\ ~dead /\ in_flight # <<>>
    /\ demux' = [pc |-> "lookup", chan |-> Head(in_flight)]
    /\ in_flight' = Tail(in_flight)
    /\ UNCHANGED <<file, reader, dead, fw_open, fw_blocked>>

\* Mutant: no limit on the pending messages.
demux_lookup_mutant ==
    /\ demux.pc = "lookup"
    /\ demux' = [demux EXCEPT !.pc = IF InList(demux.chan) THEN "append" ELSE "close"]
    /\ UNCHANGED <<file, reader, dead, in_flight, fw_open, fw_blocked>>

\* The open file, with the list locked; a message too many is dropped.
demux_lookup ==
    /\ demux.pc = "lookup"
    /\ demux' = [demux EXCEPT !.pc =
         CASE ~InList(demux.chan) -> "close"
           [] InList(demux.chan) /\ file[demux.chan].count > MaxPending -> "read"
           [] OTHER -> "append"]
    /\ UNCHANGED <<file, reader, dead, in_flight, fw_open, fw_blocked>>

\* In one section of pending_msg_lock.
demux_append ==
    /\ demux.pc = "append" /\ demux' = [demux EXCEPT !.pc = "wake"]
    /\ LET c == demux.chan
           block == file[c].count + 1 > Threshold /\ ~file[c].is_channel_blocked
       IN \E sent \in IF block THEN Outcomes ELSE {FALSE} :
            /\ file' = [file EXCEPT ![c].pending = @ + 1, ![c].count = @ + 1,
                                    ![c].is_channel_blocked = @ \/ sent]
            /\ fw_blocked' = IF sent THEN fw_blocked \cup {c} ELSE fw_blocked
    /\ UNCHANGED <<reader, dead, in_flight, fw_open>>

\* Mutant: the readers of a channel that counts as held back are not woken.
demux_wake_mutant ==
    /\ demux.pc = "wake" /\ demux' = [demux EXCEPT !.pc = "read"]
    /\ reader' = [r \in Reader |->
         IF reader[r].pc = "sleep" /\ reader[r].chan = demux.chan
              /\ ~file[demux.chan].is_channel_blocked
           THEN [reader[r] EXCEPT !.pc = "test"] ELSE reader[r]]
    /\ UNCHANGED <<file, dead, in_flight, fw_open, fw_blocked>>

demux_wake ==
    /\ demux.pc = "wake" /\ demux' = [demux EXCEPT !.pc = "read"]
    /\ reader' = [r \in Reader |->
         IF reader[r].pc = "sleep" /\ reader[r].chan = demux.chan
           THEN [reader[r] EXCEPT !.pc = "test"] ELSE reader[r]]
    /\ UNCHANGED <<file, dead, in_flight, fw_open, fw_blocked>>

\* Nobody has this channel open: tell the AoC.
demux_close ==
    /\ demux.pc = "close" /\ demux' = [demux EXCEPT !.pc = "read"]
    /\ \E sent \in Outcomes :
         /\ fw_open' = IF sent THEN fw_open \ {demux.chan} ELSE fw_open
         /\ fw_blocked' = IF sent THEN fw_blocked \ {demux.chan} ELSE fw_blocked
    /\ UNCHANGED <<file, reader, dead, in_flight>>

\* The service device goes: its reads fail, and aocc_remove stops the thread
\* between two messages.
service_dies ==
    /\ ~dead /\ dead' = TRUE
    /\ UNCHANGED <<file, demux, reader, in_flight, fw_open, fw_blocked>>

aocc_remove ==
    /\ dead /\ demux.pc = "read" /\ demux' = [demux EXCEPT !.pc = "stopped"]
    /\ UNCHANGED <<file, reader, dead, in_flight, fw_open, fw_blocked>>

-----------------------------------------------------------------------------
(* aocc_read. *)

Step(r, from, to) == reader[r].pc = from /\ reader' = [reader EXCEPT ![r].pc = to]

aocc_read(r, c) ==
    /\ reader[r].pc = "idle" /\ file[c].st = "open" /\ ~dead
    /\ reader' = [reader EXCEPT ![r] = [pc |-> "test", chan |-> c]]
    /\ UNCHANGED <<file, demux, dead, in_flight, fw_open, fw_blocked>>

\* Wait for a message; a file opened with O_NONBLOCK does not.
read_test(r) ==
    /\ \E to \in IF file[reader[r].chan].count # 0 THEN {"pop"} ELSE {"sleep", "idle"} : Step(r, "test", to)
    /\ UNCHANGED <<file, demux, dead, in_flight, fw_open, fw_blocked>>

read_interrupted(r) ==
    /\ Step(r, "sleep", "idle")
    /\ UNCHANGED <<file, demux, dead, in_flight, fw_open, fw_blocked>>

\* With two readers the list may be empty although the count is not: 0 is returned.
read_pop(r) ==
    LET c == reader[r].chan IN
    /\ Step(r, "pop", IF file[c].pending > 0 THEN "got" ELSE "idle")
    /\ file' = IF file[c].pending > 0 THEN [file EXCEPT ![c].pending = @ - 1] ELSE file
    /\ UNCHANGED <<demux, dead, in_flight, fw_open, fw_blocked>>

\* Mutant: the flag is cleared though the AoC was not told.
read_done_mutant(r) ==
    LET c == reader[r].chan
        unblock == file[c].count - 1 < Threshold /\ file[c].is_channel_blocked
    IN
    /\ Step(r, "got", "idle")
    /\ \E sent \in IF unblock THEN Outcomes ELSE {FALSE} :
         /\ file' = [file EXCEPT ![c].count = @ - 1,
                                 ![c].is_channel_blocked = @ /\ ~unblock]
         /\ fw_blocked' = IF sent THEN fw_blocked \ {c} ELSE fw_blocked
    /\ UNCHANGED <<demux, dead, in_flight, fw_open>>

\* Mutant: the message is counted off only if the channel was not blocked.
read_count_mutant(r) ==
    LET c == reader[r].chan
        unblock == file[c].count - 1 < Threshold /\ file[c].is_channel_blocked
    IN
    /\ Step(r, "got", "idle")
    /\ \E sent \in IF unblock THEN Outcomes ELSE {FALSE} :
         /\ file' = [file EXCEPT ![c].count = IF unblock /\ ~sent THEN @ ELSE @ - 1,
                                 ![c].is_channel_blocked = @ /\ ~sent]
         /\ fw_blocked' = IF sent THEN fw_blocked \ {c} ELSE fw_blocked
    /\ UNCHANGED <<demux, dead, in_flight, fw_open>>

\* The message was copied: count it off, and release the channel when few are left.
read_done(r) ==
    LET c == reader[r].chan
        unblock == file[c].count - 1 < Threshold /\ file[c].is_channel_blocked
    IN
    /\ Step(r, "got", "idle")
    /\ \E sent \in IF unblock THEN Outcomes ELSE {FALSE} :
         /\ file' = [file EXCEPT ![c].count = @ - 1,
                                 ![c].is_channel_blocked = @ /\ ~sent]
         /\ fw_blocked' = IF sent THEN fw_blocked \ {c} ELSE fw_blocked
    /\ UNCHANGED <<demux, dead, in_flight, fw_open>>

-----------------------------------------------------------------------------
\* External: the AoC sends on a channel that it holds open and not blocked.
fw_send(c) ==
    /\ c \in fw_open \ fw_blocked /\ ~dead /\ Len(in_flight) < MaxInFlight
    /\ in_flight' = Append(in_flight, c)
    /\ UNCHANGED <<file, demux, reader, dead, fw_open, fw_blocked>>

Next ==
    \/ \E c \in Channel :
         \/ aocc_open(c) \/ aocc_open_command(c) \/ aocc_release(c) \/ aocc_release_rest(c)
         \/ fw_send(c)
    \/ demux_read \/ demux_lookup \/ demux_append \/ demux_wake \/ demux_close
    \/ service_dies \/ aocc_remove
    \/ \E r \in Reader :
         \/ \E c \in Channel : aocc_read(r, c)
         \/ read_test(r) \/ read_interrupted(r) \/ read_pop(r) \/ read_done(r)

Spec == Init /\ [][Next]_vars

-----------------------------------------------------------------------------
\* Readers that took a message off the list and have not counted it off.
Taking(c) == {r \in Reader : reader[r].pc = "got" /\ reader[r].chan = c}

\* pending_msg_count counts the messages in the list and those being copied: two
\* sections of pending_msg_lock, readers, the demux thread and the release agree.
PendingCountExact ==
    \A c \in Channel :
        file[c].st # "freed" => file[c].count = file[c].pending + Cardinality(Taking(c))

\* The demux thread never touches a file after its release began.
EntryStaysOpen == demux.pc \in {"append", "wake"} => InList(demux.chan)

\* A reader asleep while a message is pending is about to be woken.
SleeperIsWoken ==
    \A r \in Reader :
        reader[r].pc = "sleep" /\ file[reader[r].chan].count # 0 =>
            demux.pc = "wake" /\ demux.chan = reader[r].chan

\* A channel that the AoC holds back is one that its reader will try to release.
BlockIsRemembered ==
    \A c \in Channel : c \in fw_blocked /\ file[c].st = "open" => file[c].is_channel_blocked

\* A channel held back still has a message whose reader can release it.
BlockedHasPending ==
    \A c \in Channel : c \in fw_blocked /\ file[c].st = "open" => file[c].count # 0

\* Above the threshold the channel is held back.
ThresholdBlocks ==
    \A c \in Channel : ~dead /\ file[c].st = "open" /\ file[c].count > Threshold => c \in fw_blocked

\* Nobody sleeps on a device whose demux thread was stopped.
NoSleeperOnDead == \A r \in Reader : reader[r].pc = "sleep" => demux.pc # "stopped"

\* A read that finds the count non-zero finds a message.
CountedIsThere ==
    \A r \in Reader : reader[r].pc = "pop" => file[reader[r].chan].pending > 0
=============================================================================
