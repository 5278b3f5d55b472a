------------------------- MODULE AocChannel_proofs -------------------------
(* Theorems about the channels of an AoC service, for any set of channels,  *)
(* any finite set of readers and any limits.                                *)
EXTENDS AocChannel, FiniteSetTheorems, TLAPS

FileStates == {"new", "listed", "open", "unlisted", "freed"}
Files == [st : FileStates, pending : 0..MaxPending + 1, count : 0..MaxPending + 1,
          is_channel_blocked : BOOLEAN]

-----------------------------------------------------------------------------
(* The inductive invariant.  A read holds a reference of its file, so the    *)
(* file is open until the read returns; the demux thread has found its file  *)
(* below the limit, and only readers change the count until it appends; the  *)
(* AoC was asked to hold back only files that remember it, from their first  *)
(* appearance in the list on.                                                *)

ReadKeepsOpen == \A r \in Reader : reader[r].pc # "idle" => file[reader[r].chan].st = "open"

AppendHasRoom == demux.pc = "append" => file[demux.chan].count <= MaxPending

BlockInv ==
    \A c \in Channel :
        /\ file[c].st = "new" => c \notin fw_blocked
        /\ c \in fw_blocked /\ InList(c) => file[c].is_channel_blocked

IInv ==
    /\ TypeOK /\ ReadKeepsOpen /\ AppendHasRoom /\ BlockInv
    /\ PendingCountExact /\ EntryStaysOpen /\ SleeperIsWoken

\* The counts of a file are numbers.
LEMMA FileType ==
    ASSUME TypeOK, NEW c \in Channel
    PROVE  /\ file[c].st \in FileStates
           /\ file[c].pending \in Nat /\ file[c].pending <= MaxPending + 1
           /\ file[c].count \in Nat /\ file[c].count <= MaxPending + 1
           /\ file[c].is_channel_blocked \in BOOLEAN
           /\ MaxPending \in Nat
BY ChannelAssumption DEF TypeOK, FileStates

-----------------------------------------------------------------------------
(* Counting the readers that have a message in hand *)

\* The readers that are copying a message are finitely many.
LEMMA TakingFinite ==
    ASSUME NEW c \in Channel
    PROVE  IsFiniteSet(Taking(c)) /\ Cardinality(Taking(c)) \in Nat
<1>1. Taking(c) \subseteq Reader BY DEF Taking
<1> QED BY <1>1, ChannelAssumption, FS_Subset, FS_CardinalityType

\* A reader that goes to a state without a message, from one without, changes no count.
LEMMA TakingKept ==
    ASSUME NEW r \in Reader, \A q \in Reader : q # r => reader'[q] = reader[q],
           reader[r].pc # "got", reader'[r].pc # "got"
    PROVE  \A c \in Channel : Taking(c)' = Taking(c)
BY DEF Taking

\* read_pop takes one message in hand.
LEMMA TakingMore ==
    ASSUME TypeOK, NEW r \in Reader, Step(r, "pop", "got")
    PROVE  \A c \in Channel : Cardinality(Taking(c)') =
             IF c = reader[r].chan THEN Cardinality(Taking(c)) + 1 ELSE Cardinality(Taking(c))
<1> TAKE c \in Channel
<1>1. Taking(c)' = IF c = reader[r].chan THEN Taking(c) \cup {r} ELSE Taking(c)
  BY DEF TypeOK, Taking, Step
<1>2. r \notin Taking(c) BY DEF Taking, Step
<1>3. Cardinality(Taking(c) \cup {r}) = Cardinality(Taking(c)) + 1
  BY <1>2, TakingFinite, FS_AddElement
<1> QED BY <1>1, <1>3

\* read_done puts it down.
LEMMA TakingLess ==
    ASSUME TypeOK, NEW r \in Reader, Step(r, "got", "idle")
    PROVE  \A c \in Channel : Cardinality(Taking(c)') =
             IF c = reader[r].chan THEN Cardinality(Taking(c)) - 1 ELSE Cardinality(Taking(c))
<1> TAKE c \in Channel
<1>1. Taking(c)' = IF c = reader[r].chan THEN Taking(c) \ {r} ELSE Taking(c)
  BY DEF TypeOK, Taking, Step
<1>2. c = reader[r].chan => r \in Taking(c) BY DEF Taking, Step
<1>3. c = reader[r].chan => Cardinality(Taking(c) \ {r}) = Cardinality(Taking(c)) - 1
  BY <1>2, TakingFinite, FS_RemoveElement
<1> QED BY <1>1, <1>3

\* A reader with a message in hand has been counted.
LEMMA TakingCounted ==
    ASSUME IInv, NEW r \in Reader, reader[r].pc = "got"
    PROVE  file[reader[r].chan].count > file[reader[r].chan].pending
<1> DEFINE c == reader[r].chan
<1>1. c \in Channel /\ file[c].st = "open" BY DEF IInv, TypeOK, ReadKeepsOpen
<1>2. Taking(c) # {} BY DEF Taking
<1>3. Cardinality(Taking(c)) > 0 BY <1>1, <1>2, TakingFinite, FS_EmptySet
<1>4. file[c].count = file[c].pending + Cardinality(Taking(c)) /\ file[c].pending \in Nat
  BY <1>1, FileType DEF IInv, PendingCountExact
<1> QED BY <1>1, <1>3, <1>4, TakingFinite

\* While nobody reads a file its count is the length of its list.
LEMMA IdleCount ==
    ASSUME IInv, NEW c \in Channel, \A r \in Reader : reader[r].pc # "idle" => reader[r].chan # c,
           file[c].st # "freed"
    PROVE  file[c].count = file[c].pending
<1>1. Taking(c) = {} BY DEF Taking
<1>2. Cardinality(Taking(c)) = 0 BY <1>1, FS_EmptySet
<1>3. file[c].pending \in Nat BY FileType DEF IInv
<1> QED BY <1>2, <1>3 DEF IInv, PendingCountExact

-----------------------------------------------------------------------------
(* The invariant holds at the start *)

\* Nothing is open when the driver is probed.
LEMMA InitInv == Init => IInv
<1> SUFFICES ASSUME Init PROVE IInv OBVIOUS
<1>1. TypeOK
  <2>1. 0 \in 0..MaxPending + 1 /\ 0 <= MaxInFlight BY ChannelAssumption
  <2>2. [st |-> "new", pending |-> 0, count |-> 0, is_channel_blocked |-> FALSE] \in Files
    BY <2>1, Zenon DEF Files, FileStates
  <2>3. file \in [Channel -> Files] BY <2>2, Zenon DEF Init
  <2>4. dead \in BOOLEAN BY Zenon DEF Init
  <2>5. in_flight \in Seq(Channel) /\ Len(in_flight) <= MaxInFlight BY <2>1 DEF Init
  <2>6. demux \in [pc : {"read", "lookup", "append", "wake", "close", "stopped"}, chan : Channel]
    BY DEF Init
  <2>7. reader \in [Reader -> [pc : {"idle", "test", "sleep", "pop", "got"}, chan : Channel]]
    BY DEF Init
  <2> QED BY <2>3, <2>4, <2>5, <2>6, <2>7 DEF Init, TypeOK, Files, FileStates
<1>2. \A c \in Channel : Taking(c) = {} BY DEF Init, Taking
<1>3. PendingCountExact
  <2>1. \A c \in Channel : Cardinality(Taking(c)) = 0 BY <1>2, FS_EmptySet
  <2> QED BY <2>1 DEF Init, PendingCountExact
<1>4. ReadKeepsOpen /\ AppendHasRoom /\ BlockInv /\ EntryStaysOpen /\ SleeperIsWoken
  BY DEF Init, ReadKeepsOpen, AppendHasRoom, BlockInv, EntryStaysOpen, SleeperIsWoken, InList
<1> QED BY <1>1, <1>3, <1>4 DEF IInv

-----------------------------------------------------------------------------
(* aocc_open and aocc_release *)

\* The types that an operation on one file keeps.
LEMMA FileUpdate ==
    ASSUME TypeOK, NEW c \in Channel, NEW f \in Files, file' = [file EXCEPT ![c] = f]
    PROVE  file' \in [Channel -> Files]
BY DEF TypeOK, Files, FileStates

\* aocc_open puts an empty file in the list.
LEMMA OpenInv == ASSUME IInv, NEW c \in Channel, aocc_open(c) PROVE IInv'
<1> USE DEF IInv
<1>1. PICK garbage \in BOOLEAN :
        file' = [file EXCEPT ![c] = [st |-> "listed", pending |-> 0, count |-> 0,
                                     is_channel_blocked |-> garbage]]
  BY DEF aocc_open
<1>2. [st |-> "listed", pending |-> 0, count |-> 0, is_channel_blocked |-> garbage] \in Files
  <2>1. 0 \in 0..MaxPending + 1 BY ChannelAssumption
  <2> QED BY <2>1, Zenon DEF Files, FileStates
<1>3. TypeOK'
  BY <1>1, <1>2, FileUpdate DEF TypeOK, aocc_open, Files, FileStates
<1>4. \A r \in Reader : reader[r].pc # "idle" => reader[r].chan # c
  BY DEF ReadKeepsOpen, aocc_open
<1>5. Taking(c) = {} BY <1>4 DEF Taking
<1>6. PendingCountExact'
  <2>1. Cardinality(Taking(c)) = 0 BY <1>5, FS_EmptySet
  <2>2. \A d \in Channel : Taking(d)' = Taking(d) BY DEF aocc_open, Taking
  <2> QED BY <1>1, <2>1, <2>2 DEF PendingCountExact, TypeOK
<1>7. BlockInv' BY <1>1 DEF BlockInv, InList, aocc_open, TypeOK
<1>8. ReadKeepsOpen' /\ AppendHasRoom' /\ EntryStaysOpen' /\ SleeperIsWoken'
  BY <1>1, <1>4, ChannelAssumption
  DEF ReadKeepsOpen, AppendHasRoom, EntryStaysOpen, SleeperIsWoken, InList, aocc_open, TypeOK,
      s_open_files_lock
<1> QED BY <1>3, <1>6, <1>7, <1>8

\* The OPEN command, or the way back.
LEMMA OpenCommandInv == ASSUME IInv, NEW c \in Channel, aocc_open_command(c) PROVE IInv'
<1> USE DEF IInv
<1>1. PICK sent \in Outcomes :
        /\ sent \/ ~s_open_files_lock
        /\ file' = [file EXCEPT ![c].st = IF sent THEN "open" ELSE "freed"]
        /\ fw_open' = IF sent THEN fw_open \cup {c} ELSE fw_open
  BY DEF aocc_open_command
<1>2. PICK s \in {"open", "freed"} :
        /\ file' = [file EXCEPT ![c].st = s] /\ (s = "open" \/ ~s_open_files_lock)
        /\ fw_open' \subseteq fw_open \cup {c}
  BY <1>1
<1>3. /\ file[c].st = "listed" /\ s \in FileStates
      /\ UNCHANGED <<demux, reader, dead, in_flight, fw_blocked>>
  BY DEF aocc_open_command, FileStates
<1>4. TypeOK' BY <1>2, <1>3, ZenonT(60) DEF TypeOK, FileStates
<1>5. PendingCountExact'
  <2>1. \A d \in Channel : Taking(d)' = Taking(d) BY <1>3 DEF Taking
  <2> QED BY <1>2, <1>3, <2>1 DEF PendingCountExact, TypeOK
<1>6. BlockInv' BY <1>2, <1>3 DEF BlockInv, InList, TypeOK
<1>7. ReadKeepsOpen' /\ AppendHasRoom' /\ EntryStaysOpen' /\ SleeperIsWoken'
  BY <1>2, <1>3 DEF ReadKeepsOpen, AppendHasRoom, EntryStaysOpen, SleeperIsWoken, InList, TypeOK,
                    s_open_files_lock
<1> QED BY <1>4, <1>5, <1>6, <1>7

\* aocc_release takes the file out of the list.
LEMMA ReleaseInv == ASSUME IInv, NEW c \in Channel, aocc_release(c) PROVE IInv'
<1> USE DEF IInv, aocc_release
<1>1. TypeOK' BY ZenonT(60) DEF TypeOK
<1>2. PendingCountExact'
  <2>1. \A d \in Channel : Taking(d)' = Taking(d) BY DEF Taking
  <2> QED BY <2>1 DEF PendingCountExact, TypeOK
<1>3. BlockInv' BY DEF BlockInv, InList, TypeOK
<1>4. ReadKeepsOpen' /\ AppendHasRoom' /\ EntryStaysOpen' /\ SleeperIsWoken'
  BY DEF ReadKeepsOpen, AppendHasRoom, EntryStaysOpen, SleeperIsWoken, InList, TypeOK,
         s_open_files_lock
<1> QED BY <1>1, <1>2, <1>3, <1>4

\* The rest of aocc_release drops what is left and frees the file.
LEMMA ReleaseRestInv == ASSUME IInv, NEW c \in Channel, aocc_release_rest(c) PROVE IInv'
<1> USE DEF IInv
<1>1. /\ file[c].st = "unlisted"
      /\ file' = [file EXCEPT ![c].st = "freed", ![c].pending = 0,
                              ![c].count = @ - file[c].pending]
      /\ fw_open' \subseteq fw_open /\ fw_blocked' \subseteq fw_blocked
      /\ UNCHANGED <<demux, reader, dead, in_flight>>
  BY DEF aocc_release_rest
<1>2. \A r \in Reader : reader[r].pc # "idle" => reader[r].chan # c BY <1>1 DEF ReadKeepsOpen
<1>3. file[c].count = file[c].pending BY <1>1, <1>2, IdleCount
<1>4. file' = [file EXCEPT ![c].st = "freed", ![c].pending = 0, ![c].count = 0]
  <2>1. file[c].count - file[c].pending = 0 BY <1>3, FileType
  <2>2. file' = [file EXCEPT ![c].st = "freed", ![c].pending = 0,
                             ![c].count = file[c].count - file[c].pending]
    BY <1>1, Zenon DEF TypeOK
  <2> QED BY <2>1, <2>2, Zenon
<1>5. 0 \in 0..MaxPending + 1 BY ChannelAssumption
<1>6. TypeOK'
  <2>1. [file[c] EXCEPT !.st = "freed", !.pending = 0, !.count = 0] \in Files
    BY <1>5, ZenonT(60) DEF TypeOK, Files, FileStates
  <2>2. file' \in [Channel -> Files] BY <1>4, <2>1 DEF TypeOK, Files, FileStates
  <2> QED BY <1>1, <2>2 DEF TypeOK, Files, FileStates
<1>7. PendingCountExact'
  <2>1. \A d \in Channel : Taking(d)' = Taking(d) BY <1>1 DEF Taking
  <2> QED BY <1>4, <2>1 DEF PendingCountExact, TypeOK
<1>8. BlockInv' BY <1>1, <1>4 DEF BlockInv, InList, TypeOK
<1>9. ReadKeepsOpen' /\ AppendHasRoom' /\ EntryStaysOpen' /\ SleeperIsWoken'
  BY <1>1, <1>2, <1>4
  DEF ReadKeepsOpen, AppendHasRoom, EntryStaysOpen, SleeperIsWoken, InList, TypeOK
<1> QED BY <1>6, <1>7, <1>8, <1>9

-----------------------------------------------------------------------------
(* The demux thread, the device and the AoC *)

\* A step that leaves the files, the readers and the blocks alone, and does not
\* leave the demux thread with a file or take one from it.
LEMMA FrameInv ==
    ASSUME IInv, TypeOK', UNCHANGED <<file, reader>>, fw_blocked' \subseteq fw_blocked,
           \/ UNCHANGED demux
           \/ demux'.pc \notin {"append", "wake"} /\ demux.pc # "wake"
    PROVE  IInv'
<1> USE DEF IInv
<1>1. PendingCountExact'
  <2>1. \A d \in Channel : Taking(d)' = Taking(d) BY DEF Taking
  <2> QED BY <2>1 DEF PendingCountExact
<1>2. BlockInv' BY DEF BlockInv, InList
<1>3. ReadKeepsOpen' /\ AppendHasRoom' /\ EntryStaysOpen' /\ SleeperIsWoken'
  BY DEF ReadKeepsOpen, AppendHasRoom, EntryStaysOpen, SleeperIsWoken, InList
<1> QED BY <1>1, <1>2, <1>3

\* Steps of the demux thread that touch no file, of the device, and of the AoC.
LEMMA QuietInv ==
    ASSUME IInv, \/ demux_read \/ demux_close \/ service_dies \/ aocc_remove
                 \/ \E c \in Channel : fw_send(c)
    PROVE  IInv'
<1> USE DEF IInv
<1>1. CASE demux_read
  <2>1. /\ Head(in_flight) \in Channel /\ Tail(in_flight) \in Seq(Channel)
        /\ Len(Tail(in_flight)) <= MaxInFlight
    BY <1>1, ChannelAssumption DEF TypeOK, demux_read
  <2>2. TypeOK' BY <1>1, <2>1 DEF TypeOK, demux_read
  <2> QED BY <1>1, <2>2, FrameInv DEF demux_read
<1>2. CASE demux_close
  <2>1. fw_open' \subseteq fw_open /\ fw_blocked' \subseteq fw_blocked BY <1>2 DEF demux_close
  <2>2. TypeOK' BY <1>2, <2>1 DEF TypeOK, demux_close
  <2>3. demux.pc = "close" /\ demux'.pc = "read" BY <1>2 DEF demux_close, TypeOK
  <2> QED BY <1>2, <2>1, <2>2, <2>3, FrameInv DEF demux_close
<1>3. CASE service_dies
  <2>1. dead' \in BOOLEAN BY <1>3, Zenon DEF service_dies
  <2>2. TypeOK' BY <1>3, <2>1 DEF TypeOK, service_dies
  <2> QED BY <1>3, <2>2, FrameInv DEF service_dies
<1>4. CASE aocc_remove
  <2>1. TypeOK' BY <1>4 DEF TypeOK, aocc_remove
  <2>2. demux.pc = "read" /\ demux'.pc = "stopped" BY <1>4 DEF aocc_remove, TypeOK
  <2> QED BY <1>4, <2>1, <2>2, FrameInv DEF aocc_remove
<1>5. ASSUME NEW c \in Channel, fw_send(c) PROVE IInv'
  <2>1. TypeOK' BY <1>5, ChannelAssumption DEF TypeOK, fw_send
  <2> QED BY <1>5, <2>1, FrameInv DEF fw_send
<1> QED BY <1>1, <1>2, <1>3, <1>4, <1>5

\* demux_lookup finds a file in the list, and room in it.
LEMMA LookupInv == ASSUME IInv, demux_lookup PROVE IInv'
<1> USE DEF IInv
<1> DEFINE c == demux.chan
<1>1. PICK p \in {"close", "read", "append"} :
        /\ demux' = [demux EXCEPT !.pc = p]
        /\ p = "append" => InList(c) /\ ~(file[c].count > MaxPending)
  BY DEF demux_lookup
<1>2. c \in Channel /\ demux.pc = "lookup" /\ demux'.pc = p /\ demux'.chan = c
  BY <1>1 DEF TypeOK, demux_lookup
<1>3. TypeOK' BY <1>1 DEF TypeOK, demux_lookup
<1>4. CASE p # "append" BY <1>1, <1>2, <1>3, <1>4, FrameInv DEF demux_lookup
<1>5. CASE p = "append"
  <2>1. file[c].count <= MaxPending BY <1>1, <1>2, <1>5, FileType
  <2>2. PendingCountExact'
    <3>1. \A d \in Channel : Taking(d)' = Taking(d) BY DEF Taking, demux_lookup
    <3> QED BY <3>1 DEF PendingCountExact, demux_lookup
  <2>3. BlockInv' /\ ReadKeepsOpen' /\ SleeperIsWoken'
    BY <1>2 DEF BlockInv, InList, demux_lookup, ReadKeepsOpen, SleeperIsWoken
  <2>4. AppendHasRoom' /\ EntryStaysOpen'
    BY <1>1, <1>2, <1>5, <2>1 DEF AppendHasRoom, EntryStaysOpen, InList, demux_lookup
  <2> QED BY <1>3, <2>2, <2>3, <2>4
<1> QED BY <1>4, <1>5

\* demux_append puts the message in the list and counts it, and may ask the AoC
\* to hold the channel back.
LEMMA AppendInv == ASSUME IInv, demux_append PROVE IInv'
<1> USE DEF IInv
<1> DEFINE c == demux.chan
<1>1. PICK sent \in BOOLEAN :
        /\ file' = [file EXCEPT ![c].pending = @ + 1, ![c].count = @ + 1,
                                ![c].is_channel_blocked = @ \/ sent]
        /\ fw_blocked' = IF sent THEN fw_blocked \cup {c} ELSE fw_blocked
  <2>1. Outcomes \subseteq BOOLEAN /\ {FALSE} \subseteq BOOLEAN BY Zenon DEF Outcomes
  <2> QED BY <2>1, Zenon DEF demux_append
<1>2. /\ demux.pc = "append" /\ demux' = [demux EXCEPT !.pc = "wake"]
      /\ UNCHANGED <<reader, dead, in_flight, fw_open>>
  BY DEF demux_append
<1>3. c \in Channel /\ InList(c) /\ file[c].count <= MaxPending
  BY <1>2 DEF EntryStaysOpen, AppendHasRoom, TypeOK
<1>4. file[c].count = file[c].pending + Cardinality(Taking(c))
  BY <1>3 DEF PendingCountExact, InList
<1>5. file[c].pending + 1 \in 0..MaxPending + 1 /\ file[c].count + 1 \in 0..MaxPending + 1
  BY <1>3, <1>4, FileType, TakingFinite
<1>6. PICK b \in BOOLEAN :
        file' = [file EXCEPT ![c].pending = @ + 1, ![c].count = @ + 1, ![c].is_channel_blocked = b]
  BY <1>1, Zenon
<1>7. TypeOK'
  <2>1. file' \in [Channel -> Files]
    <3> DEFINE N == 0..MaxPending + 1
               B == BOOLEAN
    <3>1. file \in [Channel -> [st : FileStates, pending : N, count : N, is_channel_blocked : B]]
      BY DEF TypeOK, FileStates
    <3>2. file[c].pending + 1 \in N /\ file[c].count + 1 \in N /\ b \in B BY <1>5, <1>6
    <3> HIDE DEF N, B
    <3>3. file' \in [Channel -> [st : FileStates, pending : N, count : N, is_channel_blocked : B]]
      BY <1>3, <1>6, <3>1, <3>2
    <3> QED BY <3>3 DEF Files, N, B
  <2>2. fw_blocked' \subseteq Channel BY <1>1, <1>3 DEF TypeOK
  <2>3. demux' \in [pc : {"read", "lookup", "append", "wake", "close", "stopped"}, chan : Channel]
    BY <1>2 DEF TypeOK
  <2> QED BY <1>2, <2>1, <2>2, <2>3 DEF TypeOK, Files, FileStates
<1>8. PendingCountExact'
  <2>1. \A d \in Channel : Taking(d)' = Taking(d) BY <1>2 DEF Taking
  <2>2. \A d \in Channel : file'[d].st = file[d].st BY <1>1 DEF TypeOK
  <2>3. /\ file'[c].pending = file[c].pending + 1 /\ file'[c].count = file[c].count + 1
        /\ \A d \in Channel : d # c => file'[d] = file[d]
    BY <1>1, <1>3 DEF TypeOK
  <2>4. file'[c].count = file'[c].pending + Cardinality(Taking(c))
    BY <1>3, <1>4, <2>3, FileType, TakingFinite
  <2> QED BY <2>1, <2>2, <2>3, <2>4 DEF PendingCountExact
<1>9. BlockInv' BY <1>1, <1>3 DEF BlockInv, InList, TypeOK
<1>10. /\ \A d \in Channel : file'[d].st = file[d].st
       /\ \A d \in Channel : d # c => file'[d].count = file[d].count
       /\ demux'.pc = "wake" /\ demux'.chan = c
  BY <1>1, <1>2, <1>3 DEF TypeOK
<1>11. ReadKeepsOpen' /\ AppendHasRoom' /\ EntryStaysOpen' /\ SleeperIsWoken'
  BY <1>2, <1>3, <1>10
  DEF ReadKeepsOpen, AppendHasRoom, EntryStaysOpen, SleeperIsWoken, InList, TypeOK
<1> QED BY <1>7, <1>8, <1>9, <1>11

\* demux_wake wakes the readers of the file.
LEMMA WakeInv == ASSUME IInv, demux_wake PROVE IInv'
<1> USE DEF IInv, demux_wake
<1>1. TypeOK' BY DEF TypeOK
<1>2. /\ \A r \in Reader : /\ reader'[r].chan = reader[r].chan
                           /\ reader'[r].pc = "got" <=> reader[r].pc = "got"
                           /\ reader'[r].pc # "idle" => reader[r].pc # "idle"
                           /\ reader'[r].pc = "sleep" =>
                                reader[r].pc = "sleep" /\ reader[r].chan # demux.chan
      /\ demux'.pc = "read"
  BY DEF TypeOK
<1>3. PendingCountExact'
  <2>1. \A d \in Channel : Taking(d)' = Taking(d) BY <1>2 DEF Taking
  <2> QED BY <2>1 DEF PendingCountExact
<1>4. BlockInv' BY DEF BlockInv, InList
<1>5. ReadKeepsOpen' /\ AppendHasRoom' /\ EntryStaysOpen' /\ SleeperIsWoken'
  BY <1>2 DEF ReadKeepsOpen, AppendHasRoom, EntryStaysOpen, SleeperIsWoken, InList
<1> QED BY <1>1, <1>3, <1>4, <1>5

-----------------------------------------------------------------------------
(* aocc_read *)

\* A read that moves without a message: its file is open, and asleep is only who
\* found the count zero.
LEMMA ReaderMoves ==
    ASSUME IInv, NEW r \in Reader,
           reader' \in [Reader -> [pc : {"idle", "test", "sleep", "pop", "got"}, chan : Channel]],
           \A q \in Reader : q # r => reader'[q] = reader[q],
           reader[r].pc # "got", reader'[r].pc # "got",
           UNCHANGED <<file, demux, dead, in_flight, fw_open, fw_blocked>>,
           reader'[r].pc # "idle" => file[reader'[r].chan].st = "open",
           reader'[r].pc = "sleep" => file[reader'[r].chan].count = 0
    PROVE  IInv'
<1> USE DEF IInv
<1>1. TypeOK' BY DEF TypeOK
<1>2. PendingCountExact'
  <2>1. \A d \in Channel : Taking(d)' = Taking(d) BY TakingKept
  <2> QED BY <2>1 DEF PendingCountExact
<1>3. BlockInv' /\ AppendHasRoom' /\ EntryStaysOpen'
  BY DEF BlockInv, AppendHasRoom, EntryStaysOpen, InList
<1>4. ASSUME NEW q \in Reader
      PROVE  /\ reader'[q].pc # "idle" => file'[reader'[q].chan].st = "open"
             /\ reader'[q].pc = "sleep" /\ file'[reader'[q].chan].count # 0 =>
                  demux'.pc = "wake" /\ demux'.chan = reader'[q].chan
  BY DEF ReadKeepsOpen, SleeperIsWoken
<1>5. ReadKeepsOpen' /\ SleeperIsWoken' BY <1>4 DEF ReadKeepsOpen, SleeperIsWoken
<1> QED BY <1>1, <1>2, <1>3, <1>5

\* The start of a read, its test of the count, an interrupted wait.
LEMMA ReadTestInv ==
    ASSUME IInv, NEW r \in Reader,
           (\E c \in Channel : aocc_read(r, c)) \/ read_test(r) \/ read_interrupted(r)
    PROVE  IInv'
<1>1. ASSUME NEW c \in Channel, aocc_read(r, c) PROVE IInv'
  <2>1. /\ reader' \in [Reader -> [pc : {"idle", "test", "sleep", "pop", "got"}, chan : Channel]]
        /\ \A q \in Reader : q # r => reader'[q] = reader[q]
        /\ reader'[r].pc = "test" /\ reader'[r].chan = c /\ reader[r].pc = "idle"
    BY <1>1 DEF aocc_read, IInv, TypeOK
  <2> QED BY <1>1, <2>1, ReaderMoves DEF aocc_read
<1>2. CASE read_test(r)
  <2>1. PICK to \in {"pop", "sleep", "idle"} :
          Step(r, "test", to) /\ (to = "sleep" => file[reader[r].chan].count = 0)
    BY <1>2 DEF read_test
  <2>2. reader[r].pc = "test" /\ file[reader[r].chan].st = "open"
    BY <2>1 DEF Step, IInv, TypeOK, ReadKeepsOpen
  <2>3. /\ reader' \in [Reader -> [pc : {"idle", "test", "sleep", "pop", "got"}, chan : Channel]]
        /\ \A q \in Reader : q # r => reader'[q] = reader[q]
        /\ reader'[r].pc = to /\ reader'[r].chan = reader[r].chan
    BY <2>1 DEF Step, IInv, TypeOK
  <2> QED BY <1>2, <2>1, <2>2, <2>3, ReaderMoves DEF read_test
<1>3. CASE read_interrupted(r)
  BY <1>3, ReaderMoves, ZenonT(60) DEF read_interrupted, Step, IInv, TypeOK
<1> QED BY <1>1, <1>2, <1>3

\* read_pop takes a message off the list, or finds none.
LEMMA ReadPopInv == ASSUME IInv, NEW r \in Reader, read_pop(r) PROVE IInv'
<1> USE DEF IInv
<1> DEFINE c == reader[r].chan
<1>1. /\ c \in Channel /\ reader[r].pc = "pop" /\ file[c].st = "open"
      /\ UNCHANGED <<demux, dead, in_flight, fw_open, fw_blocked>>
  BY DEF read_pop, Step, TypeOK, ReadKeepsOpen
<1>2. CASE ~(file[c].pending > 0)
  <2>1. Step(r, "pop", "idle") /\ file' = file BY <1>2 DEF read_pop
  <2> QED BY <1>1, <2>1, ReaderMoves DEF Step, TypeOK
<1>3. CASE file[c].pending > 0
  <2>1. Step(r, "pop", "got") /\ file' = [file EXCEPT ![c].pending = @ - 1]
    BY <1>3 DEF read_pop
  <2>2. /\ file'[c].pending = file[c].pending - 1
        /\ \A d \in Channel : /\ file'[d].st = file[d].st /\ file'[d].count = file[d].count
                              /\ file'[d].is_channel_blocked = file[d].is_channel_blocked
                              /\ d # c => file'[d].pending = file[d].pending
    BY <1>1, <2>1 DEF TypeOK
  <2>3. /\ \A q \in Reader : /\ reader'[q].chan = reader[q].chan
                             /\ reader'[q].pc # "idle" => reader[q].pc # "idle"
                             /\ reader'[q].pc = "sleep" => reader[q].pc = "sleep"
    BY <2>1 DEF Step, TypeOK
  <2>4. TypeOK'
    <3>1. file[c].pending - 1 \in 0..MaxPending + 1 BY <1>1, <1>3, FileType
    <3>2. file' \in [Channel -> Files] BY <1>1, <2>1, <3>1, ZenonT(60) DEF TypeOK, Files, FileStates
    <3>3. reader' \in [Reader -> [pc : {"idle", "test", "sleep", "pop", "got"}, chan : Channel]]
      BY <2>1 DEF Step, TypeOK
    <3> QED BY <1>1, <3>2, <3>3 DEF TypeOK, Files, FileStates
  <2>5. PendingCountExact'
    <3>1. ASSUME NEW d \in Channel, file'[d].st # "freed"
          PROVE  file'[d].count = file'[d].pending + Cardinality(Taking(d)')
      <4>1. file[d].count = file[d].pending + Cardinality(Taking(d))
        BY <2>2, <3>1 DEF PendingCountExact
      <4> QED BY <1>1, <2>1, <2>2, <4>1, TakingMore, TakingFinite, FileType
    <3> QED BY <3>1 DEF PendingCountExact
  <2>6. BlockInv' BY <1>1, <2>2 DEF BlockInv, InList
  <2>7. ReadKeepsOpen' /\ AppendHasRoom' /\ EntryStaysOpen' /\ SleeperIsWoken'
    BY <1>1, <2>2, <2>3
    DEF ReadKeepsOpen, AppendHasRoom, EntryStaysOpen, SleeperIsWoken, InList, TypeOK
  <2> QED BY <2>4, <2>5, <2>6, <2>7
<1> QED BY <1>2, <1>3

\* read_done counts the message off, and may let the AoC send again.
LEMMA ReadDoneInv == ASSUME IInv, NEW r \in Reader, read_done(r) PROVE IInv'
<1> USE DEF IInv
<1> DEFINE c == reader[r].chan
<1>1. PICK sent \in BOOLEAN :
        /\ file' = [file EXCEPT ![c].count = @ - 1, ![c].is_channel_blocked = @ /\ ~sent]
        /\ fw_blocked' = IF sent THEN fw_blocked \ {c} ELSE fw_blocked
  <2>1. Outcomes \subseteq BOOLEAN /\ {FALSE} \subseteq BOOLEAN BY Zenon DEF Outcomes
  <2> QED BY <2>1, Zenon DEF read_done
<1>2. /\ Step(r, "got", "idle") /\ UNCHANGED <<demux, dead, in_flight, fw_open>>
  BY DEF read_done
<1>3. c \in Channel /\ reader[r].pc = "got" /\ file[c].st = "open" /\ file[c].count > 0
  BY <1>2, TakingCounted, FileType, SMTT(30) DEF Step, TypeOK, ReadKeepsOpen
<1>4. /\ file'[c].count = file[c].count - 1
      /\ \A d \in Channel : /\ file'[d].st = file[d].st /\ file'[d].pending = file[d].pending
                            /\ d # c => file'[d] = file[d]
  BY <1>1, <1>3 DEF TypeOK
<1>5. /\ \A q \in Reader : /\ reader'[q].chan = reader[q].chan
                           /\ reader'[q].pc # "idle" => reader[q].pc # "idle"
                           /\ reader'[q].pc = "sleep" => reader[q].pc = "sleep"
  BY <1>2 DEF Step, TypeOK
<1>6. TypeOK'
  <2>1. file[c].count - 1 \in 0..MaxPending + 1 BY <1>3, FileType
  <2>2. PICK b \in BOOLEAN : file' = [file EXCEPT ![c].count = @ - 1, ![c].is_channel_blocked = b]
    BY <1>1, Zenon
  <2>3. file' \in [Channel -> Files]
    <3> DEFINE N == 0..MaxPending + 1
               B == BOOLEAN
    <3>1. file \in [Channel -> [st : FileStates, pending : N, count : N, is_channel_blocked : B]]
      BY DEF TypeOK, FileStates
    <3>2. file[c].count - 1 \in N /\ b \in B BY <2>1, <2>2
    <3> HIDE DEF N, B
    <3>3. file' \in [Channel -> [st : FileStates, pending : N, count : N, is_channel_blocked : B]]
      BY <1>3, <2>2, <3>1, <3>2
    <3> QED BY <3>3 DEF Files, N, B
  <2>4. reader' \in [Reader -> [pc : {"idle", "test", "sleep", "pop", "got"}, chan : Channel]]
    BY <1>2 DEF Step, TypeOK
  <2>5. fw_blocked' \subseteq Channel BY <1>1 DEF TypeOK
  <2> QED BY <1>2, <2>3, <2>4, <2>5 DEF TypeOK, Files, FileStates
<1>7. PendingCountExact'
  <2>1. ASSUME NEW d \in Channel, file'[d].st # "freed"
        PROVE  file'[d].count = file'[d].pending + Cardinality(Taking(d)')
    <3>1. file[d].count = file[d].pending + Cardinality(Taking(d))
      BY <1>4, <2>1 DEF PendingCountExact
    <3> QED BY <1>2, <1>3, <1>4, <3>1, TakingLess, TakingFinite, FileType
  <2> QED BY <2>1 DEF PendingCountExact
<1>8. BlockInv' BY <1>1, <1>3 DEF BlockInv, InList, TypeOK
<1>9. \A d \in Channel : file'[d].count # 0 => file[d].count # 0 BY <1>3, <1>4
<1>10. \A d \in Channel : file[d].count <= MaxPending => file'[d].count <= MaxPending
  BY <1>3, <1>4, FileType
<1>11. ReadKeepsOpen' /\ AppendHasRoom' /\ EntryStaysOpen' /\ SleeperIsWoken'
  BY <1>2, <1>4, <1>5, <1>9, <1>10
  DEF ReadKeepsOpen, AppendHasRoom, EntryStaysOpen, SleeperIsWoken, InList, TypeOK
<1> QED BY <1>6, <1>7, <1>8, <1>11

-----------------------------------------------------------------------------
(* The theorems *)

\* Every step, or none, keeps the invariant.
LEMMA StepInv == IInv /\ [Next]_vars => IInv'
<1> SUFFICES ASSUME IInv, [Next]_vars PROVE IInv' OBVIOUS
<1>1. CASE UNCHANGED vars
  <2>1. TypeOK' BY <1>1 DEF vars, IInv, TypeOK
  <2> QED BY <1>1, <2>1, FrameInv DEF vars
<1>2. CASE Next
  BY <1>2, OpenInv, OpenCommandInv, ReleaseInv, ReleaseRestInv, QuietInv, LookupInv, AppendInv,
     WakeInv, ReadTestInv, ReadPopInv, ReadDoneInv
  DEF Next
<1> QED BY <1>1, <1>2

\* The invariant holds in every reachable state of the channel driver.
THEOREM Invariance == Spec => []IInv
<1> QED BY InitInv, StepInv, PTL DEF Spec

\* The variables of the channel driver keep their types: no file ever holds more
\* than aocc_max_pending_msgs + 1 messages, and its count never becomes negative.
THEOREM TypeCorrect == Spec => []TypeOK
<1>1. IInv => TypeOK BY DEF IInv
<1> QED BY <1>1, Invariance, PTL

\* pending_msg_count, changed in sections apart from those of the list, is the
\* number of messages in the list and in the hands of readers.
THEOREM CountExact == Spec => []PendingCountExact
<1>1. IInv => PendingCountExact BY DEF IInv
<1> QED BY <1>1, Invariance, PTL

\* aocc_demux_kthread never works on a file that aocc_release has begun to free.
THEOREM NoUseAfterRelease == Spec => []EntryStaysOpen
<1>1. IInv => EntryStaysOpen BY DEF IInv
<1> QED BY <1>1, Invariance, PTL

\* aocc_read loses no wake-up, although it tests the count outside of
\* pending_msg_lock.
THEOREM NoLostWakeup == Spec => []SleeperIsWoken
<1>1. IInv => SleeperIsWoken BY DEF IInv
<1> QED BY <1>1, Invariance, PTL

\* A channel that the AoC was asked to hold back is known to be so, also when
\* commands fail and whatever is_channel_blocked was allocated with.
THEOREM BlockRemembered == Spec => []BlockIsRemembered
<1>1. IInv => BlockIsRemembered BY DEF IInv, BlockInv, BlockIsRemembered, InList
<1> QED BY <1>1, Invariance, PTL
=============================================================================
