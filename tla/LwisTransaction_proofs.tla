----------------------- MODULE LwisTransaction_proofs -----------------------
(* Theorems about the transactions of a client, for any sets of             *)
(* transactions, iterations, handlers and fences and any limit.             *)
EXTENDS LwisTransaction, FiniteSetTheorems, SequenceTheorems, TLAPS

MemType == [st : {"none", "live", "freed"}, info : Info, parent : Transaction \cup {None},
            error : BOOLEAN, remaining : Nat]
WorkerType == [pc : {"idle", "start", "scan", "io", "finish", "after", "emit"},
               it : Object \cup {None}, next : Object \cup {None},
               failed : BOOLEAN, fences : SUBSET Transaction]
HandlerType == [pc : {"idle", "walk", "context", "resume", "kick"},
                it : Object \cup {None}, next : Transaction \cup {None},
                fences : SUBSET Transaction]
FenceType == [status : {"unsignaled", "signaled", "error"}, locked : BOOLEAN,
              callbacks : SUBSET Transaction, calling : Transaction \cup {None},
              kick : BOOLEAN, fences : SUBSET Transaction]
EntriesType == [Transaction -> {"none", "live", "freed", "freed twice"}]
AnswerType == [Transaction -> {"none", "moved", "signaled", "lost", "released"}]
FlushType == [pc : {"none", "lists", "pending", "mark", "enqueue", "wait", "queue", "cleanup",
                    "cleanup_io", "power"},
              for : {"disable", "reset"}, runs : 0..2, it : Transaction \cup {None}]

\* TypeOK with names for its sets.
TypeInv ==
    /\ lock \in {"free", "worker", "submit", "flush"} \cup Handler
    /\ is_enabled \in BOOLEAN /\ work_queued \in BOOLEAN
    /\ mem \in [Object -> MemType] /\ io_entries \in EntriesType
    /\ event_list \in Seq(Transaction) /\ cleanup_list \in Seq(Transaction)
    /\ pending \subseteq Transaction /\ queue \in Seq(Object)
    /\ worker \in WorkerType /\ handler \in [Handler -> HandlerType]
    /\ submitter \in Transaction \cup {None} /\ fence \in [Fence -> FenceType]
    /\ flush \in FlushType /\ flush_state \in {"NOT_FLUSHING", "FLUSHING"}
    /\ answer \in AnswerType

-----------------------------------------------------------------------------
(* The inductive invariant of OnePlace.  The places of a transaction are    *)
(* seven sets, which are disjoint and have the live ones as their union;     *)
(* a list names nothing twice, and no two handlers execute the same.         *)

LiveSet == {o \in Object : Live(o)}
OnEvent == ToSet(event_list)
OnCleanup == ToSet(cleanup_list)
OnQueue == ToSet(queue)
Submitted == {submitter} \ {None}
CleaningUp == {o \in Object : flush.pc = "cleanup_io" /\ flush.it = o}
Executing == {o \in Object : \E h \in Handler : handler[h].pc = "context" /\ handler[h].it = o}

PlaceInv ==
    /\ LiveSet = OnEvent \cup OnCleanup \cup OnQueue \cup pending \cup Submitted
                 \cup CleaningUp \cup Executing
    /\ OnEvent \cap (OnCleanup \cup OnQueue \cup pending \cup Submitted \cup CleaningUp
                     \cup Executing) = {}
    /\ OnCleanup \cap (OnQueue \cup pending \cup Submitted \cup CleaningUp \cup Executing) = {}
    /\ OnQueue \cap (pending \cup Submitted \cup CleaningUp \cup Executing) = {}
    /\ pending \cap (Submitted \cup CleaningUp \cup Executing) = {}
    /\ Submitted \cap (CleaningUp \cup Executing) = {}
    /\ CleaningUp \cap Executing = {}

ListInv == IsInjective(event_list) /\ IsInjective(cleanup_list) /\ IsInjective(queue)

HandlerInv ==
    /\ \A h \in Handler : handler[h].pc = "context" => handler[h].it \in Object
    /\ \A g, h \in Handler :
         handler[g].pc = "context" /\ handler[h].pc = "context" /\ handler[g].it = handler[h].it
         => g = h

\* Who is inside a loop or waits for the lock of a fence has transaction_lock; a flush that
\* executes a cleanup transaction has one.
LockInv ==
    /\ submitter # None => lock = "submit"
    /\ worker.pc = "scan" => lock = "worker"
    /\ flush.pc = "pending" => lock = "flush"
    /\ flush.pc = "cleanup_io" => flush.it # None
    /\ \A h \in Handler : handler[h].pc = "walk" => lock = h

IInv == TypeInv /\ LockInv /\ ListInv /\ HandlerInv /\ PlaceInv

-----------------------------------------------------------------------------
(* The order of the queue.  Before the transaction the worker is at, and     *)
(* before the node it has saved, there are high-priority ones only; the      *)
(* saved node is the next one; or what the worker holds has been freed.      *)

Saved(o) == o = None \/ In(o, queue) \/ mem[o].st = "freed"

OnlyHighBefore(o) ==
    \A i, j \in 1..Len(queue) : queue[j] = o /\ i < j => HighPriority(queue[i])

Follows(o, x) == \E i \in 1..Len(queue) - 1 : queue[i] = o /\ queue[i + 1] = x

OrderInv ==
    /\ worker.pc \in {"scan", "io", "finish", "after"} =>
         Saved(worker.it) /\ OnlyHighBefore(worker.it)
    /\ worker.pc \in {"io", "finish"} /\ In(worker.it, queue) /\ worker.next # None =>
         Follows(worker.it, worker.next)
    /\ worker.pc \in {"io", "finish"} => worker.it # None
    /\ worker.pc \in {"io", "finish", "after"} => Saved(worker.next)
    /\ worker.pc = "after" /\ worker.it = None => OnlyHighBefore(worker.next)

\* From the moment a flush has taken the lock until the client is used again, nothing is left to
\* be triggered; and nothing is queued once the flush has emptied the queue.
FlushInv ==
    /\ flush.pc \in {"pending", "mark", "enqueue", "wait", "queue", "cleanup", "cleanup_io",
                     "power"} => event_list = <<>> /\ submitter = None
    /\ flush.pc \in {"mark", "enqueue", "wait", "queue", "cleanup", "cleanup_io", "power"} =>
         pending = {}
    /\ flush.pc \in {"cleanup", "cleanup_io", "power"} => queue = <<>>
    /\ ~is_enabled =>
         event_list = <<>> /\ submitter = None /\ pending = {} /\ queue = <<>>
    /\ flush_state = "FLUSHING" => flush.pc \in {"enqueue", "wait"}

\* Somebody other than the worker sees to the queue.
Kicked ==
    \/ work_queued
    \/ \E h \in Handler : handler[h].pc # "idle"
    \/ \E f \in Fence : fence[f].calling # None
    \/ flush.pc \notin {"none", "cleanup", "cleanup_io", "power"}

\* Whoever puts a transaction before the worker sees to it.
AtHead(o) == In(o, queue) => o = queue[1] \/ Kicked

ServeInv ==
    /\ worker.pc \in {"idle", "emit"} => queue = <<>> \/ Kicked
    /\ worker.pc = "scan" /\ worker.it = None => queue = <<>> \/ Kicked
    /\ worker.pc \in {"io", "finish"} /\ worker.next = None /\ In(worker.it, queue) =>
         Len(queue) = 1 \/ Kicked
    /\ worker.pc = "after" /\ worker.it = None /\ worker.next = None => queue = <<>> \/ Kicked
    /\ worker.pc \in {"scan", "io", "finish", "after"} => AtHead(worker.it)
    /\ worker.pc = "after" /\ worker.it = None => AtHead(worker.next)

-----------------------------------------------------------------------------
(* Lists *)

\* ToSet is about the positions of a list.
LEMMA SetOfList ==
    ASSUME NEW S, NEW s \in Seq(S)
    PROVE  /\ \A o : o \in ToSet(s) <=> \E i \in 1..Len(s) : s[i] = o
           /\ ToSet(s) \subseteq S
           /\ s = <<>> <=> ToSet(s) = {}
<1>1. DOMAIN s = 1..Len(s) /\ Len(s) \in Nat BY LenProperties
<1>2. \A o : o \in ToSet(s) <=> \E i \in 1..Len(s) : s[i] = o BY <1>1 DEF ToSet
<1>3. ToSet(s) \subseteq S BY <1>2, ElementOfSeq
<1>4. ASSUME s # <<>> PROVE ToSet(s) # {}
  <2>1. 1 \in 1..Len(s) BY <1>4, EmptySeq
  <2> QED BY <1>2, <2>1
<1>5. ASSUME s = <<>> PROVE ToSet(s) = {}
  <2>1. Len(s) = 0 BY <1>5
  <2> QED BY <1>2, <2>1
<1> QED BY <1>2, <1>3, <1>4, <1>5

\* No node is at two positions.
LEMMA InjectiveList ==
    ASSUME NEW S, NEW s \in Seq(S)
    PROVE  IsInjective(s) <=> \A i, j \in 1..Len(s) : s[i] = s[j] => i = j
<1>1. DOMAIN s = 1..Len(s) BY LenProperties
<1> QED BY <1>1 DEF IsInjective

\* The empty list.
LEMMA EmptyList == ToSet(<<>>) = {} /\ IsInjective(<<>>)
<1>1. <<>> \in Seq({}) /\ Len(<<>>) = 0 BY EmptySeq
<1>2. \A i, j \in 1..Len(<<>>) : <<>>[i] = <<>>[j] => i = j BY <1>1
<1>3. IsInjective(<<>>) BY <1>1, <1>2, InjectiveList
<1> QED BY <1>1, <1>3, SetOfList

\* list_add_tail of a node that is not on the list.
LEMMA AppendToList ==
    ASSUME NEW S, NEW s \in Seq(S), NEW o \in S
    PROVE  /\ Append(s, o) \in Seq(S) /\ Append(s, o) # <<>>
           /\ Len(Append(s, o)) = Len(s) + 1
           /\ \A i \in 1..Len(s) : Append(s, o)[i] = s[i]
           /\ Append(s, o)[Len(s) + 1] = o
           /\ ToSet(Append(s, o)) = ToSet(s) \cup {o}
           /\ IsInjective(s) /\ o \notin ToSet(s) => IsInjective(Append(s, o))
<1> DEFINE t == Append(s, o)
<1>1. /\ t \in Seq(S) /\ t # <<>> /\ Len(t) = Len(s) + 1 /\ Len(s) \in Nat
      /\ \A i \in 1..Len(s) : t[i] = s[i]
      /\ t[Len(s) + 1] = o
  BY AppendProperties, LenProperties
<1> HIDE DEF t
<1>2. \A x : x \in ToSet(t) <=> x \in ToSet(s) \cup {o}
  <2>1. \A i : i \in 1..Len(t) <=> i \in 1..Len(s) \/ i = Len(s) + 1 BY <1>1
  <2> QED BY <1>1, <2>1, SetOfList
<1>3. ASSUME IsInjective(s), o \notin ToSet(s) PROVE IsInjective(t)
  <2>1. \A i, j \in 1..Len(s) : s[i] = s[j] => i = j BY <1>3, InjectiveList
  <2>2. \A i \in 1..Len(s) : s[i] # o BY <1>3, SetOfList
  <2>3. \A i \in 1..Len(t) : i \in 1..Len(s) \/ i = Len(s) + 1 BY <1>1
  <2>4. \A i, j \in 1..Len(t) : t[i] = t[j] => i = j BY <1>1, <2>1, <2>2, <2>3
  <2> QED BY <1>1, <2>4, InjectiveList
<1> QED BY <1>1, <1>2, <1>3 DEF t

\* list_add of a node that is not on the list.
LEMMA AddToList ==
    ASSUME NEW S, NEW s \in Seq(S), NEW o \in S
    PROVE  /\ list_add(s, o) \in Seq(S) /\ list_add(s, o) # <<>>
           /\ Len(list_add(s, o)) = Len(s) + 1
           /\ \A i \in 1..Len(s) : list_add(s, o)[i + 1] = s[i]
           /\ list_add(s, o)[1] = o
           /\ ToSet(list_add(s, o)) = ToSet(s) \cup {o}
           /\ IsInjective(s) /\ o \notin ToSet(s) => IsInjective(list_add(s, o))
<1> DEFINE t == list_add(s, o)
<1>1. Len(s) \in Nat BY LenProperties
<1>2. t \in Seq(S) /\ Len(t) = Len(s) + 1 /\ t[1] = o /\ \A i \in 1..Len(s) : t[i + 1] = s[i]
  <2>1. <<o>> \in Seq(S) /\ Len(<<o>>) = 1 /\ <<o>>[1] = o OBVIOUS
  <2>2. /\ <<o>> \o s \in Seq(S) /\ Len(<<o>> \o s) = Len(<<o>>) + Len(s)
        /\ \A i \in 1..Len(<<o>>) + Len(s) :
             (<<o>> \o s)[i] = IF i <= Len(<<o>>) THEN <<o>>[i] ELSE s[i - Len(<<o>>)]
    BY <2>1, ConcatProperties
  <2>3. t = <<o>> \o s BY DEF list_add
  <2>4. \A i \in 1..Len(s) : i + 1 \in 1..1 + Len(s) /\ ~(i + 1 <= 1) /\ (i + 1) - 1 = i BY <1>1
  <2>5. 1 \in 1..1 + Len(s) BY <1>1
  <2> QED BY <1>1, <2>1, <2>2, <2>3, <2>4, <2>5
<1> HIDE DEF t
<1>3. t # <<>> BY <1>1, <1>2
<1>4. ASSUME NEW i \in 1..Len(t), i # 1 PROVE i - 1 \in 1..Len(s) /\ t[i] = s[i - 1]
  <2>1. i - 1 \in 1..Len(s) /\ (i - 1) + 1 = i BY <1>1, <1>2, <1>4
  <2>2. t[(i - 1) + 1] = s[i - 1] BY <1>2, <2>1
  <2> QED BY <2>1, <2>2
<1>5. ASSUME NEW x PROVE x \in ToSet(t) <=> x \in ToSet(s) \cup {o}
  <2>1. ASSUME x \in ToSet(t) PROVE x \in ToSet(s) \cup {o}
    <3>1. PICK i \in 1..Len(t) : t[i] = x BY <1>2, <2>1, SetOfList
    <3> QED BY <1>2, <1>4, <3>1, SetOfList
  <2>2. ASSUME x \in ToSet(s) PROVE x \in ToSet(t)
    <3>1. PICK i \in 1..Len(s) : s[i] = x BY <2>2, SetOfList
    <3>2. i + 1 \in 1..Len(t) /\ t[i + 1] = x BY <1>1, <1>2, <3>1
    <3> QED BY <1>2, <3>2, SetOfList
  <2>3. 1 \in 1..Len(t) BY <1>1, <1>2
  <2>4. o \in ToSet(t) BY <1>2, <2>3, SetOfList
  <2> QED BY <2>1, <2>2, <2>4
<1>6. ASSUME IsInjective(s), o \notin ToSet(s) PROVE IsInjective(t)
  <2>1. \A i, j \in 1..Len(s) : s[i] = s[j] => i = j BY <1>6, InjectiveList
  <2>2. \A i \in 1..Len(s) : s[i] # o BY <1>6, SetOfList
  <2>3. ASSUME NEW i \in 1..Len(t), NEW j \in 1..Len(t), t[i] = t[j] PROVE i = j
    <3>1. CASE i = 1 BY <1>2, <1>4, <2>2, <2>3, <3>1
    <3>2. CASE j = 1 BY <1>2, <1>4, <2>2, <2>3, <3>2
    <3>3. CASE i # 1 /\ j # 1
      <4>1. i - 1 = j - 1 BY <1>4, <2>1, <2>3, <3>3
      <4> QED BY <1>1, <1>2, <4>1
    <3> QED BY <3>1, <3>2, <3>3
  <2> QED BY <1>2, <2>3, InjectiveList
<1> QED BY <1>2, <1>3, <1>5, <1>6 DEF t

\* add_transaction_to_queue_locked, at whichever end.
LEMMA QueuedToList ==
    ASSUME queue \in Seq(Object), NEW o \in Object, NEW info,
           add_transaction_to_queue_locked(o, info)
    PROVE  /\ queue' \in Seq(Object) /\ queue' # <<>> /\ ToSet(queue') = ToSet(queue) \cup {o}
           /\ IsInjective(queue) /\ o \notin ToSet(queue) => IsInjective(queue')
<1>1. CASE info.high_priority
  <2>1. queue' = list_add(queue, o) BY <1>1 DEF add_transaction_to_queue_locked
  <2>2. /\ list_add(queue, o) \in Seq(Object) /\ list_add(queue, o) # <<>>
        /\ ToSet(list_add(queue, o)) = ToSet(queue) \cup {o}
        /\ IsInjective(queue) /\ o \notin ToSet(queue) => IsInjective(list_add(queue, o))
    BY AddToList
  <2> QED BY <2>1, <2>2
<1>2. CASE ~info.high_priority BY <1>2, AppendToList DEF add_transaction_to_queue_locked
<1> QED BY <1>1, <1>2

\* A node of a list has one position.
LEMMA PositionOf ==
    ASSUME NEW S, NEW s \in Seq(S), NEW o \in ToSet(s)
    PROVE  /\ Position(s, o) \in 1..Len(s) /\ s[Position(s, o)] = o /\ Len(s) \in Nat
           /\ Next_(s, o) \in S \cup {None}
<1>1. \E i \in 1..Len(s) : s[i] = o BY SetOfList
<1>2. Position(s, o) \in 1..Len(s) /\ s[Position(s, o)] = o BY <1>1 DEF Position
<1>3. Len(s) \in Nat BY LenProperties
<1>4. Position(s, o) # Len(s) => Position(s, o) + 1 \in 1..Len(s) BY <1>2, <1>3
<1> QED BY <1>2, <1>3, <1>4, ElementOfSeq DEF Next_

\* list_del, by positions.
LEMMA DeletedFrom ==
    ASSUME NEW S, NEW s \in Seq(S), NEW o \in ToSet(s)
    PROVE  /\ list_del(s, o) \in Seq(S) /\ Len(list_del(s, o)) = Len(s) - 1
           /\ \A i \in 1..Len(s) - 1 :
                list_del(s, o)[i] = IF i < Position(s, o) THEN s[i] ELSE s[i + 1]
<1> DEFINE p == Position(s, o)
<1>1. p \in 1..Len(s) /\ Len(s) \in Nat BY PositionOf
<1> HIDE DEF p
<1>2. \A i \in 1..Len(s) : s[i] \in S BY ElementOfSeq
<1>3. /\ SubSeq(s, 1, p - 1) \in Seq(S) /\ Len(SubSeq(s, 1, p - 1)) = p - 1
      /\ \A i \in 1..p - 1 : SubSeq(s, 1, p - 1)[i] = s[i]
  BY <1>1, <1>2, SubSeqProperties
<1>4. /\ SubSeq(s, p + 1, Len(s)) \in Seq(S) /\ Len(SubSeq(s, p + 1, Len(s))) = Len(s) - p
      /\ \A i \in 1..Len(s) - p : SubSeq(s, p + 1, Len(s))[i] = s[p + i]
  BY <1>1, <1>2, SubSeqProperties
<1>5. list_del(s, o) = SubSeq(s, 1, p - 1) \o SubSeq(s, p + 1, Len(s))
  BY DEF list_del, RemoveAt, p
<1> DEFINE a == SubSeq(s, 1, p - 1)
           b == SubSeq(s, p + 1, Len(s))
<1>6. /\ a \o b \in Seq(S) /\ Len(a \o b) = Len(a) + Len(b)
      /\ \A i \in 1..Len(a) + Len(b) :
           (a \o b)[i] = IF i <= Len(a) THEN a[i] ELSE b[i - Len(a)]
  BY <1>3, <1>4, ConcatProperties
<1>7. a \in Seq(S) /\ Len(a) = p - 1 /\ \A i \in 1..p - 1 : a[i] = s[i] BY <1>3
<1>8. b \in Seq(S) /\ Len(b) = Len(s) - p /\ \A i \in 1..Len(s) - p : b[i] = s[p + i] BY <1>4
<1> HIDE DEF a, b
<1>9. Len(a) + Len(b) = Len(s) - 1 BY <1>1, <1>7, <1>8
<1>10. ASSUME NEW i \in 1..Len(s) - 1
       PROVE  (a \o b)[i] = IF i < p THEN s[i] ELSE s[i + 1]
  <2>1. CASE i < p
    <3>1. i \in 1..p - 1 /\ i <= Len(a) BY <2>1, <1>1, <1>7
    <3> QED BY <3>1, <2>1, <1>6, <1>7, <1>9
  <2>2. CASE ~(i < p)
    <3>1. i - Len(a) \in 1..Len(s) - p /\ ~(i <= Len(a)) /\ ~(i < p) BY <2>2, <1>1, <1>7
    <3>2. p + (i - Len(a)) = i + 1 BY <1>1, <1>7
    <3> QED BY <3>1, <3>2, <1>6, <1>8, <1>9
  <2> QED BY <2>1, <2>2
<1> QED BY <1>5, <1>6, <1>9, <1>10 DEF a, b, p

\* list_del and the next node, when the position is known.
LEMMA DeletedAt ==
    ASSUME NEW S, NEW s \in Seq(S), IsInjective(s), NEW p \in 1..Len(s)
    PROVE  /\ s[p] \in ToSet(s) /\ list_del(s, s[p]) = RemoveAt(s, p) /\ Len(s) \in Nat
           /\ list_del(s, s[p]) \in Seq(S) /\ Len(list_del(s, s[p])) = Len(s) - 1
           /\ \A i \in 1..Len(s) - 1 :
                list_del(s, s[p])[i] = IF i < p THEN s[i] ELSE s[i + 1]
           /\ Next_(s, s[p]) = IF p = Len(s) THEN None ELSE s[p + 1]
<1>1. s[p] \in ToSet(s) BY SetOfList
<1>2. Position(s, s[p]) = p BY <1>1, PositionOf, InjectiveList
<1> QED BY <1>1, <1>2, DeletedFrom, PositionOf DEF list_del, Next_

\* list_del takes one node off a list that has it once.
LEMMA DeletedNode ==
    ASSUME NEW S, NEW s \in Seq(S), NEW o \in ToSet(s), IsInjective(s)
    PROVE  /\ list_del(s, o) \in Seq(S) /\ IsInjective(list_del(s, o))
           /\ ToSet(list_del(s, o)) = ToSet(s) \ {o}
<1> DEFINE p == Position(s, o)
           t == list_del(s, o)
<1>1. p \in 1..Len(s) /\ Len(s) \in Nat /\ s[p] = o BY PositionOf
<1>2. /\ t \in Seq(S) /\ Len(t) = Len(s) - 1
      /\ \A i \in 1..Len(s) - 1 : t[i] = IF i < p THEN s[i] ELSE s[i + 1]
  BY DeletedFrom
<1>3. \A i, j \in 1..Len(s) : s[i] = s[j] => i = j BY InjectiveList
<1> HIDE DEF p, t
<1>4. \A i, j \in 1..Len(t) : t[i] = t[j] => i = j BY <1>1, <1>2, <1>3
<1>5. ASSUME NEW x PROVE x \in ToSet(t) <=> x \in ToSet(s) \ {o}
  <2>1. ASSUME x \in ToSet(t) PROVE x \in ToSet(s) \ {o}
    <3>1. PICK i \in 1..Len(t) : t[i] = x BY <1>2, <2>1, SetOfList
    <3>2. \E j \in 1..Len(s) : s[j] = x /\ j # p
      <4>1. CASE i < p BY <4>1, <3>1, <1>1, <1>2
      <4>2. CASE ~(i < p)
        <5>1. i + 1 \in 1..Len(s) /\ i + 1 # p BY <4>2, <1>1, <1>2
        <5> QED BY <5>1, <4>2, <3>1, <1>2
      <4> QED BY <4>1, <4>2
    <3> QED BY <3>2, <1>1, <1>3, SetOfList
  <2>2. ASSUME x \in ToSet(s) \ {o} PROVE x \in ToSet(t)
    <3>1. PICK j \in 1..Len(s) : s[j] = x BY <2>2, SetOfList
    <3>2. j # p BY <3>1, <2>2, <1>1
    <3>3. \E i \in 1..Len(t) : t[i] = x
      <4>1. CASE j < p
        <5>1. j \in 1..Len(s) - 1 BY <4>1, <1>1
        <5> QED BY <5>1, <4>1, <3>1, <1>2
      <4>2. CASE j > p
        <5>1. j - 1 \in 1..Len(s) - 1 /\ ~(j - 1 < p) /\ (j - 1) + 1 = j BY <4>2, <1>1
        <5> QED BY <5>1, <3>1, <1>2
      <4> QED BY <4>1, <4>2, <3>2, <1>1
    <3> QED BY <3>3, <1>2, SetOfList
  <2> QED BY <2>1, <2>2
<1> QED BY <1>2, <1>4, <1>5, InjectiveList DEF t

\* The first node.
LEMMA FirstOfList ==
    ASSUME NEW S, NEW s \in Seq(S)
    PROVE  /\ First(s) \in S \cup {None}
           /\ s # <<>> => First(s) \in ToSet(s) /\ First(s) = s[1] /\ 1 \in 1..Len(s)
<1>1. CASE s = <<>> BY <1>1 DEF First
<1>2. CASE s # <<>>
  <2>1. 1 \in 1..Len(s) BY <1>2, EmptySeq
  <2> QED BY <1>2, <2>1, ElementOfSeq, SetOfList DEF First
<1> QED BY <1>1, <1>2

\* Taking the first node off is list_del of it; the node after it is the second.
LEMMA FirstDeleted ==
    ASSUME NEW S, NEW s \in Seq(S), s # <<>>, IsInjective(s)
    PROVE  /\ Tail(s) = list_del(s, s[1]) /\ s[1] \in ToSet(s)
           /\ Position(s, s[1]) = 1 /\ Len(s) \in Nat \ {0}
           /\ Next_(s, s[1]) = IF Len(s) = 1 THEN None ELSE s[2]
<1>1. Len(s) \in Nat \ {0} /\ 1 \in 1..Len(s) /\ s[1] \in ToSet(s) BY EmptySeq, SetOfList
<1>2. Position(s, s[1]) = 1 BY <1>1, PositionOf, InjectiveList
<1>3. /\ Tail(s) \in Seq(S) /\ Len(Tail(s)) = Len(s) - 1
      /\ \A i \in 1..Len(Tail(s)) : Tail(s)[i] = s[i + 1]
  BY HeadTailProperties
<1>4. /\ list_del(s, s[1]) \in Seq(S) /\ Len(list_del(s, s[1])) = Len(s) - 1
      /\ \A i \in 1..Len(s) - 1 : list_del(s, s[1])[i] = s[i + 1]
  BY <1>1, <1>2, DeletedFrom
<1>5. Tail(s) = list_del(s, s[1]) BY <1>3, <1>4, SeqEqual
<1> QED BY <1>1, <1>2, <1>5 DEF Next_

-----------------------------------------------------------------------------
(* Who has the lock *)

\* With the lock free no thread is in a section that holds it.
LEMMA LockFree ==
    ASSUME LockInv, lock = "free"
    PROVE  /\ submitter = None /\ worker.pc # "scan" /\ flush.pc # "pending"
           /\ \A h \in Handler : handler[h].pc # "walk"
BY TransactionAssumption DEF LockInv

\* A handler that walks the list is alone.
LEMMA LockOfHandler ==
    ASSUME LockInv, NEW h \in Handler, handler[h].pc = "walk"
    PROVE  /\ lock = h /\ submitter = None /\ worker.pc # "scan" /\ flush.pc # "pending"
           /\ \A g \in Handler : g # h => handler[g].pc # "walk"
BY TransactionAssumption DEF LockInv

\* So is the worker, a submitter, or a flush.
LEMMA LockOfOthers ==
    ASSUME LockInv, lock \in {"worker", "submit", "flush"}
    PROVE  /\ lock # "submit" => submitter = None
           /\ lock # "worker" => worker.pc # "scan"
           /\ lock # "flush" => flush.pc # "pending"
           /\ \A h \in Handler : handler[h].pc # "walk"
BY TransactionAssumption DEF LockInv

-----------------------------------------------------------------------------
(* What an operation does to the places *)

\* The places are made of transactions and iterations, never of None.
LEMMA PlacesType ==
    ASSUME TypeInv
    PROVE  /\ OnEvent \subseteq Transaction /\ OnCleanup \subseteq Transaction
           /\ OnQueue \subseteq Object /\ pending \subseteq Transaction
           /\ Submitted \subseteq Transaction /\ Transaction \subseteq Object
           /\ None \notin Object
<1>1. OnEvent \subseteq Transaction /\ OnCleanup \subseteq Transaction /\ OnQueue \subseteq Object
  BY SetOfList DEF TypeInv, OnEvent, OnCleanup, OnQueue
<1>2. Submitted \subseteq Transaction BY DEF TypeInv, Submitted
<1> QED BY <1>1, <1>2, TransactionAssumption DEF TypeInv, Object

\* lwis_transaction_free and the end of process_transaction free the structures of S.
LEMMA FreedMemory ==
    ASSUME mem \in [Object -> MemType], NEW S, mem' = Freed(S)
    PROVE  /\ mem' \in [Object -> MemType] /\ LiveSet' = LiveSet \ S
           /\ \A o \in Object : mem'[o].st = IF o \in S THEN "freed" ELSE mem[o].st
           /\ \A o \in Object : mem'[o].info = mem[o].info
<1>1. \A o \in Object : mem'[o] = IF o \in S THEN [mem[o] EXCEPT !.st = "freed"] ELSE mem[o]
  BY DEF Freed
<1>2. \A o \in Object : mem[o] \in MemType OBVIOUS
<1>3. \A o \in Object : /\ [mem[o] EXCEPT !.st = "freed"] \in MemType
                        /\ [mem[o] EXCEPT !.st = "freed"].st = "freed"
                        /\ [mem[o] EXCEPT !.st = "freed"].info = mem[o].info
  BY <1>2 DEF MemType
<1>4. mem' \in [Object -> MemType] BY <1>2, <1>3 DEF Freed
<1>5. \A o \in Object : mem'[o].st = IF o \in S THEN "freed" ELSE mem[o].st BY <1>1, <1>3
<1>6. LiveSet' = LiveSet \ S BY <1>5 DEF LiveSet, Live
<1> QED BY <1>1, <1>3, <1>4, <1>5, <1>6

\* The io_entries keep their type.
LEMMA EntriesKeepType ==
    ASSUME io_entries \in EntriesType, NEW S
    PROVE  EntriesFreed(S) \in EntriesType
BY DEF EntriesFreed, EntriesType

\* lwis_transaction_free.
LEMMA FreeEffect ==
    ASSUME TypeInv, NEW S, lwis_transaction_free(S)
    PROVE  /\ mem' \in [Object -> MemType] /\ io_entries' \in EntriesType
           /\ LiveSet' = LiveSet \ S
           /\ \A o \in Object : mem'[o].st = IF o \in S THEN "freed" ELSE mem[o].st
           /\ \A o \in Object : mem'[o].info = mem[o].info
BY FreedMemory, EntriesKeepType DEF TypeInv, lwis_transaction_free

\* The end of process_transaction.
LEMMA ProcessedEffect ==
    ASSUME TypeInv, NEW o \in Object, free_processed(o)
    PROVE  /\ mem' \in [Object -> MemType] /\ io_entries' \in EntriesType
           /\ LiveSet' = LiveSet \ {o}
           /\ \A x \in Object : mem'[x].st = IF x = o THEN "freed" ELSE mem[x].st
           /\ \A x \in Object : mem'[x].info = mem[x].info
<1>1. io_entries' \in EntriesType BY EntriesKeepType DEF TypeInv, free_processed
<1>2. mem \in [Object -> MemType] /\ mem' = Freed({o}) BY DEF TypeInv, free_processed
<1>3. /\ mem' \in [Object -> MemType] /\ LiveSet' = LiveSet \ {o}
      /\ \A x \in Object : mem'[x].st = IF x \in {o} THEN "freed" ELSE mem[x].st
      /\ \A x \in Object : mem'[x].info = mem[x].info
  BY <1>2, FreedMemory
<1> QED BY <1>1, <1>3

\* The answers keep their type.
LEMMA AnswersType ==
    ASSUME answer \in AnswerType, NEW S
    PROVE  released(S) \in AnswerType /\ moved(S) \in AnswerType /\ signaled(S) \in AnswerType
BY DEF AnswerType, released, moved, signaled

\* A handler that neither begins nor ends an execution.
LEMMA ContextKept ==
    ASSUME HandlerInv, NEW h \in Handler, \A g \in Handler : g # h => handler'[g] = handler[g],
           handler[h].pc # "context", handler'[h].pc # "context"
    PROVE  Executing' = Executing /\ HandlerInv'
<1>1. Executing' = Executing BY DEF Executing
<1> QED BY <1>1 DEF HandlerInv

\* A handler begins to execute o.
LEMMA ContextEntered ==
    ASSUME HandlerInv, NEW h \in Handler, \A g \in Handler : g # h => handler'[g] = handler[g],
           NEW o \in Object \ Executing,
           handler[h].pc # "context", handler'[h].pc = "context", handler'[h].it = o
    PROVE  Executing' = Executing \cup {o} /\ HandlerInv'
<1>1. Executing' = Executing \cup {o} BY DEF Executing
<1>2. \A g \in Handler : handler[g].pc = "context" => handler[g].it # o BY DEF Executing
<1> QED BY <1>1, <1>2 DEF HandlerInv

\* A handler has executed its transaction, which no other handler has.
LEMMA ContextLeft ==
    ASSUME HandlerInv, NEW h \in Handler, \A g \in Handler : g # h => handler'[g] = handler[g],
           handler[h].pc = "context", handler'[h].pc # "context"
    PROVE  Executing' = Executing \ {handler[h].it} /\ HandlerInv'
<1>1. Executing' = Executing \ {handler[h].it} BY DEF Executing, HandlerInv
<1> QED BY <1>1 DEF HandlerInv

\* Steps of the other threads leave the handlers alone.
LEMMA OtherThanHandler ==
    ASSUME HandlerInv, UNCHANGED handler
    PROVE  Executing' = Executing /\ HandlerInv'
BY DEF Executing, HandlerInv

\* A flush outside its cleanup, or a step of another thread.
LEMMA CleanupKept ==
    ASSUME \/ UNCHANGED flush
           \/ flush.pc # "cleanup_io" /\ flush'.pc # "cleanup_io"
           \/ flush'.pc = flush.pc /\ flush'.it = flush.it
    PROVE  CleaningUp' = CleaningUp
BY DEF CleaningUp

\* A step that moves nothing.
LEMMA PlacesKept ==
    ASSUME ListInv, PlaceInv, UNCHANGED <<lists, submitter>>, LiveSet' = LiveSet,
           Executing' = Executing, CleaningUp' = CleaningUp
    PROVE  ListInv' /\ PlaceInv'
BY DEF ListInv, PlaceInv, lists, OnEvent, OnCleanup, OnQueue, Submitted

-----------------------------------------------------------------------------
(* Submit and cancel keep the invariant *)

\* The initial state.
LEMMA InitIInv == ASSUME Init PROVE IInv
<1>1. TypeInv
  <2>1. NoInfo \in Info BY DEF NoInfo, Info
  <2>2. mem \in [Object -> MemType] BY <2>1 DEF Init, MemType
  <2>3. worker \in WorkerType /\ handler \in [Handler -> HandlerType]
    BY DEF Init, WorkerType, HandlerType
  <2>4. fence \in [Fence -> FenceType] /\ flush \in FlushType BY DEF Init, FenceType, FlushType
  <2>5. io_entries \in EntriesType /\ answer \in AnswerType BY DEF Init, EntriesType, AnswerType
  <2> QED BY <2>2, <2>3, <2>4, <2>5, EmptySeq DEF Init, TypeInv
<1>2. LockInv BY DEF Init, LockInv
<1>3. ListInv BY EmptyList DEF Init, ListInv
<1>4. HandlerInv BY DEF Init, HandlerInv
<1>5. PlaceInv
  <2>1. OnEvent = {} /\ OnCleanup = {} /\ OnQueue = {} /\ pending = {} /\ Submitted = {}
    BY EmptyList DEF Init, OnEvent, OnCleanup, OnQueue, Submitted
  <2>2. LiveSet = {} /\ CleaningUp = {} /\ Executing = {}
    BY DEF Init, LiveSet, Live, CleaningUp, Executing
  <2> QED BY <2>1, <2>2 DEF PlaceInv
<1> QED BY <1>1, <1>2, <1>3, <1>4, <1>5 DEF IInv

\* The memory of a new transaction or iteration.
LEMMA NewMemory ==
    ASSUME TypeInv, NEW o \in Object, NEW r \in MemType, r.st = "live",
           mem' = [mem EXCEPT ![o] = r]
    PROVE  mem' \in [Object -> MemType] /\ LiveSet' = LiveSet \cup {o}
BY DEF TypeInv, LiveSet, Live

\* lwis_transaction_submit puts the transaction on one list, or keeps the lock for its fence.
LEMMA SubmitInv ==
    ASSUME IInv, NEW t \in Transaction, lwis_transaction_submit(t)
    PROVE  IInv'
<1> USE DEF IInv
<1>1. PICK info \in Infos[t] :
         /\ mem' = [mem EXCEPT ![t] = [st |-> "live", info |-> info, parent |-> t,
                                       error |-> FALSE, remaining |-> info.entries]]
         /\ io_entries' = [io_entries EXCEPT ![t] = "live"]
         /\ lock' = IF info.trigger = "fence" THEN "submit" ELSE lock
         /\ submitter' = IF info.trigger = "fence" THEN t ELSE submitter
         /\ IF info.trigger = "none" THEN add_transaction_to_queue_locked(t, info)
            ELSE queue' = queue
         /\ work_queued' = (work_queued \/ info.trigger = "none")
         /\ event_list' = IF info.trigger \in {"next", "every"} THEN Append(event_list, t)
                          ELSE event_list
         /\ cleanup_list' = IF info.trigger = "cleanup" THEN Append(cleanup_list, t)
                            ELSE cleanup_list
  BY DEF lwis_transaction_submit
<1>2. /\ mem[t].st = "none" /\ lock = "free"
      /\ UNCHANGED <<is_enabled, pending, worker, handler, fence, flush, flush_state, answer>>
  BY DEF lwis_transaction_submit
<1>3. info \in Info /\ info.entries \in Nat
      /\ info.trigger \in {"none", "next", "every", "fence", "cleanup"}
  BY TransactionAssumption DEF Info
<1>4. /\ submitter = None /\ worker.pc # "scan" /\ flush.pc # "pending"
      /\ \A h \in Handler : handler[h].pc # "walk"
  BY <1>2, LockFree
<1>5. t \in Object /\ t \notin LiveSet /\ t # None /\ None \notin Object
  BY <1>2, PlacesType DEF LiveSet, Live
<1>6. mem' \in [Object -> MemType] /\ LiveSet' = LiveSet \cup {t}
  <2>1. [st |-> "live", info |-> info, parent |-> t, error |-> FALSE, remaining |-> info.entries]
          \in MemType
    BY <1>3 DEF MemType
  <2> QED BY <1>1, <1>5, <2>1, NewMemory
<1>7. /\ event_list \in Seq(Transaction) /\ cleanup_list \in Seq(Transaction)
      /\ queue \in Seq(Object)
  BY DEF TypeInv
<1>8. t \notin OnEvent /\ t \notin OnCleanup /\ t \notin OnQueue /\ t \notin pending
      /\ t \notin Submitted /\ t \notin CleaningUp /\ t \notin Executing
  BY <1>5 DEF PlaceInv
<1>9. /\ event_list' \in Seq(Transaction) /\ IsInjective(event_list')
      /\ OnEvent' = IF info.trigger \in {"next", "every"} THEN OnEvent \cup {t} ELSE OnEvent
  <2>1. CASE info.trigger \in {"next", "every"}
    <3>1. event_list' = Append(event_list, t) BY <1>1, <2>1
    <3>2. t \in Transaction /\ t \notin ToSet(event_list) /\ IsInjective(event_list)
      BY <1>5, <1>8 DEF OnEvent, ListInv
    <3> QED BY <2>1, <3>1, <3>2, <1>7, AppendToList DEF OnEvent
  <2>2. CASE ~(info.trigger \in {"next", "every"})
    <3>1. event_list' = event_list BY <1>1, <2>2
    <3> QED BY <2>2, <3>1, <1>7 DEF OnEvent, ListInv
  <2> QED BY <2>1, <2>2
<1>10. /\ cleanup_list' \in Seq(Transaction) /\ IsInjective(cleanup_list')
       /\ OnCleanup' = IF info.trigger = "cleanup" THEN OnCleanup \cup {t} ELSE OnCleanup
  <2>1. CASE info.trigger = "cleanup"
    <3>1. cleanup_list' = Append(cleanup_list, t) BY <1>1, <2>1
    <3>2. t \in Transaction /\ t \notin ToSet(cleanup_list) /\ IsInjective(cleanup_list)
      BY <1>5, <1>8 DEF OnCleanup, ListInv
    <3> QED BY <2>1, <3>1, <3>2, <1>7, AppendToList DEF OnCleanup
  <2>2. CASE ~(info.trigger = "cleanup")
    <3>1. cleanup_list' = cleanup_list BY <1>1, <2>2
    <3> QED BY <2>2, <3>1, <1>7 DEF OnCleanup, ListInv
  <2> QED BY <2>1, <2>2
<1>11. /\ queue' \in Seq(Object) /\ IsInjective(queue')
       /\ OnQueue' = IF info.trigger = "none" THEN OnQueue \cup {t} ELSE OnQueue
  <2>1. CASE info.trigger = "none"
    <3>1. add_transaction_to_queue_locked(t, info) BY <1>1, <2>1
    <3>2. t \in Object /\ t \notin ToSet(queue) /\ IsInjective(queue)
      BY <1>5, <1>8 DEF OnQueue, ListInv
    <3> QED BY <2>1, <3>1, <3>2, <1>7, QueuedToList DEF OnQueue
  <2>2. CASE ~(info.trigger = "none")
    <3>1. queue' = queue BY <1>1, <2>2
    <3> QED BY <2>2, <3>1, <1>7 DEF OnQueue, ListInv
  <2> QED BY <2>1, <2>2
<1>12. Submitted' = (IF info.trigger = "fence" THEN {t} ELSE {}) /\ Submitted = {}
  BY <1>1, <1>4, <1>5 DEF Submitted
<1>13. Executing' = Executing /\ HandlerInv' /\ CleaningUp' = CleaningUp /\ pending' = pending
  BY <1>2, OtherThanHandler, CleanupKept
<1>14. PlaceInv'
  <2>1. CASE info.trigger = "none"
    <3>1. /\ OnEvent' = OnEvent /\ OnCleanup' = OnCleanup /\ OnQueue' = OnQueue \cup {t}
          /\ Submitted' = {}
      BY <2>1, <1>9, <1>10, <1>11, <1>12
    <3> QED BY <3>1, <1>6, <1>8, <1>12, <1>13 DEF PlaceInv
  <2>2. CASE info.trigger \in {"next", "every"}
    <3>1. /\ OnEvent' = OnEvent \cup {t} /\ OnCleanup' = OnCleanup /\ OnQueue' = OnQueue
          /\ Submitted' = {}
      BY <2>2, <1>9, <1>10, <1>11, <1>12
    <3> QED BY <3>1, <1>6, <1>8, <1>12, <1>13 DEF PlaceInv
  <2>3. CASE info.trigger = "fence"
    <3>1. /\ OnEvent' = OnEvent /\ OnCleanup' = OnCleanup /\ OnQueue' = OnQueue
          /\ Submitted' = {t}
      BY <2>3, <1>9, <1>10, <1>11, <1>12
    <3> QED BY <3>1, <1>6, <1>8, <1>12, <1>13 DEF PlaceInv
  <2>4. CASE info.trigger = "cleanup"
    <3>1. /\ OnEvent' = OnEvent /\ OnCleanup' = OnCleanup \cup {t} /\ OnQueue' = OnQueue
          /\ Submitted' = {}
      BY <2>4, <1>9, <1>10, <1>11, <1>12
    <3> QED BY <3>1, <1>6, <1>8, <1>12, <1>13 DEF PlaceInv
  <2> QED BY <1>3, <2>1, <2>2, <2>3, <2>4
<1>15. TypeInv'
  <2>1. io_entries' \in EntriesType BY <1>1 DEF TypeInv, EntriesType
  <2>2. lock' \in {"free", "submit"} /\ submitter' \in Transaction \cup {None}
        /\ work_queued' \in BOOLEAN
    BY <1>1, <1>2, <1>4 DEF TypeInv
  <2> QED BY <1>2, <1>6, <1>9, <1>10, <1>11, <2>1, <2>2 DEF TypeInv
<1>16. LockInv' BY <1>1, <1>2, <1>4 DEF LockInv
<1> QED BY <1>9, <1>10, <1>11, <1>13, <1>14, <1>15, <1>16 DEF ListInv

\* The transaction of a submitter goes to the pending ones, or is freed.
LEMMA AddTransactionInv ==
    ASSUME IInv, trigger_fence_add_transaction
    PROVE  IInv'
<1> USE DEF IInv
<1> DEFINE t == submitter
           f == mem[t].info.fence
<1>1. /\ t # None /\ lock' = "free" /\ submitter' = None
      /\ UNCHANGED <<is_enabled, event_list, cleanup_list, queue, work_queued, worker, handler,
                     flush, flush_state, answer>>
  BY DEF trigger_fence_add_transaction
<1>2. \/ /\ fence' = [fence EXCEPT ![f].callbacks = @ \cup {t}]
         /\ pending' = pending \cup {t} /\ UNCHANGED memory
      \/ lwis_transaction_free({t}) /\ UNCHANGED <<fence, pending>>
  BY DEF trigger_fence_add_transaction
<1>3. t \in Transaction /\ Submitted = {t} /\ Submitted' = {}
  BY <1>1 DEF TypeInv, Submitted
<1>4. OnEvent' = OnEvent /\ OnCleanup' = OnCleanup /\ OnQueue' = OnQueue /\ ListInv'
  BY <1>1 DEF OnEvent, OnCleanup, OnQueue, ListInv
<1>5. Executing' = Executing /\ HandlerInv' /\ CleaningUp' = CleaningUp
  BY <1>1, OtherThanHandler, CleanupKept
<1>6. LockInv' BY <1>1, LockOfOthers DEF LockInv
<1>7. TypeInv' /\ PlaceInv'
  <2>1. CASE lwis_transaction_free({t}) /\ UNCHANGED <<fence, pending>>
    <3>1. /\ mem' \in [Object -> MemType] /\ io_entries' \in EntriesType
          /\ LiveSet' = LiveSet \ {t}
      BY <2>1, FreeEffect
    <3>2. TypeInv' BY <1>1, <2>1, <3>1 DEF TypeInv
    <3>3. PlaceInv' BY <2>1, <3>1, <1>3, <1>4, <1>5 DEF PlaceInv
    <3> QED BY <3>2, <3>3
  <2>2. CASE /\ fence' = [fence EXCEPT ![f].callbacks = @ \cup {t}]
             /\ pending' = pending \cup {t} /\ UNCHANGED memory
    <3>1. fence' \in [Fence -> FenceType]
      <4>1. \A g \in Fence : fence[g] \in FenceType BY DEF TypeInv
      <4>2. \A g \in Fence : [fence[g] EXCEPT !.callbacks = @ \cup {t}] \in FenceType
        BY <4>1, <1>3 DEF FenceType
      <4> QED BY <2>2, <4>1, <4>2 DEF TypeInv
    <3>2. LiveSet' = LiveSet BY <2>2 DEF memory, LiveSet, Live
    <3>3. TypeInv' BY <1>1, <1>3, <2>2, <3>1 DEF TypeInv, memory
    <3>4. PlaceInv' BY <2>2, <3>2, <1>3, <1>4, <1>5 DEF PlaceInv
    <3> QED BY <3>3, <3>4
  <2> QED BY <1>2, <2>1, <2>2
<1> QED BY <1>4, <1>5, <1>6, <1>7

\* A cancellation marks a transaction.
LEMMA CancelInv ==
    ASSUME IInv, NEW t \in Transaction, lwis_transaction_cancel(t)
    PROVE  IInv'
<1> USE DEF IInv
<1>1. /\ mem' = [mem EXCEPT ![t].error = TRUE]
      /\ UNCHANGED <<lock, is_enabled, io_entries, lists, work_queued, worker, handler,
                     submitter, fence, flush, flush_state, answer>>
  BY DEF lwis_transaction_cancel
<1>2. mem' \in [Object -> MemType] /\ \A o \in Object : mem'[o].st = mem[o].st
  BY <1>1 DEF TypeInv, MemType
<1>3. LiveSet' = LiveSet BY <1>2 DEF LiveSet, Live
<1>4. Executing' = Executing /\ HandlerInv' /\ CleaningUp' = CleaningUp
  BY <1>1, OtherThanHandler, CleanupKept
<1>5. ListInv' /\ PlaceInv' BY <1>1, <1>3, <1>4, PlacesKept
<1>6. TypeInv' /\ LockInv' BY <1>1, <1>2 DEF TypeInv, LockInv, lists
<1> QED BY <1>4, <1>5, <1>6

-----------------------------------------------------------------------------
(* The event handlers keep the invariant *)

\* A handler goes on to the next node.
LEMMA HandlerMovesOn ==
    ASSUME TypeInv, NEW h \in Handler, NEW x \in Object \cup {None},
           handler' = [handler EXCEPT ![h].it = x]
    PROVE  /\ handler' \in [Handler -> HandlerType]
           /\ \A g \in Handler : g # h => handler'[g] = handler[g]
           /\ handler'[h].pc = handler[h].pc /\ handler'[h].it = x
BY DEF TypeInv, HandlerType

\* A transaction goes from the list of its event to the queue.
LEMMA EventToQueue ==
    ASSUME IInv, NEW t \in OnEvent, NEW info, add_transaction_to_queue_locked(t, info),
           event_list' = list_del(event_list, t), UNCHANGED cleanup_list
    PROVE  /\ queue' \in Seq(Object) /\ event_list' \in Seq(Transaction) /\ ListInv'
           /\ OnQueue' = OnQueue \cup {t} /\ OnEvent' = OnEvent \ {t}
           /\ OnCleanup' = OnCleanup
<1>1. event_list \in Seq(Transaction) /\ queue \in Seq(Object) /\ t \in Object
      /\ IsInjective(event_list) /\ IsInjective(queue) /\ t \in ToSet(event_list)
      /\ t \notin ToSet(queue)
  BY PlacesType DEF IInv, TypeInv, ListInv, PlaceInv, OnEvent, OnQueue
<1>2. /\ queue' \in Seq(Object) /\ IsInjective(queue') /\ ToSet(queue') = ToSet(queue) \cup {t}
  BY <1>1, QueuedToList
<1>3. /\ event_list' \in Seq(Transaction) /\ IsInjective(event_list')
      /\ ToSet(event_list') = ToSet(event_list) \ {t}
  BY <1>1, DeletedNode
<1> QED BY <1>2, <1>3 DEF IInv, ListInv, OnQueue, OnEvent, OnCleanup

\* A list walk gives a transaction or the end.
LEMMA NextOnEvent ==
    ASSUME TypeInv, NEW t \in OnEvent
    PROVE  Next_(event_list, t) \in Transaction \cup {None}
BY PositionOf DEF TypeInv, OnEvent

\* lwis_transaction_event_trigger takes the lock and begins its walk.
LEMMA EventTriggerInv ==
    ASSUME IInv, NEW h \in Handler, lwis_transaction_event_trigger(h)
    PROVE  IInv'
<1> USE DEF IInv
<1>1. /\ handler[h].pc = "idle" /\ lock = "free" /\ lock' = h
      /\ handler' = [handler EXCEPT ![h] = [pc |-> "walk", it |-> First(event_list),
                                            next |-> None, fences |-> {}]]
      /\ UNCHANGED <<is_enabled, memory, lists, work_queued, worker, submitter, fence, flush,
                     flush_state, answer>>
  BY DEF lwis_transaction_event_trigger
<1>2. First(event_list) \in Object \cup {None}
  BY FirstOfList, PlacesType DEF TypeInv
<1>3. /\ handler' \in [Handler -> HandlerType]
      /\ \A g \in Handler : g # h => handler'[g] = handler[g]
      /\ handler'[h].pc = "walk"
  BY <1>1, <1>2 DEF TypeInv, HandlerType
<1>4. Executing' = Executing /\ HandlerInv' BY <1>1, <1>3, ContextKept
<1>5. CleaningUp' = CleaningUp /\ LiveSet' = LiveSet
  BY <1>1, CleanupKept DEF memory, LiveSet, Live
<1>6. ListInv' /\ PlaceInv' BY <1>1, <1>4, <1>5, PlacesKept
<1>7. TypeInv' BY <1>1, <1>3 DEF TypeInv, memory, lists
<1>8. LockInv' BY <1>1, <1>3, LockFree DEF LockInv
<1> QED BY <1>4, <1>6, <1>7, <1>8

\* A cancelled transaction goes to the queue.
LEMMA EventCancelledInv ==
    ASSUME IInv, NEW h \in Handler, event_trigger_cancelled(h)
    PROVE  IInv'
<1> USE DEF IInv
<1> DEFINE t == handler[h].it
<1>1. /\ handler[h].pc = "walk" /\ t \in OnEvent
      /\ add_transaction_to_queue_locked(t, mem[t].info)
      /\ event_list' = list_del(event_list, t)
      /\ handler' = [handler EXCEPT ![h].it = Next_(event_list, t)]
      /\ UNCHANGED <<lock, is_enabled, memory, cleanup_list, pending, work_queued, worker,
                     submitter, fence, flush, flush_state, answer>>
  BY DEF event_trigger_cancelled, OnList, In, OnEvent
<1>2. Next_(event_list, t) \in Object \cup {None} BY <1>1, NextOnEvent, PlacesType
<1>3. /\ handler' \in [Handler -> HandlerType]
      /\ \A g \in Handler : g # h => handler'[g] = handler[g]
      /\ handler'[h].pc = "walk"
  BY <1>1, <1>2, HandlerMovesOn
<1>4. Executing' = Executing /\ HandlerInv' BY <1>1, <1>3, ContextKept
<1>5. CleaningUp' = CleaningUp /\ LiveSet' = LiveSet /\ Submitted' = Submitted
  BY <1>1, CleanupKept DEF memory, LiveSet, Live, Submitted
<1>6. /\ queue' \in Seq(Object) /\ event_list' \in Seq(Transaction) /\ ListInv'
      /\ OnQueue' = OnQueue \cup {t} /\ OnEvent' = OnEvent \ {t} /\ OnCleanup' = OnCleanup
  BY <1>1, EventToQueue
<1>7. PlaceInv' BY <1>1, <1>4, <1>5, <1>6 DEF PlaceInv
<1>8. TypeInv' BY <1>1, <1>3, <1>6 DEF TypeInv, memory
<1>9. LockInv' BY <1>1, <1>3 DEF LockInv
<1> QED BY <1>4, <1>6, <1>7, <1>8, <1>9

\* defer_transaction_locked queues o, or drops the lock to execute it.
LEMMA DeferEffect ==
    ASSUME IInv, NEW h \in Handler, handler[h].pc = "walk", NEW t \in OnEvent,
           NEW o \in Object, o \notin OnQueue, o \notin Executing,
           defer_transaction_locked(h, t, o), UNCHANGED <<worker, submitter, flush>>
    PROVE  /\ lock' \in {lock, "free"} /\ LockInv'
           /\ handler' \in [Handler -> HandlerType] /\ HandlerInv'
           /\ queue' \in Seq(Object) /\ IsInjective(queue')
           /\ \/ OnQueue' = OnQueue \cup {o} /\ Executing' = Executing
              \/ OnQueue' = OnQueue /\ Executing' = Executing \cup {o}
<1> USE DEF IInv
<1>1. Next_(event_list, t) \in Transaction \cup {None} BY NextOnEvent
<1>2. Transaction \subseteq Object BY PlacesType
<1>3. queue \in Seq(Object) /\ IsInjective(queue) BY DEF TypeInv, ListInv
<1>4. CASE mem[t].info.in_event_context
  <2>1. /\ lock' = "free" /\ queue' = queue
        /\ handler' = [handler EXCEPT ![h].pc = "context", ![h].it = o,
                                      ![h].next = Next_(event_list, t)]
    BY <1>4 DEF defer_transaction_locked
  <2>2. /\ handler' \in [Handler -> HandlerType]
        /\ \A g \in Handler : g # h => handler'[g] = handler[g]
        /\ handler'[h].pc = "context" /\ handler'[h].it = o
    <3> DEFINE r == [handler[h] EXCEPT !.pc = "context", !.it = o, !.next = Next_(event_list, t)]
    <3>1. handler \in [Handler -> HandlerType] /\ handler[h] \in HandlerType BY DEF TypeInv
    <3>2. r \in HandlerType /\ r.pc = "context" /\ r.it = o BY <1>1, <3>1 DEF HandlerType
    <3>3. handler' = [handler EXCEPT ![h] = r] BY <2>1
    <3> HIDE DEF r
    <3> QED BY <3>1, <3>2, <3>3
  <2>3. Executing' = Executing \cup {o} /\ HandlerInv' BY <2>2, ContextEntered
  <2>4. LockInv' BY <2>1, <2>2, LockOfHandler DEF LockInv
  <2>5. OnQueue' = OnQueue BY <2>1 DEF OnQueue
  <2> QED BY <2>1, <2>2, <2>3, <2>4, <2>5, <1>3
<1>5. CASE ~mem[t].info.in_event_context
  <2>1. /\ lock' = lock /\ add_transaction_to_queue_locked(o, mem[t].info)
        /\ handler' = [handler EXCEPT ![h].it = Next_(event_list, t)]
    BY <1>5 DEF defer_transaction_locked
  <2>2. /\ handler' \in [Handler -> HandlerType]
        /\ \A g \in Handler : g # h => handler'[g] = handler[g]
        /\ handler'[h].pc = "walk"
    BY <2>1, <1>1, <1>2, HandlerMovesOn
  <2>3. Executing' = Executing /\ HandlerInv' BY <2>2, ContextKept
  <2>4. LockInv' BY <2>1, <2>2 DEF LockInv
  <2>5. queue' \in Seq(Object) /\ IsInjective(queue') /\ OnQueue' = OnQueue \cup {o}
    BY <2>1, <1>3, QueuedToList DEF OnQueue
  <2> QED BY <2>1, <2>2, <2>3, <2>4, <2>5
<1> QED BY <1>4, <1>5

\* A transaction that its event triggers once.
LEMMA EventNextInv ==
    ASSUME IInv, NEW h \in Handler, event_trigger_next(h)
    PROVE  IInv'
<1> USE DEF IInv
<1> DEFINE t == handler[h].it
<1>1. /\ handler[h].pc = "walk" /\ t \in OnEvent
      /\ defer_transaction_locked(h, t, t) /\ event_list' = list_del(event_list, t)
      /\ UNCHANGED <<is_enabled, memory, cleanup_list, pending, work_queued, worker,
                     submitter, fence, flush, flush_state, answer>>
  BY DEF event_trigger_next, OnList, In, OnEvent
<1>2. t \in Object /\ t \notin OnQueue /\ t \notin Executing BY <1>1, PlacesType DEF PlaceInv
<1>3. /\ lock' \in {lock, "free"} /\ LockInv'
      /\ handler' \in [Handler -> HandlerType] /\ HandlerInv'
      /\ queue' \in Seq(Object) /\ IsInjective(queue')
      /\ \/ OnQueue' = OnQueue \cup {t} /\ Executing' = Executing
         \/ OnQueue' = OnQueue /\ Executing' = Executing \cup {t}
  BY <1>1, <1>2, DeferEffect
<1>4. /\ event_list' \in Seq(Transaction) /\ IsInjective(event_list')
      /\ OnEvent' = OnEvent \ {t}
  BY <1>1, DeletedNode DEF TypeInv, ListInv, OnEvent
<1>5. /\ CleaningUp' = CleaningUp /\ LiveSet' = LiveSet /\ Submitted' = Submitted
      /\ OnCleanup' = OnCleanup /\ pending' = pending
  BY <1>1, CleanupKept DEF memory, LiveSet, Live, Submitted, OnCleanup
<1>6. PlaceInv' BY <1>1, <1>3, <1>4, <1>5 DEF PlaceInv
<1>7. ListInv' BY <1>1, <1>3, <1>4 DEF ListInv
<1>8. TypeInv' BY <1>1, <1>3, <1>4 DEF TypeInv, memory
<1> QED BY <1>3, <1>6, <1>7, <1>8

\* An iteration of a repeating transaction; without memory the transaction itself is queued.
LEMMA EventEveryInv ==
    ASSUME IInv, NEW h \in Handler, event_trigger_every(h)
    PROVE  IInv'
<1> USE DEF IInv
<1> DEFINE t == handler[h].it
<1>1. /\ handler[h].pc = "walk" /\ t \in OnEvent /\ Live(t)
      /\ UNCHANGED <<is_enabled, io_entries, cleanup_list, pending, work_queued, worker,
                     submitter, fence, flush, flush_state, answer>>
  BY DEF event_trigger_every, OnList, In, OnEvent
<1>2. CleaningUp' = CleaningUp /\ Submitted' = Submitted /\ OnCleanup' = OnCleanup
      /\ pending' = pending
  BY <1>1, CleanupKept DEF Submitted, OnCleanup
<1>3. t \in Object /\ mem[t] \in MemType BY <1>1, PlacesType DEF TypeInv
<1>4. ASSUME NEW o \in Instance, mem[o].st = "none",
             mem' = [mem EXCEPT ![o] = [mem[t] EXCEPT !.remaining = mem[t].info.entries]],
             defer_transaction_locked(h, t, o), event_list' = event_list
      PROVE  IInv'
  <2>1. o \in Object /\ o \notin LiveSet BY <1>4 DEF Object, LiveSet, Live
  <2>2. /\ [mem[t] EXCEPT !.remaining = mem[t].info.entries] \in MemType
        /\ [mem[t] EXCEPT !.remaining = mem[t].info.entries].st = "live"
    BY <1>1, <1>3 DEF MemType, Info, Live
  <2>3. mem' \in [Object -> MemType] /\ LiveSet' = LiveSet \cup {o}
    BY <1>4, <2>1, <2>2, NewMemory
  <2>4. o \notin OnQueue /\ o \notin Executing BY <2>1 DEF PlaceInv
  <2>5. /\ lock' \in {lock, "free"} /\ LockInv'
        /\ handler' \in [Handler -> HandlerType] /\ HandlerInv'
        /\ queue' \in Seq(Object) /\ IsInjective(queue')
        /\ \/ OnQueue' = OnQueue \cup {o} /\ Executing' = Executing
           \/ OnQueue' = OnQueue /\ Executing' = Executing \cup {o}
    BY <1>1, <1>4, <2>1, <2>4, DeferEffect
  <2>6. OnEvent' = OnEvent BY <1>4 DEF OnEvent
  <2>7. PlaceInv' BY <1>2, <2>1, <2>3, <2>5, <2>6 DEF PlaceInv
  <2>8. ListInv' BY <1>1, <1>4, <2>5 DEF ListInv
  <2>9. TypeInv' BY <1>1, <1>4, <2>3, <2>5 DEF TypeInv
  <2> QED BY <2>5, <2>7, <2>8, <2>9
<1>5. ASSUME mem' = [mem EXCEPT ![t].error = TRUE],
             add_transaction_to_queue_locked(t, mem[t].info),
             event_list' = list_del(event_list, t), lock' = lock,
             handler' = [handler EXCEPT ![h].it = Next_(event_list, t)]
      PROVE  IInv'
  <2>1. Next_(event_list, t) \in Object \cup {None} BY <1>1, NextOnEvent, PlacesType
  <2>2. /\ handler' \in [Handler -> HandlerType]
        /\ \A g \in Handler : g # h => handler'[g] = handler[g]
        /\ handler'[h].pc = "walk"
    BY <1>1, <1>5, <2>1, HandlerMovesOn
  <2>3. Executing' = Executing /\ HandlerInv' BY <1>1, <2>2, ContextKept
  <2>4. mem' \in [Object -> MemType] /\ \A x \in Object : mem'[x].st = mem[x].st
    <3> DEFINE r == [mem[t] EXCEPT !.error = TRUE]
    <3>1. t \in Object /\ mem \in [Object -> MemType] BY <1>1, PlacesType DEF TypeInv
    <3>2. r \in MemType /\ r.st = mem[t].st BY <3>1 DEF MemType
    <3>3. mem' = [mem EXCEPT ![t] = r] BY <1>5
    <3> HIDE DEF r
    <3> QED BY <3>1, <3>2, <3>3
  <2>5. LiveSet' = LiveSet BY <2>4 DEF LiveSet, Live
  <2>6. /\ queue' \in Seq(Object) /\ event_list' \in Seq(Transaction) /\ ListInv'
        /\ OnQueue' = OnQueue \cup {t} /\ OnEvent' = OnEvent \ {t}
    BY <1>1, <1>5, EventToQueue
  <2>7. PlaceInv' BY <1>1, <1>2, <2>3, <2>5, <2>6 DEF PlaceInv
  <2>8. TypeInv' BY <1>1, <1>5, <2>2, <2>4, <2>6 DEF TypeInv
  <2>9. LockInv' BY <1>1, <1>5, <2>2 DEF LockInv
  <2> QED BY <2>3, <2>6, <2>7, <2>8, <2>9
<1> QED BY <1>4, <1>5 DEF event_trigger_every

\* The transaction that was executed in the event context is freed.
LEMMA ContextProcessedInv ==
    ASSUME IInv, NEW h \in Handler, event_context_processed(h)
    PROVE  IInv'
<1> USE DEF IInv
<1> DEFINE o == handler[h].it
<1>1. /\ handler[h].pc = "context" /\ lock = "free" /\ Live(o) /\ free_processed(o)
      /\ answer' = moved(OwnFences({o}))
      /\ handler' = [handler EXCEPT ![h].pc = "resume", ![h].it = handler[h].next,
                                    ![h].fences = @ \cup OwnFences({o})]
      /\ UNCHANGED <<lock, is_enabled, lists, work_queued, worker, submitter, fence, flush,
                     flush_state>>
  BY DEF event_context_processed
<1>2. /\ \A g \in Handler : g # h => handler'[g] = handler[g]
      /\ handler'[h].pc = "resume" /\ handler' \in [Handler -> HandlerType]
  <2>1. handler[h] \in HandlerType BY DEF TypeInv
  <2>2. handler[h].next \in Object \cup {None} /\ OwnFences({o}) \subseteq Transaction
    BY <2>1, PlacesType DEF HandlerType, OwnFences
  <2> QED BY <1>1, <2>1, <2>2 DEF TypeInv, HandlerType
<1>3. o \in Object BY <1>1 DEF HandlerInv
<1>4. Executing' = Executing \ {o} /\ HandlerInv' /\ o \in Executing
  BY <1>1, <1>2, <1>3, ContextLeft DEF Executing
<1>5. mem' \in [Object -> MemType] /\ io_entries' \in EntriesType /\ LiveSet' = LiveSet \ {o}
  BY <1>1, <1>3, ProcessedEffect
<1>6. /\ CleaningUp' = CleaningUp /\ Submitted' = Submitted /\ OnCleanup' = OnCleanup
      /\ OnEvent' = OnEvent /\ OnQueue' = OnQueue /\ pending' = pending /\ ListInv'
  BY <1>1, CleanupKept DEF Submitted, OnCleanup, OnEvent, OnQueue, lists, ListInv
<1>7. PlaceInv' BY <1>4, <1>5, <1>6 DEF PlaceInv
<1>8. answer' \in AnswerType BY <1>1, AnswersType DEF TypeInv
<1>9. TypeInv' BY <1>1, <1>2, <1>5, <1>8 DEF TypeInv, lists
<1>10. LockInv' BY <1>1, <1>2 DEF LockInv
<1> QED BY <1>4, <1>6, <1>7, <1>9, <1>10

\* A step that changes neither memory nor lists, of a thread that is not a handler.
LEMMA NothingMoved ==
    ASSUME IInv, UNCHANGED <<memory, lists, submitter, handler>>, CleaningUp' = CleaningUp
    PROVE  HandlerInv' /\ ListInv' /\ PlaceInv'
<1>1. Executing' = Executing /\ HandlerInv' BY OtherThanHandler DEF IInv
<1>2. LiveSet' = LiveSet BY DEF memory, LiveSet, Live
<1> QED BY <1>1, <1>2, PlacesKept DEF IInv

\* The lock is taken again.
LEMMA EventResumeInv ==
    ASSUME IInv, NEW h \in Handler, event_trigger_resume(h) \/ event_trigger_unlock(h)
    PROVE  IInv'
<1> USE DEF IInv
<1>1. \/ /\ handler[h].pc = "resume" /\ lock = "free" /\ lock' = h
         /\ handler' = [handler EXCEPT ![h].pc = "walk"]
      \/ /\ handler[h].pc = "walk" /\ lock' = "free"
         /\ handler' = [handler EXCEPT ![h].pc = "kick"]
  BY DEF event_trigger_resume, event_trigger_unlock
<1>2. UNCHANGED <<is_enabled, memory, lists, work_queued, worker, submitter, fence, flush,
                  flush_state, answer>>
  BY DEF event_trigger_resume, event_trigger_unlock
<1>3. /\ handler' \in [Handler -> HandlerType]
      /\ \A g \in Handler : g # h => handler'[g] = handler[g]
      /\ \/ lock = "free" /\ lock' = h /\ handler'[h].pc = "walk"
         \/ handler[h].pc = "walk" /\ lock' = "free" /\ handler'[h].pc = "kick"
  <2>1. handler \in [Handler -> HandlerType] /\ handler[h] \in HandlerType BY DEF TypeInv
  <2>2. CASE lock = "free" /\ lock' = h /\ handler' = [handler EXCEPT ![h].pc = "walk"]
    BY <2>1, <2>2 DEF HandlerType
  <2>3. CASE /\ handler[h].pc = "walk" /\ lock' = "free"
             /\ handler' = [handler EXCEPT ![h].pc = "kick"]
    BY <2>1, <2>3 DEF HandlerType
  <2> QED BY <1>1, <2>2, <2>3
<1>4. Executing' = Executing /\ HandlerInv' BY <1>1, <1>3, ContextKept
<1>5. CleaningUp' = CleaningUp /\ LiveSet' = LiveSet
  BY <1>2, CleanupKept DEF memory, LiveSet, Live
<1>6. ListInv' /\ PlaceInv' BY <1>2, <1>4, <1>5, PlacesKept
<1>7. TypeInv' BY <1>2, <1>3 DEF TypeInv, memory, lists
<1>8. LockInv'
  <2>1. CASE lock = "free" /\ lock' = h /\ handler'[h].pc = "walk"
    BY <2>1, <1>2, <1>3, LockFree DEF LockInv
  <2>2. CASE handler[h].pc = "walk" /\ lock' = "free" /\ handler'[h].pc = "kick"
    BY <2>2, <1>2, <1>3, LockOfHandler DEF LockInv
  <2> QED BY <1>3, <2>1, <2>2
<1> QED BY <1>4, <1>6, <1>7, <1>8

\* The worker is queued and the answers are given.
LEMMA EventKickInv ==
    ASSUME IInv, NEW h \in Handler, event_trigger_kick(h)
    PROVE  IInv'
<1> USE DEF IInv
<1>1. /\ handler[h].pc = "kick" /\ work_queued' = (work_queued \/ queue # <<>>)
      /\ answer' = signaled(handler[h].fences)
      /\ handler' = [handler EXCEPT ![h].pc = "idle", ![h].fences = {}]
      /\ UNCHANGED <<lock, is_enabled, memory, lists, worker, submitter, fence, flush,
                     flush_state>>
  BY DEF event_trigger_kick
<1>2. /\ handler' \in [Handler -> HandlerType]
      /\ \A g \in Handler : g # h => handler'[g] = handler[g]
      /\ handler'[h].pc = "idle"
  <2> DEFINE r == [handler[h] EXCEPT !.pc = "idle", !.fences = {}]
  <2>1. handler \in [Handler -> HandlerType] /\ handler[h] \in HandlerType BY DEF TypeInv
  <2>2. r \in HandlerType /\ r.pc = "idle" BY <2>1 DEF HandlerType
  <2>3. handler' = [handler EXCEPT ![h] = r] BY <1>1
  <2> HIDE DEF r
  <2> QED BY <2>1, <2>2, <2>3
<1>3. Executing' = Executing /\ HandlerInv' BY <1>1, <1>2, ContextKept
<1>4. CleaningUp' = CleaningUp /\ LiveSet' = LiveSet
  BY <1>1, CleanupKept DEF memory, LiveSet, Live
<1>5. ListInv' /\ PlaceInv' BY <1>1, <1>3, <1>4, PlacesKept
<1>6. answer' \in AnswerType BY <1>1, AnswersType DEF TypeInv
<1>7. TypeInv' BY <1>1, <1>2, <1>6 DEF TypeInv, memory, lists
<1>8. LockInv' BY <1>1, <1>2 DEF LockInv
<1> QED BY <1>3, <1>5, <1>7, <1>8

-----------------------------------------------------------------------------
(* The trigger fences keep the invariant *)

\* A fence keeps its type.
LEMMA FenceChanged ==
    ASSUME TypeInv, NEW f \in Fence, NEW r \in FenceType, fence' = [fence EXCEPT ![f] = r]
    PROVE  fence' \in [Fence -> FenceType]
BY DEF TypeInv

\* Signalling, the begin of a callback and the end of the signal touch only the fence.
LEMMA FenceSignalInv ==
    ASSUME IInv, NEW f \in Fence,
           \/ lwis_fence_write_status(f) \/ fence_signal_transaction_cb(f)
           \/ fence_signal_unlock(f)
    PROVE  IInv'
<1> USE DEF IInv
<1>1. UNCHANGED <<lock, is_enabled, memory, lists, work_queued, worker, handler, submitter,
                  flush, flush_state, answer>>
  BY DEF lwis_fence_write_status, fence_signal_transaction_cb, fence_signal_unlock
<1>2. fence' \in [Fence -> FenceType]
  <2>4. fence[f] \in FenceType BY DEF TypeInv
  <2>1. CASE lwis_fence_write_status(f)
    <3>1. PICK s \in {"signaled", "error"} :
            fence' = [fence EXCEPT ![f] = [fence[f] EXCEPT !.status = s, !.locked = TRUE]]
      BY <2>1 DEF lwis_fence_write_status
    <3>2. [fence[f] EXCEPT !.status = s, !.locked = TRUE] \in FenceType BY <2>4 DEF FenceType
    <3> QED BY <3>1, <3>2, FenceChanged
  <2>2. CASE fence_signal_transaction_cb(f)
    <3>1. PICK t \in fence[f].callbacks :
            fence' = [fence EXCEPT ![f].calling = t, ![f].callbacks = @ \ {t}]
      BY <2>2 DEF fence_signal_transaction_cb
    <3>2. [fence[f] EXCEPT !.calling = t, !.callbacks = @ \ {t}] \in FenceType
      BY <2>4 DEF FenceType
    <3> QED BY <3>1, <3>2, FenceChanged
  <2>3. CASE fence_signal_unlock(f)
    <3>1. [fence[f] EXCEPT !.locked = FALSE] \in FenceType BY <2>4 DEF FenceType
    <3>2. fence' = [fence EXCEPT ![f] = [fence[f] EXCEPT !.locked = FALSE]]
      BY <2>3 DEF fence_signal_unlock
    <3> QED BY <3>1, <3>2, FenceChanged
  <2> QED BY <2>1, <2>2, <2>3
<1>3. CleaningUp' = CleaningUp BY <1>1, CleanupKept
<1>4. HandlerInv' /\ ListInv' /\ PlaceInv' BY <1>1, <1>3, NothingMoved
<1>5. TypeInv' /\ LockInv' BY <1>1, <1>2 DEF TypeInv, LockInv, memory, lists
<1> QED BY <1>4, <1>5

\* After the callback the worker is queued and the answers are given.
LEMMA FenceKickInv ==
    ASSUME IInv, NEW f \in Fence, fence_trigger_kick(f)
    PROVE  IInv'
<1> USE DEF IInv
<1>1. /\ work_queued' = (work_queued \/ queue # <<>>) /\ answer' = signaled(fence[f].fences)
      /\ fence' = [fence EXCEPT ![f].kick = FALSE, ![f].calling = None, ![f].fences = {}]
      /\ UNCHANGED <<lock, is_enabled, memory, lists, worker, handler, submitter, flush,
                     flush_state>>
  BY DEF fence_trigger_kick
<1>2. fence' \in [Fence -> FenceType]
  <2>1. fence[f] \in FenceType BY DEF TypeInv
  <2>2. [fence[f] EXCEPT !.kick = FALSE, !.calling = None, !.fences = {}] \in FenceType
    BY <2>1 DEF FenceType
  <2>3. fence' = [fence EXCEPT ![f] = [fence[f] EXCEPT !.kick = FALSE, !.calling = None,
                                                       !.fences = {}]]
    BY <1>1
  <2> QED BY <2>2, <2>3, FenceChanged
<1>3. CleaningUp' = CleaningUp BY <1>1, CleanupKept
<1>4. HandlerInv' /\ ListInv' /\ PlaceInv' BY <1>1, <1>3, NothingMoved
<1>5. answer' \in AnswerType BY <1>1, AnswersType DEF TypeInv
<1>6. TypeInv' /\ LockInv' BY <1>1, <1>2, <1>5 DEF TypeInv, LockInv, memory, lists
<1> QED BY <1>4, <1>6

\* The callback queues a transaction that is still pending, or frees it.
LEMMA FenceTriggerInv ==
    ASSUME IInv, NEW f \in Fence, lwis_transaction_fence_trigger(f)
    PROVE  IInv'
<1> USE DEF IInv
<1> DEFINE t == fence[f].calling
           ok == fence[f].status = "signaled"
<1>1. /\ t # None /\ lock = "free" /\ pending' = pending \ {t}
      /\ fence' = [fence EXCEPT ![f].kick = TRUE,
                     ![f].fences = IF t \in pending /\ ~ok THEN {t} ELSE {}]
      /\ UNCHANGED <<lock, is_enabled, event_list, cleanup_list, work_queued, worker, handler,
                     submitter, flush, flush_state>>
  BY DEF lwis_transaction_fence_trigger
<1>2. t \in Transaction /\ fence' \in [Fence -> FenceType]
  <2>1. fence[f] \in FenceType BY DEF TypeInv
  <2>2. t \in Transaction BY <1>1, <2>1 DEF FenceType
  <2> QED BY <1>1, <2>1, <2>2 DEF TypeInv, FenceType
<1>3. Executing' = Executing /\ HandlerInv' BY <1>1, OtherThanHandler
<1>4. /\ CleaningUp' = CleaningUp /\ Submitted' = Submitted /\ OnCleanup' = OnCleanup
      /\ OnEvent' = OnEvent /\ IsInjective(event_list') /\ IsInjective(cleanup_list')
  BY <1>1, CleanupKept DEF Submitted, OnCleanup, OnEvent, ListInv
<1>5. LockInv' BY <1>1 DEF LockInv
<1>6. CASE t \in pending /\ ~ok
  <2>1. lwis_transaction_free({t}) /\ answer' = moved({t}) /\ queue' = queue
    BY <1>6 DEF lwis_transaction_fence_trigger
  <2>2. mem' \in [Object -> MemType] /\ io_entries' \in EntriesType /\ LiveSet' = LiveSet \ {t}
    BY <2>1, FreeEffect
  <2>3. answer' \in AnswerType BY <2>1, AnswersType DEF TypeInv
  <2>4. OnQueue' = OnQueue /\ ListInv' BY <2>1, <1>4 DEF OnQueue, ListInv
  <2>5. PlaceInv' BY <1>1, <1>3, <1>4, <1>6, <2>2, <2>4 DEF PlaceInv
  <2>6. TypeInv' BY <1>1, <1>2, <2>1, <2>2, <2>3 DEF TypeInv
  <2> QED BY <1>3, <1>5, <2>4, <2>5, <2>6
<1>7. CASE t \in pending /\ ok
  <2>1. UNCHANGED <<memory, answer>> /\ add_transaction_to_queue_locked(t, mem[t].info)
    BY <1>7 DEF lwis_transaction_fence_trigger
  <2>2. t \in Object /\ t \notin OnQueue /\ queue \in Seq(Object) /\ IsInjective(queue)
    BY <1>2, <1>7, PlacesType DEF PlaceInv, TypeInv, ListInv
  <2>3. queue' \in Seq(Object) /\ OnQueue' = OnQueue \cup {t} /\ IsInjective(queue')
    BY <2>1, <2>2, QueuedToList DEF OnQueue
  <2>4. LiveSet' = LiveSet BY <2>1 DEF memory, LiveSet, Live
  <2>5. PlaceInv' BY <1>1, <1>3, <1>4, <1>7, <2>3, <2>4 DEF PlaceInv
  <2>6. TypeInv' BY <1>1, <1>2, <2>1, <2>3 DEF TypeInv, memory
  <2>7. ListInv' BY <1>4, <2>3 DEF ListInv
  <2> QED BY <1>3, <1>5, <2>5, <2>6, <2>7
<1>8. CASE t \notin pending
  <2>1. UNCHANGED <<memory, answer, queue>> BY <1>8 DEF lwis_transaction_fence_trigger
  <2>2. pending' = pending BY <1>1, <1>8
  <2>3. LiveSet' = LiveSet BY <2>1 DEF memory, LiveSet, Live
  <2>4. ListInv' /\ PlaceInv' BY <1>1, <1>3, <1>4, <2>1, <2>2, <2>3, PlacesKept DEF lists
  <2>5. TypeInv' BY <1>1, <1>2, <2>1, <2>2 DEF TypeInv, memory
  <2> QED BY <1>3, <1>5, <2>4, <2>5
<1> QED BY <1>6, <1>7, <1>8

-----------------------------------------------------------------------------
(* The worker keeps the invariant *)

\* The worker takes a transaction off the queue and frees it.
LEMMA QueueToFreed ==
    ASSUME IInv, NEW o \in OnQueue, queue' = list_del(queue, o),
           lwis_transaction_free({o}) \/ free_processed(o),
           UNCHANGED <<event_list, cleanup_list, pending, handler, submitter, flush>>
    PROVE  /\ queue' \in Seq(Object) /\ mem' \in [Object -> MemType]
           /\ io_entries' \in EntriesType
           /\ HandlerInv' /\ ListInv' /\ PlaceInv'
<1> USE DEF IInv
<1>1. queue \in Seq(Object) /\ IsInjective(queue) /\ o \in ToSet(queue) /\ o \in Object
  BY PlacesType DEF TypeInv, ListInv, OnQueue
<1>2. queue' \in Seq(Object) /\ IsInjective(queue') /\ OnQueue' = OnQueue \ {o}
  BY <1>1, DeletedNode DEF OnQueue
<1>3. mem' \in [Object -> MemType] /\ io_entries' \in EntriesType /\ LiveSet' = LiveSet \ {o}
  BY <1>1, FreeEffect, ProcessedEffect
<1>4. Executing' = Executing /\ HandlerInv' BY OtherThanHandler
<1>5. /\ CleaningUp' = CleaningUp /\ Submitted' = Submitted /\ OnCleanup' = OnCleanup
      /\ OnEvent' = OnEvent /\ pending' = pending
  BY CleanupKept DEF Submitted, OnCleanup, OnEvent
<1>6. ListInv' BY <1>2 DEF ListInv
<1>7. PlaceInv' BY <1>2, <1>3, <1>4, <1>5 DEF PlaceInv
<1> QED BY <1>2, <1>3, <1>4, <1>6, <1>7

\* The node after one of the queue.
LEMMA NextOnQueue ==
    ASSUME TypeInv, NEW o \in OnQueue
    PROVE  Next_(queue, o) \in Object \cup {None} /\ o \in Object
BY PositionOf, PlacesType DEF TypeInv, OnQueue

\* Steps that only move the worker along, with or without the lock.
LEMMA WorkerMovesInv ==
    ASSUME IInv, UNCHANGED <<is_enabled, memory, lists, handler, submitter, fence, flush,
                             flush_state, answer>>,
           worker' \in WorkerType, work_queued' \in BOOLEAN,
           \/ lock' = lock /\ (worker'.pc = "scan" => worker.pc = "scan")
           \/ lock = "free" /\ lock' = "worker"
           \/ worker.pc = "scan" /\ lock' = "free" /\ worker'.pc # "scan"
    PROVE  IInv'
<1> USE DEF IInv
<1>1. CleaningUp' = CleaningUp BY CleanupKept
<1>2. HandlerInv' /\ ListInv' /\ PlaceInv' BY <1>1, NothingMoved
<1>3. TypeInv'
  <2>1. lock' \in {"free", "worker", "submit", "flush"} \cup Handler BY DEF TypeInv
  <2> QED BY <2>1 DEF TypeInv, memory, lists
<1>4. LockInv'
  <2>1. CASE lock' = lock /\ (worker'.pc = "scan" => worker.pc = "scan") BY <2>1 DEF LockInv
  <2>2. CASE lock = "free" /\ lock' = "worker" BY <2>2, LockFree DEF LockInv
  <2>3. CASE worker.pc = "scan" /\ lock' = "free" /\ worker'.pc # "scan"
    <3>1. lock = "worker" BY <2>3 DEF LockInv
    <3> QED BY <2>3, <3>1, LockOfOthers DEF LockInv
  <2> QED BY <2>1, <2>2, <2>3
<1> QED BY <1>2, <1>3, <1>4

\* The worker starts, takes the lock, drops it for the accesses, and takes it again.
LEMMA WorkerRunInv ==
    ASSUME IInv,
           \/ worker_run \/ lwis_process_transactions_in_queue \/ process_transaction
           \/ process_io_entries \/ process_continue
    PROVE  IInv'
<1> USE DEF IInv
<1>1. worker \in WorkerType /\ queue \in Seq(Object) /\ work_queued \in BOOLEAN BY DEF TypeInv
<1>2. CASE worker_run
  <2>1. worker' \in WorkerType /\ worker'.pc = "start" /\ work_queued' \in BOOLEAN
    BY <1>1, <1>2 DEF worker_run, WorkerType
  <2> QED BY <1>2, <2>1, WorkerMovesInv DEF worker_run
<1>3. CASE lwis_process_transactions_in_queue
  <2>1. First(queue) \in Object \cup {None} BY <1>1, FirstOfList
  <2>2. worker' \in WorkerType
    BY <1>1, <1>3, <2>1 DEF lwis_process_transactions_in_queue, WorkerType
  <2> QED BY <1>1, <1>3, <2>2, WorkerMovesInv DEF lwis_process_transactions_in_queue
<1>4. CASE process_transaction
  <2>1. worker.it \in OnQueue BY <1>4 DEF process_transaction, OnList, In, OnQueue
  <2>2. Next_(queue, worker.it) \in Object \cup {None} BY <2>1, NextOnQueue
  <2>3. worker' \in WorkerType /\ worker'.pc = "io"
    BY <1>1, <1>4, <2>2 DEF process_transaction, WorkerType
  <2> QED BY <1>1, <1>4, <2>3, WorkerMovesInv DEF process_transaction
<1>5. CASE process_io_entries
  <2>1. worker' \in WorkerType /\ worker'.pc = "finish"
    BY <1>1, <1>5 DEF process_io_entries, WorkerType
  <2> QED BY <1>1, <1>5, <2>1, WorkerMovesInv DEF process_io_entries
<1>6. CASE process_continue
  <2>1. worker' \in WorkerType BY <1>1, <1>6 DEF process_continue, WorkerType
  <2> QED BY <1>1, <1>6, <2>1, WorkerMovesInv DEF process_continue
<1> QED BY <1>2, <1>3, <1>4, <1>5, <1>6

\* A cancelled transaction leaves the queue.
LEMMA ProcessCancelledInv ==
    ASSUME IInv, process_cancelled
    PROVE  IInv'
<1> USE DEF IInv
<1> DEFINE o == worker.it
<1>1. /\ worker.pc = "scan" /\ o \in OnQueue /\ queue' = list_del(queue, o)
      /\ lwis_transaction_free({o}) /\ answer' = moved(OwnFences({o}))
      /\ worker' = [worker EXCEPT !.it = Next_(queue, o), !.fences = @ \cup OwnFences({o})]
      /\ UNCHANGED <<lock, is_enabled, event_list, cleanup_list, pending, work_queued,
                     handler, submitter, fence, flush, flush_state>>
  BY DEF process_cancelled, OnList, In, OnQueue
<1>2. /\ queue' \in Seq(Object) /\ mem' \in [Object -> MemType] /\ io_entries' \in EntriesType
      /\ HandlerInv' /\ ListInv' /\ PlaceInv'
  BY <1>1, QueueToFreed
<1>3. worker' \in WorkerType /\ worker'.pc = "scan"
  <2>1. worker \in WorkerType /\ OwnFences({o}) \subseteq Transaction BY DEF TypeInv, OwnFences
  <2> QED BY <1>1, <2>1, NextOnQueue DEF WorkerType
<1>5. answer' \in AnswerType BY <1>1, AnswersType DEF TypeInv
<1>6. TypeInv' BY <1>1, <1>2, <1>3, <1>5 DEF TypeInv
<1>7. LockInv' BY <1>1, <1>3 DEF LockInv
<1> QED BY <1>2, <1>6, <1>7

\* With entries left the transaction stays in the queue; otherwise it is freed.
LEMMA ProcessFinishInv ==
    ASSUME IInv, process_transaction_finish
    PROVE  IInv'
<1> USE DEF IInv
<1> DEFINE o == worker.it
           limited == ~mem[o].info.in_event_context /\ mem[o].remaining > Limit
           left == IF limited THEN mem[o].remaining - Limit ELSE 0
<1>1. /\ worker.pc = "finish" /\ o \in OnQueue
      /\ UNCHANGED <<lock, is_enabled, event_list, cleanup_list, pending, work_queued,
                     handler, submitter, fence, flush, flush_state>>
  BY DEF process_transaction_finish, OnList, In, OnQueue
<1>2. o \in Object BY <1>1, NextOnQueue
<1>3. \/ /\ mem' = [mem EXCEPT ![o].remaining = left]
         /\ worker' = [worker EXCEPT !.pc = "after"] /\ UNCHANGED <<io_entries, queue, answer>>
      \/ /\ queue' = list_del(queue, o) /\ free_processed(o) /\ answer' = moved(OwnFences({o}))
         /\ worker' = [worker EXCEPT !.pc = "after", !.it = None, !.fences = @ \cup OwnFences({o})]
  BY DEF process_transaction_finish
<1>4. worker' \in WorkerType /\ worker'.pc = "after"
  <2>1. worker \in WorkerType /\ OwnFences({o}) \subseteq Transaction BY DEF TypeInv, OwnFences
  <2>2. CASE worker' = [worker EXCEPT !.pc = "after"] BY <2>1, <2>2 DEF WorkerType
  <2>3. CASE worker' = [worker EXCEPT !.pc = "after", !.it = None,
                                      !.fences = @ \cup OwnFences({o})]
    BY <2>1, <2>3 DEF WorkerType
  <2> QED BY <1>3, <2>2, <2>3
<1>6. LockInv' BY <1>1, <1>4 DEF LockInv
<1>7. CASE /\ mem' = [mem EXCEPT ![o].remaining = left] /\ UNCHANGED <<io_entries, queue, answer>>
  <2>1. mem[o] \in MemType BY <1>2 DEF TypeInv
  <2>2. left \in Nat BY <2>1, TransactionAssumption DEF MemType
  <2> HIDE DEF left
  <2>3. mem' \in [Object -> MemType] /\ \A x \in Object : mem'[x].st = mem[x].st
    <3> DEFINE r == [mem[o] EXCEPT !.remaining = left]
    <3>1. r \in MemType /\ r.st = mem[o].st BY <2>1, <2>2 DEF MemType
    <3>2. mem' = [mem EXCEPT ![o] = r] BY <1>7
    <3> HIDE DEF r
    <3> QED BY <1>2, <3>1, <3>2 DEF TypeInv
  <2>4. LiveSet' = LiveSet BY <2>3 DEF LiveSet, Live
  <2>5. Executing' = Executing /\ HandlerInv' /\ CleaningUp' = CleaningUp
    BY <1>1, OtherThanHandler, CleanupKept
  <2>6. ListInv' /\ PlaceInv' BY <1>1, <1>7, <2>4, <2>5, PlacesKept DEF lists
  <2>7. TypeInv' BY <1>1, <1>4, <1>7, <2>3 DEF TypeInv
  <2> QED BY <1>6, <2>5, <2>6, <2>7
<1>8. CASE queue' = list_del(queue, o) /\ free_processed(o) /\ answer' = moved(OwnFences({o}))
  <2>1. /\ queue' \in Seq(Object) /\ mem' \in [Object -> MemType] /\ io_entries' \in EntriesType
        /\ HandlerInv' /\ ListInv' /\ PlaceInv'
    BY <1>1, <1>8, QueueToFreed
  <2>2. answer' \in AnswerType BY <1>8, AnswersType DEF TypeInv
  <2>3. TypeInv' BY <1>1, <1>4, <2>1, <2>2 DEF TypeInv
  <2> QED BY <1>6, <2>1, <2>3
<1> QED BY <1>3, <1>7, <1>8

\* A transaction that was stopped at the limit stays in the queue, or is freed during a flush.
LEMMA ProcessBrokenInv ==
    ASSUME IInv, process_broken_transaction
    PROVE  IInv'
<1> USE DEF IInv
<1> DEFINE o == worker.it
<1>1. /\ worker.pc = "after" /\ o \in OnQueue
      /\ UNCHANGED <<lock, is_enabled, event_list, cleanup_list, pending, handler, submitter,
                     fence, flush, flush_state>>
  BY DEF process_broken_transaction, OnList, In, OnQueue
<1>2. \/ /\ work_queued' = TRUE /\ worker' = [worker EXCEPT !.pc = "emit", !.it = None]
         /\ UNCHANGED <<queue, memory, answer>>
      \/ /\ queue' = list_del(queue, o) /\ work_queued' = work_queued
         /\ lwis_transaction_free({o}) /\ answer' = moved(OwnFences({o}))
         /\ worker' = [worker EXCEPT !.pc = "emit", !.it = None, !.fences = @ \cup OwnFences({o})]
  BY DEF process_broken_transaction
<1>3. work_queued' \in BOOLEAN BY <1>2 DEF TypeInv
<1>4. worker' \in WorkerType /\ worker'.pc = "emit"
  <2>1. worker \in WorkerType /\ OwnFences({o}) \subseteq Transaction BY DEF TypeInv, OwnFences
  <2>2. CASE worker' = [worker EXCEPT !.pc = "emit", !.it = None] BY <2>1, <2>2 DEF WorkerType
  <2>3. CASE worker' = [worker EXCEPT !.pc = "emit", !.it = None,
                                      !.fences = @ \cup OwnFences({o})]
    BY <2>1, <2>3 DEF WorkerType
  <2> QED BY <1>2, <2>2, <2>3
<1>5. LockInv' BY <1>1, <1>4 DEF LockInv
<1>6. CASE UNCHANGED <<queue, memory, answer>>
  <2>1. CleaningUp' = CleaningUp BY <1>1, CleanupKept
  <2>2. HandlerInv' /\ ListInv' /\ PlaceInv' BY <1>1, <1>6, <2>1, NothingMoved DEF lists
  <2>3. TypeInv' BY <1>1, <1>3, <1>4, <1>6 DEF TypeInv, memory
  <2> QED BY <1>5, <2>2, <2>3
<1>7. CASE /\ queue' = list_del(queue, o) /\ lwis_transaction_free({o})
           /\ answer' = moved(OwnFences({o}))
  <2>1. /\ queue' \in Seq(Object) /\ mem' \in [Object -> MemType] /\ io_entries' \in EntriesType
        /\ HandlerInv' /\ ListInv' /\ PlaceInv'
    BY <1>1, <1>7, QueueToFreed
  <2>2. answer' \in AnswerType BY <1>7, AnswersType DEF TypeInv
  <2>3. TypeInv' BY <1>1, <1>3, <1>4, <2>1, <2>2 DEF TypeInv
  <2> QED BY <1>5, <2>1, <2>3
<1> QED BY <1>2, <1>6, <1>7

\* A run ends: only the flush that waits for it sees that.
LEMMA RunEndsEffect ==
    ASSUME TypeInv, RunEnds
    PROVE  flush' \in FlushType /\ flush'.pc = flush.pc /\ flush'.it = flush.it
<1>1. flush \in FlushType /\ flush.runs \in 0..2 BY DEF TypeInv, FlushType
<1>2. (IF flush.runs > 0 THEN flush.runs - 1 ELSE 0) \in 0..2 BY <1>1
<1>3. flush' = [flush EXCEPT !.runs = IF flush.runs > 0 THEN flush.runs - 1 ELSE 0]
  BY DEF RunEnds
<1> QED BY <1>1, <1>2, <1>3 DEF FlushType

\* The worker gives the answers, or returns without.
LEMMA ProcessEndsInv ==
    ASSUME IInv, process_emit \/ process_return
    PROVE  IInv'
<1> USE DEF IInv
<1>1. UNCHANGED <<is_enabled, memory, lists, work_queued, handler, submitter, fence, flush_state>>
  BY DEF process_emit, process_return
<1>2. worker \in WorkerType /\ flush \in FlushType BY DEF TypeInv
<1>3. /\ worker' \in WorkerType /\ worker'.pc # "scan"
      /\ flush' \in FlushType /\ flush'.pc = flush.pc /\ flush'.it = flush.it
      /\ answer' \in AnswerType
      /\ \/ lock' = lock /\ worker.pc # "scan"
         \/ worker.pc = "scan" /\ lock' = "free"
  <2>1. CASE process_emit
    <3>1. worker' \in WorkerType /\ worker'.pc = "idle" BY <1>2, <2>1 DEF process_emit, WorkerType
    <3>2. answer' \in AnswerType BY <2>1, AnswersType DEF TypeInv, process_emit
    <3>3. flush' \in FlushType /\ flush'.pc = flush.pc /\ flush'.it = flush.it
      BY <2>1, RunEndsEffect DEF process_emit
    <3> QED BY <2>1, <3>1, <3>2, <3>3 DEF process_emit
  <2>2. CASE process_return /\ worker.it = None
    <3>1. worker' \in WorkerType /\ worker'.pc = "emit"
      BY <1>2, <2>2 DEF process_return, WorkerType
    <3> QED BY <1>2, <2>2, <3>1 DEF process_return, TypeInv
  <2>3. CASE process_return /\ worker.it # None
    <3>1. worker' \in WorkerType /\ worker'.pc = "idle"
      BY <1>2, <2>3 DEF process_return, WorkerType
    <3>2. answer' \in AnswerType BY <2>3 DEF process_return, TypeInv, AnswerType
    <3>3. flush' \in FlushType /\ flush'.pc = flush.pc /\ flush'.it = flush.it
      BY <2>3, RunEndsEffect DEF process_return
    <3> QED BY <2>3, <3>1, <3>2, <3>3 DEF process_return
  <2> QED BY <2>1, <2>2, <2>3
<1>4. CleaningUp' = CleaningUp BY <1>3, CleanupKept
<1>5. HandlerInv' /\ ListInv' /\ PlaceInv' BY <1>1, <1>4, NothingMoved
<1>6. TypeInv' BY <1>1, <1>3 DEF TypeInv, memory, lists
<1>7. LockInv'
  <2>1. CASE lock' = lock /\ worker.pc # "scan" BY <2>1, <1>1, <1>3 DEF LockInv
  <2>2. CASE worker.pc = "scan" /\ lock' = "free"
    <3>1. lock = "worker" BY <2>2 DEF LockInv
    <3> QED BY <2>2, <3>1, <1>1, <1>3, LockOfOthers DEF LockInv
  <2> QED BY <1>3, <2>1, <2>2
<1> QED BY <1>5, <1>6, <1>7

-----------------------------------------------------------------------------
(* Enable, disable, reset and the flush keep the invariant *)

\* A flush moves to another phase outside its loop and outside an execution.
LEMMA FlushMovesInv ==
    ASSUME IInv, UNCHANGED <<lock, memory, lists, work_queued, worker, handler, submitter, fence,
                             answer>>,
           is_enabled' \in BOOLEAN, flush_state' \in {"NOT_FLUSHING", "FLUSHING"},
           flush' \in FlushType, flush.pc # "cleanup_io",
           flush'.pc \notin {"cleanup_io", "pending"}
    PROVE  IInv'
<1> USE DEF IInv
<1>1. CleaningUp' = CleaningUp BY CleanupKept
<1>2. HandlerInv' /\ ListInv' /\ PlaceInv' BY <1>1, NothingMoved
<1>3. TypeInv' BY DEF TypeInv, memory, lists
<1>4. LockInv' BY DEF LockInv
<1> QED BY <1>2, <1>3, <1>4

\* cmd_device_enable changes one flag.
LEMMA EnableInv ==
    ASSUME IInv, cmd_device_enable
    PROVE  IInv'
<1> USE DEF IInv
<1>1. CleaningUp' = CleaningUp BY CleanupKept DEF cmd_device_enable
<1>2. HandlerInv' /\ ListInv' /\ PlaceInv' BY <1>1, NothingMoved DEF cmd_device_enable
<1>3. TypeInv' /\ LockInv' BY DEF cmd_device_enable, TypeInv, LockInv, memory, lists
<1> QED BY <1>2, <1>3

\* The steps of a flush between its sections, and the end of disable.
LEMMA FlushPhasesInv ==
    ASSUME IInv,
           \/ cmd_device_disable \/ cmd_device_reset \/ flush_mark \/ lwis_flush_device_worker
           \/ flush_unmark \/ disable_power
    PROVE  IInv'
<1> USE DEF IInv
<1>1. /\ flush \in FlushType /\ is_enabled \in BOOLEAN
      /\ flush_state \in {"NOT_FLUSHING", "FLUSHING"}
  BY DEF TypeInv
<1>2. CASE cmd_device_disable
  <2>1. flush' \in FlushType /\ flush'.pc = "lists" BY <1>1, <1>2 DEF cmd_device_disable, FlushType
  <2> QED BY <1>1, <1>2, <2>1, FlushMovesInv DEF cmd_device_disable, Idle
<1>3. CASE cmd_device_reset
  <2>1. flush' \in FlushType /\ flush'.pc = "lists" BY <1>1, <1>3 DEF cmd_device_reset, FlushType
  <2> QED BY <1>1, <1>3, <2>1, FlushMovesInv DEF cmd_device_reset, Idle
<1>4. CASE flush_mark
  <2>1. flush' \in FlushType /\ flush'.pc = "enqueue" BY <1>1, <1>4 DEF flush_mark, FlushType
  <2> QED BY <1>1, <1>4, <2>1, FlushMovesInv DEF flush_mark
<1>5. CASE lwis_flush_device_worker
  <2> DEFINE n == (IF worker.pc = "idle" THEN 0 ELSE 1) + (IF work_queued THEN 1 ELSE 0)
  <2>2. n \in 0..2 OBVIOUS
  <2>3. flush' = [flush EXCEPT !.pc = "wait", !.runs = n] BY <1>5 DEF lwis_flush_device_worker
  <2> HIDE DEF n
  <2>1. flush' \in FlushType /\ flush'.pc = "wait" BY <1>1, <2>2, <2>3 DEF FlushType
  <2> QED BY <1>1, <1>5, <2>1, FlushMovesInv DEF lwis_flush_device_worker
<1>6. CASE flush_unmark
  <2>1. flush' \in FlushType /\ flush'.pc = "queue" BY <1>1, <1>6 DEF flush_unmark, FlushType
  <2> QED BY <1>1, <1>6, <2>1, FlushMovesInv DEF flush_unmark
<1>7. CASE disable_power
  <2>1. flush' \in FlushType /\ flush'.pc = "none" BY <1>1, <1>7 DEF disable_power, FlushType
  <2> QED BY <1>1, <1>7, <2>1, FlushMovesInv DEF disable_power
<1> QED BY <1>2, <1>3, <1>4, <1>5, <1>6, <1>7

\* The flush frees what waits for events, with the lock.
LEMMA FlushListsInv ==
    ASSUME IInv, lwis_transaction_client_flush
    PROVE  IInv'
<1> USE DEF IInv
<1>1. /\ flush.pc = "lists" /\ lock = "free" /\ lock' = "flush"
      /\ lwis_transaction_free(OnEvent) /\ answer' = released(OnEvent) /\ event_list' = <<>>
      /\ flush' = [flush EXCEPT !.pc = "pending"]
      /\ UNCHANGED <<is_enabled, cleanup_list, pending, queue, work_queued, worker, handler,
                     submitter, fence, flush_state>>
  BY DEF lwis_transaction_client_flush, OnEvent
<1>2. mem' \in [Object -> MemType] /\ io_entries' \in EntriesType /\ LiveSet' = LiveSet \ OnEvent
  BY <1>1, FreeEffect
<1>3. /\ OnEvent' = {} /\ OnCleanup' = OnCleanup /\ OnQueue' = OnQueue /\ pending' = pending
      /\ Submitted' = Submitted
  BY <1>1, EmptyList DEF OnEvent, OnCleanup, OnQueue, Submitted
<1>4. Executing' = Executing /\ HandlerInv' BY <1>1, OtherThanHandler
<1>5. flush' \in FlushType /\ flush'.pc = "pending" BY <1>1 DEF TypeInv, FlushType
<1>6. CleaningUp' = CleaningUp BY <1>1, <1>5, CleanupKept
<1>7. ListInv' BY <1>1, EmptyList DEF ListInv
<1>8. PlaceInv' BY <1>2, <1>3, <1>4, <1>6 DEF PlaceInv
<1>9. answer' \in AnswerType BY <1>1, AnswersType DEF TypeInv
<1>10. TypeInv' BY <1>1, <1>2, <1>5, <1>9, EmptySeq DEF TypeInv
<1>11. LockInv' BY <1>1, <1>5, LockFree DEF LockInv
<1> QED BY <1>4, <1>7, <1>8, <1>10, <1>11

\* The flush frees a pending transaction and takes its callback off the fence.
LEMMA FlushPendingInv ==
    ASSUME IInv, flush_pending
    PROVE  IInv'
<1> USE DEF IInv
<1>1. PICK t \in pending :
         /\ lwis_transaction_free({t}) /\ answer' = released({t}) /\ pending' = pending \ {t}
         /\ fence' = [fence EXCEPT ![mem[t].info.fence].callbacks = @ \ {t}]
  BY DEF flush_pending
<1>2. UNCHANGED <<lock, is_enabled, event_list, cleanup_list, queue, work_queued, worker,
                  handler, submitter, flush, flush_state>>
  BY DEF flush_pending
<1>3. mem' \in [Object -> MemType] /\ io_entries' \in EntriesType /\ LiveSet' = LiveSet \ {t}
  BY <1>1, FreeEffect
<1>4. fence' \in [Fence -> FenceType]
  <2>1. \A g \in Fence : fence[g] \in FenceType BY DEF TypeInv
  <2>2. \A g \in Fence : [fence[g] EXCEPT !.callbacks = @ \ {t}] \in FenceType
    BY <2>1 DEF FenceType
  <2> QED BY <1>1, <2>1, <2>2 DEF TypeInv
<1>5. OnEvent' = OnEvent /\ OnCleanup' = OnCleanup /\ OnQueue' = OnQueue
      /\ Submitted' = Submitted /\ ListInv'
  BY <1>2 DEF OnEvent, OnCleanup, OnQueue, Submitted, ListInv
<1>6. Executing' = Executing /\ HandlerInv' /\ CleaningUp' = CleaningUp
  BY <1>2, OtherThanHandler, CleanupKept
<1>7. PlaceInv' BY <1>1, <1>3, <1>5, <1>6 DEF PlaceInv
<1>8. answer' \in AnswerType BY <1>1, AnswersType DEF TypeInv
<1>9. TypeInv' BY <1>1, <1>2, <1>3, <1>4, <1>8 DEF TypeInv
<1>10. LockInv' BY <1>2 DEF LockInv
<1> QED BY <1>5, <1>6, <1>7, <1>9, <1>10

\* The flush drops the lock.
LEMMA FlushUnlockInv ==
    ASSUME IInv, flush_unlock
    PROVE  IInv'
<1> USE DEF IInv
<1>1. /\ flush.pc = "pending" /\ lock' = "free" /\ flush' = [flush EXCEPT !.pc = "mark"]
      /\ UNCHANGED <<is_enabled, memory, lists, work_queued, worker, handler, submitter, fence,
                     flush_state, answer>>
  BY DEF flush_unlock
<1>2. flush' \in FlushType /\ flush'.pc = "mark" BY <1>1 DEF TypeInv, FlushType
<1>3. CleaningUp' = CleaningUp BY <1>1, <1>2, CleanupKept
<1>4. HandlerInv' /\ ListInv' /\ PlaceInv' BY <1>1, <1>3, NothingMoved
<1>5. TypeInv' BY <1>1, <1>2 DEF TypeInv, memory, lists
<1>6. lock = "flush" BY <1>1 DEF LockInv
<1>7. LockInv' BY <1>1, <1>2, <1>6, LockOfOthers DEF LockInv
<1> QED BY <1>4, <1>5, <1>7

\* The flush empties the queue.
LEMMA FlushQueueInv ==
    ASSUME IInv, cancel_all_transactions_in_queue_locked
    PROVE  IInv'
<1> USE DEF IInv
<1>1. /\ flush.pc = "queue" /\ lock = "free"
      /\ lwis_transaction_free(OnQueue) /\ answer' = released(OnQueue) /\ queue' = <<>>
      /\ flush' = [flush EXCEPT !.pc = IF flush.for = "disable" THEN "cleanup" ELSE "none"]
      /\ UNCHANGED <<lock, is_enabled, event_list, cleanup_list, pending, work_queued, worker,
                     handler, submitter, fence, flush_state>>
  BY DEF cancel_all_transactions_in_queue_locked, OnQueue
<1>2. mem' \in [Object -> MemType] /\ io_entries' \in EntriesType /\ LiveSet' = LiveSet \ OnQueue
  BY <1>1, FreeEffect
<1>3. /\ OnQueue' = {} /\ OnCleanup' = OnCleanup /\ OnEvent' = OnEvent /\ pending' = pending
      /\ Submitted' = Submitted
  BY <1>1, EmptyList DEF OnEvent, OnCleanup, OnQueue, Submitted
<1>4. Executing' = Executing /\ HandlerInv' BY <1>1, OtherThanHandler
<1>5. flush' \in FlushType /\ flush'.pc \in {"cleanup", "none"} BY <1>1 DEF TypeInv, FlushType
<1>6. CleaningUp' = CleaningUp BY <1>1, <1>5, CleanupKept
<1>7. ListInv' BY <1>1, EmptyList DEF ListInv
<1>8. PlaceInv' BY <1>2, <1>3, <1>4, <1>6 DEF PlaceInv
<1>9. answer' \in AnswerType BY <1>1, AnswersType DEF TypeInv
<1>10. TypeInv' BY <1>1, <1>2, <1>5, <1>9, EmptySeq DEF TypeInv
<1>11. LockInv' BY <1>1, <1>5 DEF LockInv
<1> QED BY <1>4, <1>7, <1>8, <1>10, <1>11

\* The cleanup takes a transaction off its list, to free it or to execute it.
LEMMA CleanupInv ==
    ASSUME IInv, lwis_transaction_client_cleanup
    PROVE  IInv'
<1> USE DEF IInv
<1> DEFINE t == First(cleanup_list)
<1>1. /\ flush.pc = "cleanup" /\ lock = "free" /\ cleanup_list # <<>>
      /\ cleanup_list' = Tail(cleanup_list)
      /\ UNCHANGED <<lock, is_enabled, event_list, pending, queue, work_queued, worker, handler,
                     submitter, fence, flush_state>>
  BY DEF lwis_transaction_client_cleanup
<1>2. cleanup_list \in Seq(Transaction) /\ IsInjective(cleanup_list) /\ flush \in FlushType
  BY DEF TypeInv, ListInv
<1>3. /\ t \in OnCleanup /\ cleanup_list' = list_del(cleanup_list, t)
      /\ t \in Transaction /\ t # None /\ t \in Object
  <2>1. t = cleanup_list[1] /\ t \in OnCleanup
    BY <1>1, <1>2, FirstOfList DEF OnCleanup
  <2>2. cleanup_list' = list_del(cleanup_list, t) BY <1>1, <1>2, <2>1, FirstDeleted
  <2> QED BY <2>1, <2>2, PlacesType
<1>4. /\ cleanup_list' \in Seq(Transaction) /\ IsInjective(cleanup_list')
      /\ OnCleanup' = OnCleanup \ {t}
  BY <1>2, <1>3, DeletedNode DEF OnCleanup
<1>5. /\ OnQueue' = OnQueue /\ OnEvent' = OnEvent /\ pending' = pending
      /\ Submitted' = Submitted /\ ListInv'
  BY <1>1, <1>4 DEF OnEvent, OnQueue, Submitted, ListInv
<1>6. Executing' = Executing /\ HandlerInv' BY <1>1, OtherThanHandler
<1>7. CASE lwis_transaction_free({t}) /\ answer' = released({t}) /\ flush' = flush
  <2>1. mem' \in [Object -> MemType] /\ io_entries' \in EntriesType /\ LiveSet' = LiveSet \ {t}
    BY <1>7, FreeEffect
  <2>2. CleaningUp' = CleaningUp BY <1>7, CleanupKept
  <2>3. PlaceInv' BY <1>3, <1>4, <1>5, <1>6, <2>1, <2>2 DEF PlaceInv
  <2>4. answer' \in AnswerType BY <1>7, AnswersType DEF TypeInv
  <2>5. TypeInv' BY <1>1, <1>4, <1>7, <2>1, <2>4 DEF TypeInv
  <2>6. LockInv' BY <1>1, <1>7 DEF LockInv
  <2> QED BY <1>5, <1>6, <2>3, <2>5, <2>6
<1>8. CASE /\ flush' = [flush EXCEPT !.pc = "cleanup_io", !.it = t]
           /\ UNCHANGED <<memory, answer>>
  <2>1. flush' \in FlushType /\ flush'.pc = "cleanup_io" /\ flush'.it = t
    BY <1>2, <1>3, <1>8 DEF FlushType
  <2>2. CleaningUp = {} /\ CleaningUp' = {t} BY <1>1, <1>3, <2>1 DEF CleaningUp
  <2>3. LiveSet' = LiveSet BY <1>8 DEF memory, LiveSet, Live
  <2>4. PlaceInv' BY <1>3, <1>4, <1>5, <1>6, <2>2, <2>3 DEF PlaceInv
  <2>5. TypeInv' BY <1>1, <1>4, <1>8, <2>1 DEF TypeInv, memory
  <2>6. LockInv' BY <1>1, <1>3, <2>1 DEF LockInv
  <2> QED BY <1>5, <1>6, <2>4, <2>5, <2>6
<1> QED BY <1>7, <1>8 DEF lwis_transaction_client_cleanup

\* The cleanup transaction has been executed and is freed.
LEMMA CleanupProcessedInv ==
    ASSUME IInv, cleanup_processed
    PROVE  IInv'
<1> USE DEF IInv
<1> DEFINE t == flush.it
<1>1. /\ flush.pc = "cleanup_io" /\ free_processed(t) /\ answer' = released({t})
      /\ flush' = [flush EXCEPT !.pc = "cleanup", !.it = None]
      /\ UNCHANGED <<lock, is_enabled, lists, work_queued, worker, handler, submitter, fence,
                     flush_state>>
  BY DEF cleanup_processed
<1>2. t \in Object /\ CleaningUp = {t}
  <2>1. t \in Transaction BY <1>1 DEF TypeInv, FlushType, LockInv
  <2> QED BY <1>1, <2>1, PlacesType DEF CleaningUp
<1>3. mem' \in [Object -> MemType] /\ io_entries' \in EntriesType /\ LiveSet' = LiveSet \ {t}
  BY <1>1, <1>2, ProcessedEffect
<1>4. flush' \in FlushType /\ flush'.pc = "cleanup" BY <1>1 DEF TypeInv, FlushType
<1>5. CleaningUp' = {} BY <1>4 DEF CleaningUp
<1>6. /\ OnEvent' = OnEvent /\ OnCleanup' = OnCleanup /\ OnQueue' = OnQueue
      /\ pending' = pending /\ Submitted' = Submitted /\ ListInv'
  BY <1>1 DEF OnEvent, OnCleanup, OnQueue, Submitted, ListInv, lists
<1>7. Executing' = Executing /\ HandlerInv' BY <1>1, OtherThanHandler
<1>8. PlaceInv' BY <1>2, <1>3, <1>5, <1>6, <1>7 DEF PlaceInv
<1>9. answer' \in AnswerType BY <1>1, AnswersType DEF TypeInv
<1>10. TypeInv' BY <1>1, <1>3, <1>4, <1>9 DEF TypeInv, lists
<1>11. LockInv' BY <1>1, <1>4 DEF LockInv
<1> QED BY <1>6, <1>7, <1>8, <1>10, <1>11

-----------------------------------------------------------------------------
(* The theorems about places *)

\* Every step keeps the invariant.
LEMMA NextIInv == ASSUME IInv, [Next]_vars PROVE IInv'
<1>1. CASE UNCHANGED vars
  <2>1. UNCHANGED <<memory, lists, submitter, handler>> /\ CleaningUp' = CleaningUp
    BY <1>1, CleanupKept DEF vars, memory, lists
  <2>2. HandlerInv' /\ ListInv' /\ PlaceInv' BY <2>1, NothingMoved
  <2>3. TypeInv' /\ LockInv' BY <1>1 DEF IInv, TypeInv, LockInv, vars
  <2> QED BY <2>2, <2>3 DEF IInv
<1>2. ASSUME NEW t \in Transaction, lwis_transaction_submit(t) \/ lwis_transaction_cancel(t)
      PROVE  IInv'
  BY <1>2, SubmitInv, CancelInv
<1>3. ASSUME NEW h \in Handler, EventStep(h) PROVE IInv'
  BY <1>3, EventTriggerInv, EventCancelledInv, EventNextInv, EventEveryInv,
     ContextProcessedInv, EventResumeInv, EventKickInv DEF EventStep
<1>4. ASSUME NEW f \in Fence, FenceStep(f) PROVE IInv'
  BY <1>4, FenceSignalInv, FenceTriggerInv, FenceKickInv DEF FenceStep
<1>5. CASE WorkerStep
  BY <1>5, WorkerRunInv, ProcessCancelledInv, ProcessFinishInv, ProcessBrokenInv,
     ProcessEndsInv DEF WorkerStep
<1>6. CASE FlushStep
  BY <1>6, FlushPhasesInv, FlushListsInv, FlushPendingInv, FlushUnlockInv, FlushQueueInv,
     CleanupInv, CleanupProcessedInv DEF FlushStep
<1> QED BY <1>1, <1>2, <1>3, <1>4, <1>5, <1>6, EnableInv, AddTransactionInv DEF Next

\* The places of the transactions, the lock and the types: an inductive invariant.
THEOREM Invariance == Spec => []IInv
<1>1. Init => IInv BY InitIInv
<1>2. IInv /\ [Next]_vars => IInv' BY NextIInv
<1> QED BY <1>1, <1>2, PTL DEF Spec

\* Every variable keeps its type, whatever the order of submission, events, fences, worker and
\* flush.
THEOREM TypeCorrect == Spec => []TypeOK
<1>1. IInv => TypeOK
  BY DEF IInv, TypeInv, TypeOK, MemType, EntriesType, WorkerType, HandlerType, FenceType,
         FlushType, AnswerType
<1> QED BY <1>1, Invariance, PTL

\* A node has one position on a list that has it.
LEMMA Occurrences ==
    ASSUME NEW S, NEW s \in Seq(S), IsInjective(s), NEW o
    PROVE  Cardinality({i \in DOMAIN s : s[i] = o}) = IF o \in ToSet(s) THEN 1 ELSE 0
<1>1. DOMAIN s = 1..Len(s) BY LenProperties
<1>2. CASE o \in ToSet(s)
  <2>1. PICK i \in 1..Len(s) : s[i] = o BY <1>2, SetOfList
  <2>2. {j \in DOMAIN s : s[j] = o} = {i} BY <1>1, <2>1, InjectiveList
  <2> QED BY <1>2, <2>2, FS_Singleton
<1>3. CASE o \notin ToSet(s)
  <2>1. {j \in DOMAIN s : s[j] = o} = {} BY <1>1, <1>3, SetOfList
  <2> QED BY <1>3, <2>1, FS_EmptySet
<1> QED BY <1>2, <1>3

\* At most one handler executes a transaction.
LEMMA Executions ==
    ASSUME HandlerInv, NEW o \in Object
    PROVE  Cardinality({h \in Handler : handler[h].pc = "context" /\ handler[h].it = o})
             = IF o \in Executing THEN 1 ELSE 0
<1> DEFINE H == {h \in Handler : handler[h].pc = "context" /\ handler[h].it = o}
<1>1. CASE o \in Executing
  <2>1. PICK h \in Handler : handler[h].pc = "context" /\ handler[h].it = o
    BY <1>1 DEF Executing
  <2>2. H = {h} BY <2>1 DEF HandlerInv
  <2> QED BY <1>1, <2>2, FS_Singleton
<1>2. CASE o \notin Executing
  <2>1. H = {} BY <1>2 DEF Executing
  <2> QED BY <1>2, <2>1, FS_EmptySet
<1> QED BY <1>1, <1>2

\* From its submission to its end a transaction is in exactly one place: none is leaked, none is
\* queued twice, nothing that is listed was freed, in any order of the operations.
THEOREM OnePlaceHolds == Spec => []OnePlace
<1>1. ASSUME IInv PROVE OnePlace
  <2> USE <1>1 DEF IInv
  <2> SUFFICES ASSUME NEW o \in Object PROVE Places(o) = IF Live(o) THEN 1 ELSE 0
    BY DEF OnePlace
  <2> DEFINE n(b) == IF b THEN 1 ELSE 0
  <2>1. /\ Cardinality({i \in DOMAIN event_list : event_list[i] = o}) = n(o \in OnEvent)
        /\ Cardinality({i \in DOMAIN cleanup_list : cleanup_list[i] = o}) = n(o \in OnCleanup)
        /\ Cardinality({i \in DOMAIN queue : queue[i] = o}) = n(o \in OnQueue)
    BY Occurrences DEF TypeInv, ListInv, OnEvent, OnCleanup, OnQueue
  <2>2. Cardinality({h \in Handler : handler[h].pc = "context" /\ handler[h].it = o})
          = n(o \in Executing)
    BY Executions
  <2>3. o = submitter <=> o \in Submitted BY PlacesType DEF Submitted
  <2>4. flush.pc = "cleanup_io" /\ flush.it = o <=> o \in CleaningUp BY DEF CleaningUp
  <2>5. Places(o) = n(o \in OnEvent) + n(o \in OnCleanup) + n(o \in OnQueue) + n(o \in pending)
                    + n(o \in Submitted) + n(o \in CleaningUp) + n(o \in Executing)
    BY <2>1, <2>2, <2>3, <2>4 DEF Places
  <2>6. Live(o) <=> o \in LiveSet BY DEF LiveSet
  <2> QED BY <2>5, <2>6 DEF PlaceInv
<1> QED BY <1>1, Invariance, PTL

-----------------------------------------------------------------------------
(* What the other threads do to the worker: the queue grows at its end, or   *)
(* at its head by a high-priority transaction, by one that was not freed, or *)
(* a flush frees all of it; what was freed stays freed, and what is there    *)
(* keeps its priority; and while there is something in the queue nobody who  *)
(* sees to it stops doing so.                                                *)

Grows(o) ==
    /\ o \notin OnQueue /\ mem[o].st # "freed"
    /\ queue' = IF mem'[o].info.high_priority THEN list_add(queue, o) ELSE Append(queue, o)

QueueGrows ==
    \/ queue' = queue
    \/ \E o \in Object : Grows(o)
    \/ flush.pc = "queue" /\ queue' = <<>> /\ \A o \in OnQueue : mem'[o].st = "freed"

MemoryStays ==
    /\ \A o \in Object : mem[o].st = "freed" => mem'[o].st = "freed"
    /\ \A o \in LiveSet : mem'[o].info = mem[o].info

KickKept == queue' # <<>> /\ (Kicked \/ queue' # queue) => Kicked'

Others == worker' = worker /\ QueueGrows /\ MemoryStays /\ KickKept

\* Live transactions are not freed.
LEMMA LiveNotFreed ==
    ASSUME PlaceInv, NEW o \in Object,
           o \in OnEvent \cup OnQueue \cup pending
    PROVE  mem[o].st # "freed"
<1>1. o \in LiveSet BY DEF PlaceInv
<1> QED BY <1>1 DEF LiveSet, Live

\* add_transaction_to_queue_locked makes the queue grow.
LEMMA AddedGrows ==
    ASSUME NEW o \in Object, o \notin OnQueue, mem[o].st # "freed", NEW info,
           add_transaction_to_queue_locked(o, info), mem'[o].info = info
    PROVE  QueueGrows
BY DEF QueueGrows, Grows, add_transaction_to_queue_locked

\* Steps that leave memory and queue alone, and whoever sees to the queue.
LEMMA OthersQuiet ==
    ASSUME UNCHANGED <<memory, queue, worker, work_queued>>,
           \/ UNCHANGED <<handler, fence, flush>>
           \/ Kicked'
    PROVE  Others
<1>1. MemoryStays /\ QueueGrows BY DEF MemoryStays, QueueGrows, memory
<1>2. KickKept BY DEF KickKept, Kicked
<1> QED BY <1>1, <1>2 DEF Others

\* Submission of an immediate transaction queues the worker.
LEMMA OthersSubmit ==
    ASSUME IInv, NEW t \in Transaction, lwis_transaction_submit(t)
    PROVE  Others
<1> USE DEF IInv
<1>1. /\ mem[t].st = "none" /\ t \in Object /\ mem \in [Object -> MemType]
      /\ UNCHANGED <<worker, handler, fence, flush>>
  BY PlacesType DEF lwis_transaction_submit, TypeInv
<1>2. PICK info \in Infos[t] :
         /\ mem' = [mem EXCEPT ![t] = [st |-> "live", info |-> info, parent |-> t,
                                       error |-> FALSE, remaining |-> info.entries]]
         /\ IF info.trigger = "none" THEN add_transaction_to_queue_locked(t, info)
            ELSE queue' = queue
         /\ work_queued' = (work_queued \/ info.trigger = "none")
  BY DEF lwis_transaction_submit
<1>3. MemoryStays BY <1>1, <1>2 DEF MemoryStays, LiveSet, Live
<1>4. t \notin OnQueue BY <1>1 DEF PlaceInv, LiveSet, Live
<1>5. mem'[t].info = info BY <1>1, <1>2
<1>6. QueueGrows BY <1>1, <1>2, <1>4, <1>5, AddedGrows DEF QueueGrows
<1>7. KickKept BY <1>1, <1>2 DEF KickKept, Kicked
<1> QED BY <1>1, <1>3, <1>6, <1>7 DEF Others

\* Adding a transaction to its fence, and cancellation.
LEMMA OthersCancel ==
    ASSUME IInv, trigger_fence_add_transaction \/ \E t \in Transaction : lwis_transaction_cancel(t)
    PROVE  Others
<1> USE DEF IInv
<1>1. CASE trigger_fence_add_transaction
  <2>1. UNCHANGED <<queue, work_queued, worker, handler, flush>>
    BY <1>1 DEF trigger_fence_add_transaction
  <2>2. \/ lwis_transaction_free({submitter}) /\ UNCHANGED fence
        \/ /\ UNCHANGED memory
           /\ fence' = [fence EXCEPT ![mem[submitter].info.fence].callbacks = @ \cup {submitter}]
    BY <1>1 DEF trigger_fence_add_transaction
  <2>3. MemoryStays BY <2>2, FreeEffect DEF MemoryStays, LiveSet, memory
  <2>4. \A f \in Fence : fence'[f].calling = fence[f].calling BY <2>2 DEF TypeInv, FenceType
  <2>5. KickKept BY <2>1, <2>4 DEF KickKept, Kicked
  <2> QED BY <2>1, <2>3, <2>5 DEF Others, QueueGrows
<1>2. ASSUME NEW t \in Transaction, lwis_transaction_cancel(t) PROVE Others
  <2>1. UNCHANGED <<queue, work_queued, worker, handler, fence, flush>>
    BY <1>2 DEF lwis_transaction_cancel, lists
  <2>2. MemoryStays BY <1>2 DEF lwis_transaction_cancel, MemoryStays, LiveSet, TypeInv, MemType
  <2>3. KickKept BY <2>1 DEF KickKept, Kicked
  <2> QED BY <2>1, <2>2, <2>3 DEF Others, QueueGrows
<1> QED BY <1>1, <1>2

\* A handler that is under way sees to the queue.
LEMMA HandlerKicks ==
    ASSUME NEW h \in Handler, handler'[h].pc # "idle", MemoryStays, QueueGrows, worker' = worker
    PROVE  Others
BY DEF Others, KickKept, Kicked

\* The steps of a handler up to its kick, which queues the worker.
LEMMA OthersEvent ==
    ASSUME IInv, NEW h \in Handler, EventStep(h)
    PROVE  Others
<1> USE DEF IInv
<1> DEFINE t == handler[h].it
<1>1. handler \in [Handler -> HandlerType] /\ mem \in [Object -> MemType]
      /\ queue \in Seq(Object) /\ Transaction \subseteq Object
  BY PlacesType DEF TypeInv
<1>2. CASE \/ lwis_transaction_event_trigger(h) \/ event_trigger_resume(h)
           \/ event_trigger_unlock(h)
  <2>1. UNCHANGED <<memory, queue, worker, work_queued>>
    BY <1>2 DEF lwis_transaction_event_trigger, event_trigger_resume, event_trigger_unlock, lists
  <2>2. handler'[h].pc \in {"walk", "kick"}
    BY <1>1, <1>2 DEF lwis_transaction_event_trigger, event_trigger_resume,
                      event_trigger_unlock, HandlerType
  <2> QED BY <2>1, <2>2, OthersQuiet DEF Kicked
<1>3. CASE event_trigger_cancelled(h)
  <2>1. /\ handler[h].pc = "walk" /\ t \in OnEvent
        /\ add_transaction_to_queue_locked(t, mem[t].info)
        /\ handler' = [handler EXCEPT ![h].it = Next_(event_list, t)]
        /\ UNCHANGED <<memory, worker>>
    BY <1>3 DEF event_trigger_cancelled, OnList, In, OnEvent
  <2>2. t \in Object /\ t \notin OnQueue /\ mem[t].st # "freed"
    BY <2>1, PlacesType, LiveNotFreed DEF PlaceInv
  <2>3. handler'[h].pc = "walk" BY <1>1, <2>1 DEF HandlerType
  <2>4. QueueGrows BY <2>1, <2>2, AddedGrows DEF memory
  <2> QED BY <2>1, <2>3, <2>4, HandlerKicks DEF MemoryStays, memory
<1>4. ASSUME NEW o \in Object, o \notin OnQueue, mem[o].st # "freed",
             mem'[o].info = mem[t].info,
             defer_transaction_locked(h, t, o), handler[h].pc = "walk"
      PROVE  handler'[h].pc # "idle" /\ QueueGrows
  <2>1. CASE mem[t].info.in_event_context
    BY <1>1, <1>4, <2>1 DEF defer_transaction_locked, HandlerType, QueueGrows
  <2>2. CASE ~mem[t].info.in_event_context
    <3>1. handler'[h].pc = "walk" BY <1>1, <1>4, <2>2 DEF defer_transaction_locked, HandlerType
    <3>2. add_transaction_to_queue_locked(o, mem[t].info)
      BY <1>4, <2>2 DEF defer_transaction_locked
    <3> QED BY <1>4, <3>1, <3>2, AddedGrows
  <2> QED BY <2>1, <2>2
<1>5. CASE event_trigger_next(h)
  <2>1. /\ handler[h].pc = "walk" /\ t \in OnEvent /\ defer_transaction_locked(h, t, t)
        /\ UNCHANGED <<memory, worker>>
    BY <1>5 DEF event_trigger_next, OnList, In, OnEvent
  <2>2. t \in Object /\ t \notin OnQueue /\ mem[t].st # "freed"
    BY <2>1, PlacesType, LiveNotFreed DEF PlaceInv
  <2>3. handler'[h].pc # "idle" /\ QueueGrows BY <1>4, <2>1, <2>2 DEF memory
  <2> QED BY <2>1, <2>3, HandlerKicks DEF MemoryStays, memory
<1>6. CASE event_trigger_every(h)
  <2>1. handler[h].pc = "walk" /\ t \in OnEvent /\ UNCHANGED worker
    BY <1>6 DEF event_trigger_every, OnList, In, OnEvent
  <2>2. t \in Object /\ t \notin OnQueue /\ mem[t].st # "freed"
    BY <2>1, PlacesType, LiveNotFreed DEF PlaceInv
  <2>3. ASSUME NEW o \in Instance, mem[o].st = "none",
               mem' = [mem EXCEPT ![o] = [mem[t] EXCEPT !.remaining = mem[t].info.entries]],
               defer_transaction_locked(h, t, o)
        PROVE  Others
    <3>1. o \in Object /\ o \notin OnQueue BY <2>3 DEF Object, PlaceInv, LiveSet, Live
    <3>2. mem'[o].info = mem[t].info BY <1>1, <2>2, <2>3, <3>1 DEF MemType
    <3>3. handler'[h].pc # "idle" /\ QueueGrows BY <1>4, <2>1, <2>3, <3>1, <3>2
    <3>4. MemoryStays BY <1>1, <2>3, <3>1 DEF MemoryStays, LiveSet, Live
    <3> QED BY <2>1, <3>3, <3>4, HandlerKicks
  <2>4. ASSUME mem' = [mem EXCEPT ![t].error = TRUE],
               add_transaction_to_queue_locked(t, mem[t].info),
               handler' = [handler EXCEPT ![h].it = Next_(event_list, t)]
        PROVE  Others
    <3>1. handler'[h].pc = "walk" BY <1>1, <2>1, <2>4 DEF HandlerType
    <3>2. MemoryStays /\ mem'[t].info = mem[t].info
      BY <1>1, <2>2, <2>4 DEF MemoryStays, LiveSet, MemType
    <3>3. QueueGrows BY <2>2, <2>4, <3>2, AddedGrows
    <3> QED BY <2>1, <3>1, <3>2, <3>3, HandlerKicks
  <2> QED BY <1>6, <2>3, <2>4 DEF event_trigger_every
<1>7. CASE event_context_processed(h)
  <2>1. handler[h].pc = "context" /\ free_processed(t) /\ UNCHANGED <<queue, worker>>
    BY <1>7 DEF event_context_processed, lists
  <2>2. t \in Object BY <2>1 DEF HandlerInv
  <2>3. MemoryStays BY <2>1, <2>2, ProcessedEffect DEF MemoryStays, LiveSet
  <2>4. handler'[h].pc = "resume" BY <1>1, <1>7 DEF event_context_processed, HandlerType
  <2> QED BY <2>1, <2>3, <2>4, HandlerKicks DEF QueueGrows
<1>8. CASE event_trigger_kick(h)
  <2>1. work_queued' = (work_queued \/ queue # <<>>) /\ UNCHANGED <<memory, queue, worker>>
    BY <1>8 DEF event_trigger_kick, lists
  <2> QED BY <2>1 DEF Others, QueueGrows, MemoryStays, KickKept, Kicked, memory
<1> QED BY <1>2, <1>3, <1>5, <1>6, <1>7, <1>8 DEF EventStep

\* A callback that is under way sees to the queue, and queues the worker at its end.
LEMMA OthersFence ==
    ASSUME IInv, NEW f \in Fence, FenceStep(f)
    PROVE  Others
<1> USE DEF IInv
<1>1. fence \in [Fence -> FenceType] /\ fence[f] \in FenceType BY DEF TypeInv
<1>2. CASE lwis_fence_write_status(f)
  <2>1. UNCHANGED <<memory, queue, worker, work_queued, handler, flush>>
    BY <1>2 DEF lwis_fence_write_status, lists
  <2>2. \A g \in Fence : fence'[g].calling = fence[g].calling
    BY <1>1, <1>2 DEF lwis_fence_write_status, FenceType
  <2> QED BY <2>1, <2>2 DEF Others, QueueGrows, MemoryStays, KickKept, Kicked, memory
<1>3. CASE fence_signal_transaction_cb(f)
  <2>1. UNCHANGED <<memory, queue, worker, work_queued>>
    BY <1>3 DEF fence_signal_transaction_cb, lists
  <2>2. PICK t \in fence[f].callbacks :
          fence' = [fence EXCEPT ![f].calling = t, ![f].callbacks = @ \ {t}]
    BY <1>3 DEF fence_signal_transaction_cb
  <2>3. t # None BY <1>1, <2>2, PlacesType DEF FenceType
  <2>4. fence'[f].calling # None BY <1>1, <2>2, <2>3 DEF FenceType
  <2> QED BY <2>1, <2>4, OthersQuiet DEF Kicked
<1>4. CASE fence_signal_unlock(f)
  <2>1. UNCHANGED <<memory, queue, worker, work_queued, handler, flush>>
    BY <1>4 DEF fence_signal_unlock, lists
  <2>2. \A g \in Fence : fence'[g].calling = fence[g].calling
    BY <1>1, <1>4 DEF fence_signal_unlock, FenceType
  <2> QED BY <2>1, <2>2 DEF Others, QueueGrows, MemoryStays, KickKept, Kicked, memory
<1>5. CASE fence_trigger_kick(f)
  <2>1. work_queued' = (work_queued \/ queue # <<>>) /\ UNCHANGED <<memory, queue, worker>>
    BY <1>5 DEF fence_trigger_kick, lists
  <2> QED BY <2>1 DEF Others, QueueGrows, MemoryStays, KickKept, Kicked, memory
<1>6. CASE lwis_transaction_fence_trigger(f)
  <2> DEFINE t == fence[f].calling
             ok == fence[f].status = "signaled"
  <2>1. /\ t # None /\ UNCHANGED worker
        /\ fence' = [fence EXCEPT ![f].kick = TRUE,
                       ![f].fences = IF t \in pending /\ ~ok THEN {t} ELSE {}]
        /\ \/ t \in pending /\ lwis_transaction_free({t}) /\ queue' = queue
           \/ /\ t \in pending /\ UNCHANGED memory
              /\ add_transaction_to_queue_locked(t, mem[t].info)
           \/ UNCHANGED memory /\ queue' = queue
    BY <1>6 DEF lwis_transaction_fence_trigger
  <2>2. fence'[f].calling = t
    <3> DEFINE F == IF t \in pending /\ ~ok THEN {t} ELSE {}
    <3>1. fence' = [fence EXCEPT ![f].kick = TRUE, ![f].fences = F] BY <2>1
    <3> HIDE DEF F
    <3> QED BY <1>1, <3>1 DEF FenceType
  <2>3. Kicked' BY <2>1, <2>2 DEF Kicked
  <2>4. MemoryStays BY <2>1, FreeEffect DEF MemoryStays, LiveSet, memory
  <2>5. ASSUME t \in pending PROVE t \in Object /\ t \notin OnQueue /\ mem[t].st # "freed"
    BY <2>5, PlacesType, LiveNotFreed DEF PlaceInv
  <2>6. QueueGrows
    <3>1. CASE queue' = queue BY <3>1 DEF QueueGrows
    <3>2. CASE /\ t \in pending /\ UNCHANGED memory
               /\ add_transaction_to_queue_locked(t, mem[t].info)
      BY <2>5, <3>2, AddedGrows DEF memory
    <3> QED BY <2>1, <3>1, <3>2
  <2> QED BY <2>1, <2>3, <2>4, <2>6 DEF Others, KickKept
<1> QED BY <1>2, <1>3, <1>4, <1>5, <1>6 DEF FenceStep

\* A flush sees to the queue until it has emptied it.
LEMMA OthersFlush ==
    ASSUME IInv, FlushStep
    PROVE  Others
<1> USE DEF IInv
<1>1. flush \in FlushType BY DEF TypeInv
<1> DEFINE Done == {"none", "cleanup", "cleanup_io", "power"}
<1>2. CASE \/ cmd_device_disable \/ cmd_device_reset \/ flush_mark \/ lwis_flush_device_worker
           \/ flush_unmark \/ flush_unlock
  <2>1. UNCHANGED <<memory, queue, worker, work_queued>>
    BY <1>2 DEF cmd_device_disable, cmd_device_reset, flush_mark, lwis_flush_device_worker,
                flush_unmark, flush_unlock, lists
  <2>2. flush'.pc \in {"lists", "enqueue", "wait", "queue", "mark"}
    <3>1. CASE cmd_device_disable BY <1>1, <3>1 DEF cmd_device_disable, FlushType
    <3>2. CASE cmd_device_reset BY <1>1, <3>2 DEF cmd_device_reset, FlushType
    <3>3. CASE flush_mark BY <1>1, <3>3 DEF flush_mark, FlushType
    <3>4. CASE lwis_flush_device_worker BY <1>1, <3>4 DEF lwis_flush_device_worker, FlushType
    <3>5. CASE flush_unmark BY <1>1, <3>5 DEF flush_unmark, FlushType
    <3>6. CASE flush_unlock BY <1>1, <3>6 DEF flush_unlock, FlushType
    <3> QED BY <1>2, <3>1, <3>2, <3>3, <3>4, <3>5, <3>6
  <2>3. Kicked' BY <2>2 DEF Kicked
  <2> QED BY <2>1, <2>3, OthersQuiet
<1>3. CASE lwis_transaction_client_flush
  <2>1. lwis_transaction_free(ToSet(event_list)) /\ UNCHANGED <<queue, worker>>
    BY <1>3 DEF lwis_transaction_client_flush
  <2>2. flush'.pc = "pending" BY <1>1, <1>3 DEF lwis_transaction_client_flush, FlushType
  <2>3. MemoryStays BY <2>1, FreeEffect DEF MemoryStays, LiveSet
  <2>4. Kicked' BY <2>2 DEF Kicked
  <2> QED BY <2>1, <2>3, <2>4 DEF Others, QueueGrows, KickKept
<1>4. CASE flush_pending
  <2>1. flush'.pc = "pending" /\ UNCHANGED <<queue, worker>> BY <1>4 DEF flush_pending
  <2>2. PICK t \in pending : lwis_transaction_free({t}) BY <1>4 DEF flush_pending
  <2>3. MemoryStays BY <2>2, FreeEffect DEF MemoryStays, LiveSet
  <2>4. Kicked' BY <2>1 DEF Kicked
  <2> QED BY <2>1, <2>3, <2>4 DEF Others, QueueGrows, KickKept
<1>5. CASE cancel_all_transactions_in_queue_locked
  <2>1. flush.pc = "queue" /\ lwis_transaction_free(OnQueue) /\ queue' = <<>> /\ UNCHANGED worker
    BY <1>5 DEF cancel_all_transactions_in_queue_locked, OnQueue
  <2>2. MemoryStays /\ \A o \in OnQueue : mem'[o].st = "freed"
    BY <2>1, FreeEffect, PlacesType DEF MemoryStays, LiveSet
  <2> QED BY <2>1, <2>2 DEF Others, QueueGrows, KickKept
<1>6. CASE lwis_transaction_client_cleanup \/ cleanup_processed \/ disable_power
  <2>1. UNCHANGED <<queue, worker, work_queued, handler, fence>>
    BY <1>6 DEF lwis_transaction_client_cleanup, cleanup_processed, disable_power, lists
  <2>2. flush.pc \in Done /\ flush'.pc \in Done
    <3>1. CASE lwis_transaction_client_cleanup
      <4>1. CASE flush' = flush BY <3>1, <4>1 DEF lwis_transaction_client_cleanup
      <4>2. CASE flush' # flush
        BY <1>1, <3>1, <4>2 DEF lwis_transaction_client_cleanup, FlushType
      <4> QED BY <4>1, <4>2
    <3>2. CASE cleanup_processed BY <1>1, <3>2 DEF cleanup_processed, FlushType
    <3>3. CASE disable_power BY <1>1, <3>3 DEF disable_power, FlushType
    <3> QED BY <1>6, <3>1, <3>2, <3>3
  <2>3. MemoryStays
    <3>1. CASE lwis_transaction_client_cleanup
      BY <3>1, FreeEffect DEF lwis_transaction_client_cleanup, MemoryStays, LiveSet, memory
    <3>2. CASE cleanup_processed
      <4>1. flush.it \in Object
        BY <3>2, PlacesType DEF cleanup_processed, TypeInv, FlushType, LockInv
      <4> QED BY <3>2, <4>1, ProcessedEffect DEF cleanup_processed, MemoryStays, LiveSet
    <3>3. CASE disable_power BY <3>3 DEF disable_power, MemoryStays, memory
    <3> QED BY <1>6, <3>1, <3>2, <3>3
  <2>4. KickKept BY <2>1, <2>2 DEF KickKept, Kicked
  <2> QED BY <2>1, <2>3, <2>4 DEF Others, QueueGrows
<1> QED BY <1>2, <1>3, <1>4, <1>5, <1>6 DEF FlushStep

\* Every step is one of the worker or one of the others.
LEMMA OthersOrWorker ==
    ASSUME IInv, [Next]_vars
    PROVE  Others \/ WorkerStep
<1>1. CASE UNCHANGED vars
  <2>1. UNCHANGED <<memory, queue, worker, work_queued, handler, fence, flush>>
    BY <1>1 DEF vars, memory
  <2> QED BY <2>1, OthersQuiet
<1>2. CASE cmd_device_enable
  <2>1. UNCHANGED <<memory, queue, worker, work_queued, handler, fence, flush>>
    BY <1>2 DEF cmd_device_enable, lists
  <2> QED BY <2>1, OthersQuiet
<1> QED BY <1>1, <1>2, OthersSubmit, OthersCancel, OthersEvent, OthersFence, OthersFlush DEF Next

-----------------------------------------------------------------------------
(* The order of the queue *)

\* When others leave something in the queue, what was in it keeps its order, moved by one when a
\* high-priority transaction is put before it.
LEMMA GrownQueue ==
    ASSUME IInv, QueueGrows, queue' # <<>>
    PROVE  \E d \in {0, 1} :
             /\ queue' \in Seq(Object) /\ IsInjective(queue')
             /\ Len(queue) \in Nat /\ Len(queue') \in Nat /\ Len(queue') >= Len(queue) + d
             /\ \A i \in 1..Len(queue) : queue'[i + d] = queue[i]
             /\ d = 1 => mem'[queue'[1]].info.high_priority
<1>1. queue \in Seq(Object) /\ IsInjective(queue) /\ Len(queue) \in Nat
  BY LenProperties DEF IInv, TypeInv, ListInv
<1>2. CASE queue' = queue
  <2>1. \A i \in 1..Len(queue) : i + 0 = i OBVIOUS
  <2> QED BY <1>1, <1>2, <2>1
<1>3. ASSUME NEW o \in Object, Grows(o), mem'[o].info.high_priority
      PROVE  /\ queue' \in Seq(Object) /\ IsInjective(queue') /\ Len(queue') = Len(queue) + 1
             /\ \A i \in 1..Len(queue) : queue'[i + 1] = queue[i]
             /\ mem'[queue'[1]].info.high_priority
  <2>1. o \notin ToSet(queue) BY <1>3 DEF Grows, OnQueue
  <2>2. /\ list_add(queue, o) \in Seq(Object) /\ IsInjective(list_add(queue, o))
        /\ Len(list_add(queue, o)) = Len(queue) + 1 /\ list_add(queue, o)[1] = o
        /\ \A i \in 1..Len(queue) : list_add(queue, o)[i + 1] = queue[i]
    BY <1>1, <2>1, AddToList
  <2>3. queue' = list_add(queue, o) BY <1>3 DEF Grows
  <2> QED BY <1>3, <2>2, <2>3
<1>4. ASSUME NEW o \in Object, Grows(o), ~mem'[o].info.high_priority
      PROVE  /\ queue' \in Seq(Object) /\ IsInjective(queue') /\ Len(queue') = Len(queue) + 1
             /\ \A i \in 1..Len(queue) : queue'[i] = queue[i] /\ i + 0 = i
  <2>1. queue' = Append(queue, o) /\ o \notin ToSet(queue) BY <1>4 DEF Grows, OnQueue
  <2> QED BY <1>1, <2>1, AppendToList
<1> QED BY <1>1, <1>2, <1>3, <1>4 DEF QueueGrows

\* What the worker holds keeps its place while others put transactions at either end.
LEMMA OthersKeepOrder ==
    ASSUME IInv, OrderInv, Others
    PROVE  OrderInv'
<1> USE DEF IInv
<1>1. worker' = worker /\ QueueGrows /\ MemoryStays BY DEF Others
<1>2. worker \in WorkerType /\ queue \in Seq(Object) /\ None \notin Object
      /\ OnQueue \subseteq Object /\ OnQueue \subseteq LiveSet
  BY PlacesType DEF TypeInv, PlaceInv
<1>3. \A x : x \in ToSet(queue) <=> x \in OnQueue BY DEF OnQueue
<1> DEFINE SavedThen(x) == x = None \/ x \in ToSet(queue') \/ mem'[x].st = "freed"
           HighThen(x) == \A i, j \in 1..Len(queue') :
                            queue'[j] = x /\ i < j => mem'[queue'[i]].info.high_priority
<1>4. ASSUME NEW x \in Object \cup {None}, Saved(x)
      PROVE  SavedThen(x) /\ (x \in ToSet(queue') => In(x, queue))
  <2>1. CASE queue' = queue BY <1>1, <1>2, <1>4, <2>1 DEF Saved, In, MemoryStays
  <2>2. ASSUME NEW o \in Object, Grows(o)
        PROVE  SavedThen(x) /\ (x \in ToSet(queue') => In(x, queue))
    <3>1. ToSet(queue') = ToSet(queue) \cup {o}
      <4>1. queue' = list_add(queue, o) \/ queue' = Append(queue, o) BY <2>2 DEF Grows
      <4>2. ToSet(list_add(queue, o)) = ToSet(queue) \cup {o} BY <1>2, AddToList
      <4>3. CASE queue' = Append(queue, o) BY <1>2, <4>3, AppendToList
      <4> QED BY <4>1, <4>2, <4>3
    <3>2. x # o BY <1>2, <1>3, <1>4, <2>2 DEF Saved, In, Grows
    <3> QED BY <1>1, <1>2, <1>4, <3>1, <3>2 DEF Saved, In, MemoryStays
  <2>3. ASSUME queue' = <<>>, \A o \in OnQueue : mem'[o].st = "freed"
        PROVE  SavedThen(x) /\ (x \in ToSet(queue') => In(x, queue))
    <3>1. ToSet(queue') = {} BY <2>3, EmptyList
    <3> QED BY <1>1, <1>2, <1>3, <1>4, <2>3, <3>1 DEF Saved, In, MemoryStays
  <2> QED BY <1>1, <2>1, <2>2, <2>3 DEF QueueGrows
<1>5. \A x : x \in ToSet(queue') => queue' # <<>> BY EmptyList
<1>6. ASSUME NEW x \in Object \cup {None}, Saved(x), OnlyHighBefore(x) PROVE HighThen(x)
  <2> SUFFICES ASSUME NEW i \in 1..Len(queue'), NEW j \in 1..Len(queue'),
                      queue'[j] = x, i < j
               PROVE  mem'[queue'[i]].info.high_priority
    OBVIOUS
  <2>1. queue' # <<>>
    <3>1. CASE queue' = <<>> BY <3>1
    <3> QED BY <3>1
  <2>2. PICK d \in {0, 1} :
             /\ queue' \in Seq(Object) /\ IsInjective(queue')
             /\ Len(queue) \in Nat /\ Len(queue') \in Nat /\ Len(queue') >= Len(queue) + d
             /\ \A k \in 1..Len(queue) : queue'[k + d] = queue[k]
             /\ d = 1 => mem'[queue'[1]].info.high_priority
    BY <1>1, <2>1, GrownQueue
  <2>3. x \in ToSet(queue') BY <2>2, SetOfList
  <2>4. PICK k \in 1..Len(queue) : queue[k] = x BY <1>2, <1>4, <1>6, <2>3, SetOfList DEF In
  <2>5. k + d \in 1..Len(queue') /\ queue'[k + d] = x BY <2>2, <2>4
  <2>6. j = k + d BY <2>2, <2>5, InjectiveList
  <2>7. CASE d = 1 /\ i = 1 BY <2>2, <2>7
  <2>8. CASE ~(d = 1 /\ i = 1)
    <3>1. i - d \in 1..Len(queue) /\ i - d < k /\ (i - d) + d = i BY <2>2, <2>4, <2>6, <2>8
    <3>2. HighPriority(queue[i - d]) BY <1>6, <2>4, <3>1 DEF OnlyHighBefore
    <3>3. queue'[i] = queue[i - d] BY <2>2, <3>1
    <3>4. queue[i - d] \in LiveSet BY <1>2, <1>3, <3>1, SetOfList
    <3> QED BY <1>1, <3>2, <3>3, <3>4 DEF HighPriority, MemoryStays
  <2> QED BY <2>7, <2>8
<1>7. worker.it \in Object \cup {None} /\ worker.next \in Object \cup {None}
  BY <1>2 DEF WorkerType
<1>8. ASSUME worker.pc \in {"io", "finish"}, worker.it \in ToSet(queue'), worker.next # None
      PROVE  \E i \in 1..Len(queue') - 1 : queue'[i] = worker.it /\ queue'[i + 1] = worker.next
  <2>1. In(worker.it, queue) BY <1>4, <1>7, <1>8 DEF OrderInv
  <2>2. PICK i \in 1..Len(queue) - 1 : queue[i] = worker.it /\ queue[i + 1] = worker.next
    BY <1>8, <2>1 DEF OrderInv, Follows
  <2>3. queue' # <<>> BY <1>5, <1>8
  <2>4. PICK d \in {0, 1} :
             /\ Len(queue) \in Nat /\ Len(queue') \in Nat /\ Len(queue') >= Len(queue) + d
             /\ \A k \in 1..Len(queue) : queue'[k + d] = queue[k]
    BY <1>1, <2>3, GrownQueue
  <2>5. /\ i \in 1..Len(queue) /\ i + 1 \in 1..Len(queue) /\ (i + 1) + d = (i + d) + 1
        /\ i + d \in 1..Len(queue') - 1
    BY <2>2, <2>4
  <2>6. queue'[i + d] = worker.it /\ queue'[(i + d) + 1] = worker.next BY <2>2, <2>4, <2>5
  <2> QED BY <2>5, <2>6
<1> HIDE DEF SavedThen, HighThen
<1>9. worker.pc \in {"scan", "io", "finish", "after"} =>
        SavedThen(worker.it) /\ HighThen(worker.it)
  BY <1>4, <1>6, <1>7 DEF OrderInv
<1>10. worker.pc \in {"io", "finish", "after"} => SavedThen(worker.next)
  BY <1>4, <1>7 DEF OrderInv
<1>11. worker.pc = "after" /\ worker.it = None => HighThen(worker.next)
  BY <1>6, <1>7 DEF OrderInv
<1>12. worker.pc \in {"io", "finish"} => worker.it # None BY DEF OrderInv
<1> QED BY <1>1, <1>8, <1>9, <1>10, <1>11, <1>12
        DEF OrderInv, In, Saved, SavedThen, HighThen, OnlyHighBefore, HighPriority, Follows

\* Taking the first node off.
LEMMA RestOfList ==
    ASSUME NEW S, NEW s \in Seq(S), s # <<>>
    PROVE  /\ Tail(s) \in Seq(S) /\ Len(s) \in Nat \ {0} /\ Len(Tail(s)) = Len(s) - 1
           /\ Len(s) = 1 => Tail(s) = <<>>
           /\ Len(s) # 1 => Len(s) > 1 /\ Tail(s)[1] = s[2] /\ s[2] \in ToSet(Tail(s))
<1>1. /\ Tail(s) \in Seq(S) /\ Len(Tail(s)) = Len(s) - 1 /\ Len(s) \in Nat \ {0}
      /\ \A i \in 1..Len(Tail(s)) : Tail(s)[i] = s[i + 1]
  BY HeadTailProperties, EmptySeq
<1>2. ASSUME Len(s) = 1 PROVE Tail(s) = <<>>
  <2>1. Len(Tail(s)) = 0 BY <1>1, <1>2
  <2> QED BY <1>1, <2>1, EmptySeq
<1>3. ASSUME Len(s) # 1 PROVE Len(s) > 1 /\ Tail(s)[1] = s[2] /\ s[2] \in ToSet(Tail(s))
  <2>1. Len(s) > 1 /\ 1 \in 1..Len(Tail(s)) BY <1>1, <1>3
  <2>2. Tail(s)[1] = s[2] BY <1>1, <2>1
  <2> QED BY <1>1, <2>1, <2>2, SetOfList
<1> QED BY <1>1, <1>2, <1>3

\* The transaction the worker has found in the queue, by its position.
LEMMA WorkerAt ==
    ASSUME IInv, OrderInv, worker.pc \in {"scan", "io", "finish", "after"},
           worker.it \in OnQueue
    PROVE  \E p \in 1..Len(queue) :
             /\ queue[p] = worker.it /\ list_del(queue, worker.it) = RemoveAt(queue, p)
             /\ Next_(queue, worker.it) = IF p = Len(queue) THEN None ELSE queue[p + 1]
             /\ \A i \in 1..p - 1 : HighPriority(queue[i])
<1>1. queue \in Seq(Object) /\ IsInjective(queue) BY DEF IInv, TypeInv, ListInv
<1>2. PICK p \in 1..Len(queue) : queue[p] = worker.it BY <1>1, SetOfList DEF OnQueue
<1>3. \A i \in 1..p - 1 : i \in 1..Len(queue) /\ i < p BY <1>1, <1>2, LenProperties
<1>4. \A i \in 1..p - 1 : HighPriority(queue[i]) BY <1>2, <1>3 DEF OrderInv, OnlyHighBefore
<1> QED BY <1>1, <1>2, <1>4, DeletedAt

\* When it is the first one.
LEMMA WorkerAtHead ==
    ASSUME IInv, worker.it \in OnQueue, worker.it = queue[1]
    PROVE  /\ queue # <<>> /\ list_del(queue, worker.it) = Tail(queue)
           /\ Next_(queue, worker.it) = IF Len(queue) = 1 THEN None ELSE queue[2]
<1>1. queue \in Seq(Object) /\ IsInjective(queue) BY DEF IInv, TypeInv, ListInv
<1>2. queue # <<>> BY <1>1, SetOfList DEF OnQueue
<1> QED BY <1>1, <1>2, FirstDeleted

\* The node after the one that is taken out moves to its position.
LEMMA NodeAfter ==
    ASSUME IInv, NEW p \in 1..Len(queue) - 1, queue' = list_del(queue, queue[p]),
           NEW x, x = queue[p + 1],
           \A i \in 1..p - 1 : HighPriority(queue[i]),
           \A o \in Object : mem'[o].info = mem[o].info
    PROVE  x \in ToSet(queue') /\ OnlyHighBefore(x)'
<1>1. queue \in Seq(Object) /\ IsInjective(queue) /\ Len(queue) \in Nat
  BY LenProperties DEF IInv, TypeInv, ListInv
<1>2. p \in 1..Len(queue) BY <1>1
<1>3. /\ queue' \in Seq(Object) /\ Len(queue') = Len(queue) - 1
      /\ \A i \in 1..Len(queue) - 1 : queue'[i] = IF i < p THEN queue[i] ELSE queue[i + 1]
  BY <1>1, <1>2, DeletedAt
<1>4. IsInjective(queue') BY <1>1, <1>2, DeletedNode, SetOfList
<1>5. p \in 1..Len(queue') /\ queue'[p] = x BY <1>1, <1>3
<1>6. x \in ToSet(queue') BY <1>3, <1>5, SetOfList
<1>7. ASSUME NEW i \in 1..Len(queue'), NEW j \in 1..Len(queue'), queue'[j] = x, i < j
      PROVE  mem'[queue'[i]].info.high_priority
  <2>1. j = p BY <1>3, <1>4, <1>5, <1>7, InjectiveList
  <2>2. i \in 1..p - 1 /\ i \in 1..Len(queue) /\ queue'[i] = queue[i] BY <1>1, <1>3, <1>7, <2>1
  <2>3. queue[i] \in Object BY <1>1, <2>2, ElementOfSeq
  <2> QED BY <2>2, <2>3 DEF HighPriority
<1> QED BY <1>6, <1>7 DEF OnlyHighBefore, HighPriority

\* The worker goes from a transaction to the next.
LEMMA WorkerKeepsOrder ==
    ASSUME IInv, OrderInv, WorkerStep
    PROVE  OrderInv'
<1> USE DEF IInv
<1>1. /\ worker \in WorkerType /\ queue \in Seq(Object) /\ None \notin Object
      /\ OnQueue \subseteq Object /\ mem \in [Object -> MemType] /\ IsInjective(queue)
  BY PlacesType DEF TypeInv, ListInv
<1>2. \A x : In(x, queue) <=> x \in OnQueue BY DEF In, OnQueue
<1>3. ASSUME worker'.pc \in {"idle", "start", "emit"} PROVE OrderInv' BY <1>3 DEF OrderInv
<1>4. CASE worker_run \/ process_broken_transaction \/ process_emit \/ process_return
  <2>1. worker'.pc \in {"idle", "start", "emit"}
    BY <1>1, <1>4 DEF worker_run, process_broken_transaction, process_emit, process_return,
                      WorkerType
  <2> QED BY <1>3, <2>1
<1>5. ASSUME queue' \in Seq(Object) PROVE OnlyHighBefore(None)'
  <2>1. \A j \in 1..Len(queue') : queue'[j] # None BY <1>1, <1>5, ElementOfSeq
  <2> QED BY <2>1 DEF OnlyHighBefore
<1>6. CASE lwis_process_transactions_in_queue
  <2>1. worker'.pc = "scan" /\ worker'.it = First(queue) /\ queue' = queue
    BY <1>1, <1>6 DEF lwis_process_transactions_in_queue, WorkerType, lists
  <2>2. CASE First(queue) = None BY <1>1, <1>5, <2>1, <2>2 DEF OrderInv, Saved
  <2>3. CASE First(queue) # None
    <3>1. First(queue) \in ToSet(queue) /\ First(queue) = queue[1] /\ 1 \in 1..Len(queue)
      BY <1>1, <2>3, FirstOfList DEF First
    <3>2. \A j \in 1..Len(queue) : queue[j] = queue[1] => j = 1 BY <1>1, <3>1, InjectiveList
    <3>3. OnlyHighBefore(First(queue))' BY <2>1, <3>1, <3>2 DEF OnlyHighBefore
    <3> QED BY <2>1, <3>1, <3>3 DEF OrderInv, Saved, In
  <2> QED BY <2>2, <2>3
<1>7. CASE process_cancelled
  <2>1. /\ worker.pc = "scan" /\ worker.it \in OnQueue /\ queue' = list_del(queue, worker.it)
        /\ worker'.pc = "scan" /\ worker'.it = Next_(queue, worker.it)
        /\ lwis_transaction_free({worker.it})
    BY <1>1, <1>7 DEF process_cancelled, OnList, In, OnQueue, WorkerType
  <2>2. \A o \in Object : mem'[o].info = mem[o].info BY <2>1, FreeEffect
  <2>3. queue' \in Seq(Object) BY <1>1, <2>1, DeletedNode DEF OnQueue
  <2>4. PICK p \in 1..Len(queue) :
             /\ queue[p] = worker.it
             /\ Next_(queue, worker.it) = IF p = Len(queue) THEN None ELSE queue[p + 1]
             /\ \A i \in 1..p - 1 : HighPriority(queue[i])
    BY <2>1, WorkerAt
  <2>5. CASE p = Len(queue)
    <3>1. worker'.it = None BY <2>1, <2>4, <2>5
    <3> QED BY <1>5, <2>1, <2>3, <3>1 DEF OrderInv, Saved
  <2>6. CASE p # Len(queue)
    <3>1. PICK x : x = queue[p + 1] OBVIOUS
    <3>2. worker'.it = x BY <2>1, <2>4, <2>6, <3>1
    <3>3. p \in 1..Len(queue) - 1 BY <1>1, <2>4, <2>6, LenProperties
    <3>4. x \in ToSet(queue') /\ OnlyHighBefore(x)'
      BY <2>1, <2>2, <2>4, <3>1, <3>3, NodeAfter
    <3>5. OnlyHighBefore(worker.it)' BY <3>2, <3>4 DEF OnlyHighBefore
    <3> QED BY <2>1, <3>2, <3>4, <3>5 DEF OrderInv, Saved, In
  <2> QED BY <2>5, <2>6
<1>8. CASE process_transaction
  <2>1. /\ worker.pc = "scan" /\ worker.it \in OnQueue /\ UNCHANGED <<mem, queue>>
        /\ worker'.pc = "io" /\ worker'.it = worker.it /\ worker'.next = Next_(queue, worker.it)
    BY <1>1, <1>8 DEF process_transaction, OnList, In, OnQueue, WorkerType, lists, memory
  <2>2. PICK p \in 1..Len(queue) :
             /\ queue[p] = worker.it
             /\ Next_(queue, worker.it) = IF p = Len(queue) THEN None ELSE queue[p + 1]
    BY <2>1, WorkerAt
  <2>3. worker'.next # None => Follows(worker.it, worker.next)' /\ worker'.next \in ToSet(queue)
    <3>1. p # Len(queue) => p \in 1..Len(queue) - 1 /\ p + 1 \in 1..Len(queue)
      BY <1>1, <2>2, LenProperties
    <3>2. p # Len(queue) => queue[p + 1] \in ToSet(queue) BY <1>1, <3>1, SetOfList
    <3> QED BY <2>1, <2>2, <3>1, <3>2 DEF Follows
  <2>4. worker.it # None BY <1>1, <2>1
  <2>5. OnlyHighBefore(worker.it)' BY <2>1 DEF OrderInv, OnlyHighBefore, HighPriority
  <2> QED BY <2>1, <2>3, <2>4, <2>5 DEF OrderInv, Saved, In, OnQueue
<1>9. CASE process_io_entries
  <2>1. /\ worker.pc = "io" /\ UNCHANGED <<mem, queue>>
        /\ worker'.pc = "finish" /\ worker'.it = worker.it /\ worker'.next = worker.next
    BY <1>1, <1>9 DEF process_io_entries, WorkerType, lists, memory
  <2> QED BY <2>1 DEF OrderInv, Saved, In, OnlyHighBefore, HighPriority, Follows
<1>10. CASE process_transaction_finish
  <2> DEFINE o == worker.it
             left == IF ~mem[o].info.in_event_context /\ mem[o].remaining > Limit
                     THEN mem[o].remaining - Limit ELSE 0
  <2>1. worker.pc = "finish" /\ o \in OnQueue /\ o \in Object
    BY <1>1, <1>10 DEF process_transaction_finish, OnList, In, OnQueue
  <2>2. \/ /\ mem' = [mem EXCEPT ![o].remaining = left] /\ queue' = queue
           /\ worker' = [worker EXCEPT !.pc = "after"]
        \/ /\ queue' = list_del(queue, o) /\ free_processed(o)
           /\ worker' = [worker EXCEPT !.pc = "after", !.it = None,
                                       !.fences = @ \cup OwnFences({o})]
    BY <1>10 DEF process_transaction_finish
  <2> HIDE DEF left
  <2>3. CASE /\ mem' = [mem EXCEPT ![o].remaining = left] /\ queue' = queue
             /\ worker' = [worker EXCEPT !.pc = "after"]
    <3>1. worker'.pc = "after" /\ worker'.it = o /\ worker'.next = worker.next
      BY <1>1, <2>3 DEF WorkerType
    <3>2. \A x \in Object : mem'[x].st = mem[x].st /\ mem'[x].info = mem[x].info
      BY <1>1, <2>3 DEF MemType
    <3>3. Saved(worker.next) /\ worker.next \in Object \cup {None} /\ OnlyHighBefore(o)
      BY <1>1, <2>1 DEF OrderInv, WorkerType
    <3>4. o # None BY <1>1, <2>1
    <3>5. OnlyHighBefore(o)'
      <4>1. \A i \in 1..Len(queue) : queue[i] \in Object BY <1>1, ElementOfSeq
      <4> QED BY <2>3, <3>2, <3>3, <4>1 DEF OnlyHighBefore, HighPriority
    <3>6. Saved(worker.next)' BY <2>3, <3>1, <3>2, <3>3 DEF Saved, In
    <3>7. In(o, queue) BY <1>2, <2>1
    <3> QED BY <2>3, <3>1, <3>4, <3>5, <3>6, <3>7 DEF OrderInv, Saved, In, OnlyHighBefore
  <2>4. CASE /\ queue' = list_del(queue, o) /\ free_processed(o)
             /\ worker' = [worker EXCEPT !.pc = "after", !.it = None,
                                         !.fences = @ \cup OwnFences({o})]
    <3>1. worker'.pc = "after" /\ worker'.it = None /\ worker'.next = worker.next
      BY <1>1, <2>4 DEF WorkerType
    <3>2. \A x \in Object : mem'[x].info = mem[x].info BY <2>1, <2>4, ProcessedEffect
    <3>3. queue' \in Seq(Object) BY <1>1, <2>1, <2>4, DeletedNode DEF OnQueue
    <3>4. OnlyHighBefore(None)' BY <1>5, <3>3
    <3>5. ASSUME worker.next # None
          PROVE  worker.next \in ToSet(queue') /\ OnlyHighBefore(worker.next)'
      <4>1. PICK i \in 1..Len(queue) - 1 : queue[i] = o /\ queue[i + 1] = worker.next
        BY <1>2, <2>1, <3>5 DEF OrderInv, Follows
      <4>2. PICK p \in 1..Len(queue) : queue[p] = o /\ \A k \in 1..p - 1 : HighPriority(queue[k])
        BY <2>1, WorkerAt
      <4>3. Len(queue) \in Nat BY <1>1, LenProperties
      <4>4. i \in 1..Len(queue) /\ i # Len(queue) BY <4>1, <4>3
      <4>5. i = p BY <1>1, <4>1, <4>2, <4>4, InjectiveList
      <4>6. PICK x : x = worker.next OBVIOUS
      <4>7. x \in ToSet(queue') /\ OnlyHighBefore(x)'
        BY <2>4, <3>2, <4>1, <4>2, <4>5, <4>6, NodeAfter
      <4> QED BY <3>1, <4>6, <4>7 DEF OnlyHighBefore
    <3> QED BY <3>1, <3>4, <3>5 DEF OrderInv, Saved, In, OnlyHighBefore
  <2> QED BY <2>2, <2>3, <2>4
<1>11. CASE process_continue
  <2>1. /\ worker.pc = "after" /\ worker.it = None /\ UNCHANGED <<mem, queue>>
        /\ worker'.pc = "scan" /\ worker'.it = worker.next
    BY <1>1, <1>11 DEF process_continue, WorkerType, lists, memory
  <2> QED BY <2>1 DEF OrderInv, Saved, In, OnlyHighBefore, HighPriority
<1> QED BY <1>4, <1>6, <1>7, <1>8, <1>9, <1>10, <1>11 DEF WorkerStep

\* A step of the worker takes out one transaction, behind high-priority ones only, or none.
LEMMA WorkerTakes ==
    ASSUME IInv, OrderInv, WorkerStep
    PROVE  \/ queue' = queue
           \/ \E p \in 1..Len(queue) :
                queue' = RemoveAt(queue, p) /\ \A i \in 1..p - 1 : HighPriority(queue[i])
<1>1. CASE queue' = queue BY <1>1
<1>2. CASE process_cancelled
  <2>1. worker.pc = "scan" /\ worker.it \in OnQueue /\ queue' = list_del(queue, worker.it)
    BY <1>2 DEF process_cancelled, OnList, In, OnQueue
  <2> QED BY <2>1, WorkerAt
<1>3. CASE process_transaction_finish /\ queue' # queue
  <2>1. worker.pc = "finish" /\ worker.it \in OnQueue /\ queue' = list_del(queue, worker.it)
    BY <1>3 DEF process_transaction_finish, OnList, In, OnQueue
  <2> QED BY <2>1, WorkerAt
<1>4. CASE process_broken_transaction /\ queue' # queue
  <2>1. worker.pc = "after" /\ worker.it \in OnQueue /\ queue' = list_del(queue, worker.it)
    BY <1>4 DEF process_broken_transaction, OnList, In, OnQueue
  <2> QED BY <2>1, WorkerAt
<1>5. ASSUME \/ worker_run \/ lwis_process_transactions_in_queue \/ process_transaction
             \/ process_io_entries \/ process_continue \/ process_return \/ process_emit
      PROVE  queue' = queue
  BY <1>5 DEF worker_run, lwis_process_transactions_in_queue, process_transaction,
              process_io_entries, process_continue, process_return, process_emit, lists
<1> QED BY <1>1, <1>2, <1>3, <1>4, <1>5 DEF WorkerStep

\* Nothing but high-priority transactions is before the worker.
LEMMA OrderInvariance == Spec => [](IInv /\ OrderInv)
<1>1. ASSUME Init PROVE OrderInv BY <1>1 DEF Init, OrderInv
<1>2. ASSUME IInv, OrderInv, [Next]_vars PROVE OrderInv'
  BY <1>2, OthersOrWorker, OthersKeepOrder, WorkerKeepsOrder
<1> QED BY <1>1, <1>2, Invariance, PTL DEF Spec

\* QueueOrder for every client: lwis_process_transactions_in_queue executes transactions in the
\* order in which add_transaction_to_queue_locked put them in the queue, high-priority ones apart,
\* whatever events, fences, submissions and flushes do while it has dropped the lock.
THEOREM QueueOrderKept == Spec => QueueOrder
<1> DEFINE Step ==
      \/ \E o \in Object : queue' = IF HighPriority(o)' THEN list_add(queue, o) ELSE Append(queue, o)
      \/ \E i \in DOMAIN queue :
           queue' = RemoveAt(queue, i) /\ \A j \in 1..i - 1 : HighPriority(queue[j])
      \/ flush.pc = "queue" /\ queue' = <<>>
<1>1. ASSUME IInv, OrderInv, [Next]_vars PROVE [Step]_queue
  <2>1. DOMAIN queue = 1..Len(queue) BY <1>1, LenProperties DEF IInv, TypeInv
  <2>2. CASE Others
    <3>1. CASE \E o \in Object : Grows(o) BY <3>1 DEF Grows, HighPriority
    <3> QED BY <2>2, <3>1 DEF Others, QueueGrows
  <2>3. CASE WorkerStep BY <1>1, <2>1, <2>3, WorkerTakes
  <2> QED BY <1>1, <2>2, <2>3, OthersOrWorker
<1>2. QueueOrder <=> [][Step]_queue BY DEF QueueOrder
<1> HIDE DEF Step
<1> QED BY <1>1, <1>2, OrderInvariance, PTL DEF Spec

-----------------------------------------------------------------------------
(* What a flush leaves behind, for a client that does not submit while it is *)
(* flushed or disabled                                                       *)

\* Lists that are empty stay empty: what enters the queue comes from one of them.
LEMMA EmptyStays ==
    ASSUME FlushInv, UNCHANGED <<is_enabled, flush_state>>, flush'.pc = flush.pc,
           event_list' = event_list \/ event_list # <<>>,
           submitter' \in {submitter, None},
           pending' \subseteq pending \/ submitter # None,
           queue' = queue \/ queue # <<>> \/ event_list # <<>> \/ pending # {}
    PROVE  FlushInv'
BY DEF FlushInv

\* A handler takes from the list of its event.
LEMMA FlushedEvent ==
    ASSUME IInv, FlushInv, NEW h \in Handler, EventStep(h)
    PROVE  FlushInv'
<1> USE DEF IInv
<1>1. UNCHANGED <<is_enabled, flush_state, flush, submitter, pending>>
  BY DEF EventStep, lwis_transaction_event_trigger, event_trigger_cancelled, event_trigger_next,
         event_trigger_every, event_context_processed, event_trigger_resume,
         event_trigger_unlock, event_trigger_kick, lists
<1>2. ASSUME \/ event_trigger_cancelled(h) \/ event_trigger_next(h) \/ event_trigger_every(h)
      PROVE  event_list # <<>>
  <2>1. In(handler[h].it, event_list)
    BY <1>2 DEF event_trigger_cancelled, event_trigger_next, event_trigger_every, OnList
  <2> QED BY <2>1, EmptyList DEF In
<1>3. ASSUME \/ lwis_transaction_event_trigger(h) \/ event_context_processed(h)
             \/ event_trigger_resume(h) \/ event_trigger_unlock(h) \/ event_trigger_kick(h)
      PROVE  UNCHANGED <<event_list, queue>>
  BY <1>3 DEF lwis_transaction_event_trigger, event_context_processed, event_trigger_resume,
              event_trigger_unlock, event_trigger_kick, lists
<1> QED BY <1>1, <1>2, <1>3, EmptyStays DEF EventStep

\* A fence takes from the pending ones.
LEMMA FlushedFence ==
    ASSUME FlushInv, NEW f \in Fence, FenceStep(f)
    PROVE  FlushInv'
<1>1. UNCHANGED <<is_enabled, flush_state, flush, submitter, event_list>>
  BY DEF FenceStep, lwis_fence_write_status, fence_signal_transaction_cb,
         lwis_transaction_fence_trigger, fence_trigger_kick, fence_signal_unlock, lists
<1>2. pending' \subseteq pending /\ (queue' = queue \/ pending # {})
  <2>1. CASE lwis_transaction_fence_trigger(f)
    <3>1. pending' \subseteq pending BY <2>1 DEF lwis_transaction_fence_trigger
    <3>2. queue' = queue \/ pending # {}
      <4>1. CASE fence[f].calling \in pending BY <4>1
      <4>2. CASE fence[f].calling \notin pending
        BY <2>1, <4>2 DEF lwis_transaction_fence_trigger
      <4> QED BY <4>1, <4>2
    <3> QED BY <3>1, <3>2
  <2>2. CASE ~lwis_transaction_fence_trigger(f)
    BY <2>2 DEF FenceStep, lwis_fence_write_status, fence_signal_transaction_cb,
                fence_trigger_kick, fence_signal_unlock, lists
  <2> QED BY <2>1, <2>2
<1> QED BY <1>1, <1>2, EmptyStays

\* What the worker shares with the others and does not change.
LEMMA WorkerLeaves ==
    ASSUME TypeInv, WorkerStep
    PROVE  /\ flush'.pc = flush.pc
           /\ UNCHANGED <<is_enabled, flush_state, submitter, event_list, pending, handler, fence>>
           /\ work_queued' = work_queued \/ worker_run \/ work_queued'
<1>1. CASE process_emit \/ (process_return /\ worker.it # None)
  BY <1>1, RunEndsEffect DEF process_emit, process_return, lists
<1>2. CASE process_return /\ worker.it = None BY <1>2 DEF process_return, lists
<1>3. CASE \/ lwis_process_transactions_in_queue \/ process_cancelled \/ process_transaction
           \/ process_io_entries \/ process_continue
  BY <1>3 DEF lwis_process_transactions_in_queue, process_cancelled, process_transaction,
              process_io_entries, process_continue, lists
<1>4. CASE worker_run BY <1>4 DEF worker_run, lists
<1>5. CASE process_transaction_finish BY <1>5 DEF process_transaction_finish
<1>6. CASE process_broken_transaction BY <1>6 DEF process_broken_transaction
<1> QED BY <1>1, <1>2, <1>3, <1>4, <1>5, <1>6 DEF WorkerStep

\* The worker only takes from the queue.
LEMMA FlushedWorker ==
    ASSUME IInv, OrderInv, FlushInv, WorkerStep
    PROVE  FlushInv'
<1>1. ASSUME queue = <<>> PROVE queue' = queue
  <2>1. 1..Len(queue) = {} BY <1>1
  <2> QED BY <2>1, WorkerTakes
<1> QED BY <1>1, WorkerLeaves, EmptyStays DEF IInv

\* The flush empties the list of events, the pending ones and the queue, one after the other.
LEMMA FlushedFlush ==
    ASSUME IInv, FlushInv, FlushStep
    PROVE  FlushInv'
<1> USE DEF IInv
<1>1. flush \in FlushType BY DEF TypeInv
<1>2. CASE cmd_device_disable \/ cmd_device_reset
  <2>1. flush.pc = "none" /\ UNCHANGED <<is_enabled, lists, submitter, flush_state>>
    BY <1>2 DEF cmd_device_disable, cmd_device_reset, Idle
  <2>2. flush'.pc = "lists" BY <1>1, <1>2 DEF cmd_device_disable, cmd_device_reset, FlushType
  <2> QED BY <2>1, <2>2 DEF FlushInv, lists
<1>3. CASE lwis_transaction_client_flush
  <2>1. /\ flush.pc = "lists" /\ lock = "free" /\ event_list' = <<>>
        /\ UNCHANGED <<is_enabled, pending, queue, submitter, flush_state>>
    BY <1>3 DEF lwis_transaction_client_flush
  <2>2. flush'.pc = "pending" BY <1>1, <1>3 DEF lwis_transaction_client_flush, FlushType
  <2>3. submitter = None BY <2>1, LockFree
  <2> QED BY <2>1, <2>2, <2>3 DEF FlushInv
<1>4. CASE flush_pending
  <2>1. /\ pending' \subseteq pending
        /\ UNCHANGED <<is_enabled, event_list, queue, submitter, flush, flush_state>>
    BY <1>4 DEF flush_pending
  <2> QED BY <2>1, EmptyStays
<1>5. CASE flush_unlock
  <2>1. /\ flush.pc = "pending" /\ pending = {}
        /\ UNCHANGED <<is_enabled, lists, submitter, flush_state>>
    BY <1>5 DEF flush_unlock
  <2>2. flush'.pc = "mark" BY <1>1, <1>5 DEF flush_unlock, FlushType
  <2> QED BY <2>1, <2>2 DEF FlushInv, lists
<1>6. CASE flush_mark \/ lwis_flush_device_worker \/ flush_unmark
  <2>1. UNCHANGED <<is_enabled, lists, submitter>>
    BY <1>6 DEF flush_mark, lwis_flush_device_worker, flush_unmark
  <2>2. /\ flush.pc \in {"mark", "enqueue", "wait"}
        /\ \/ flush'.pc \in {"enqueue", "wait"}
           \/ flush'.pc = "queue" /\ flush_state' = "NOT_FLUSHING"
    <3>1. CASE flush_mark BY <1>1, <3>1 DEF flush_mark, FlushType
    <3>2. CASE lwis_flush_device_worker BY <1>1, <3>2 DEF lwis_flush_device_worker, FlushType
    <3>3. CASE flush_unmark BY <1>1, <3>3 DEF flush_unmark, FlushType
    <3> QED BY <1>6, <3>1, <3>2, <3>3
  <2> QED BY <2>1, <2>2 DEF FlushInv, lists
<1>7. CASE cancel_all_transactions_in_queue_locked
  <2>1. /\ flush.pc = "queue" /\ queue' = <<>>
        /\ UNCHANGED <<is_enabled, event_list, pending, submitter, flush_state>>
    BY <1>7 DEF cancel_all_transactions_in_queue_locked
  <2>2. flush'.pc \in {"cleanup", "none"}
    BY <1>1, <1>7 DEF cancel_all_transactions_in_queue_locked, FlushType
  <2> QED BY <2>1, <2>2 DEF FlushInv
<1>8. CASE lwis_transaction_client_cleanup \/ cleanup_processed
  <2>1. UNCHANGED <<is_enabled, event_list, pending, queue, submitter, flush_state>>
    BY <1>8 DEF lwis_transaction_client_cleanup, cleanup_processed, lists
  <2>2. flush.pc \in {"cleanup", "cleanup_io"} /\ flush'.pc \in {"cleanup", "cleanup_io"}
    <3>1. CASE lwis_transaction_client_cleanup /\ flush' = flush
      BY <3>1 DEF lwis_transaction_client_cleanup
    <3>2. CASE lwis_transaction_client_cleanup /\ flush' # flush
      BY <1>1, <3>2 DEF lwis_transaction_client_cleanup, FlushType
    <3>3. CASE cleanup_processed BY <1>1, <3>3 DEF cleanup_processed, FlushType
    <3> QED BY <1>8, <3>1, <3>2, <3>3
  <2> QED BY <2>1, <2>2 DEF FlushInv
<1>9. CASE disable_power
  <2>1. flush.pc = "cleanup" /\ UNCHANGED <<lists, submitter, flush_state>>
    BY <1>9 DEF disable_power
  <2>2. flush'.pc = "none" BY <1>1, <1>9 DEF disable_power, FlushType
  <2> QED BY <2>1, <2>2 DEF FlushInv, lists
<1> QED BY <1>2, <1>3, <1>4, <1>5, <1>6, <1>7, <1>8, <1>9 DEF FlushStep

\* Every step, when user space submits to an enabled client only.
LEMMA FlushedStays ==
    ASSUME IInv, OrderInv, FlushInv, AnyTime = FALSE, [Next]_vars
    PROVE  FlushInv'
<1>1. CASE UNCHANGED vars BY <1>1 DEF vars, FlushInv
<1>2. CASE cmd_device_enable
  <2>1. is_enabled' = TRUE /\ UNCHANGED <<lists, submitter, flush, flush_state>>
    BY <1>2 DEF cmd_device_enable
  <2> QED BY <2>1 DEF FlushInv, lists
<1>3. ASSUME NEW t \in Transaction, lwis_transaction_submit(t) PROVE FlushInv'
  <2>1. is_enabled /\ flush.pc = "none" /\ UNCHANGED <<is_enabled, flush, flush_state>>
    BY <1>3 DEF lwis_transaction_submit, Idle
  <2> QED BY <2>1 DEF FlushInv
<1>4. ASSUME NEW t \in Transaction, lwis_transaction_cancel(t) PROVE FlushInv'
  <2>1. UNCHANGED <<is_enabled, lists, submitter, flush, flush_state>>
    BY <1>4 DEF lwis_transaction_cancel
  <2> QED BY <2>1, EmptyStays DEF lists
<1>5. CASE trigger_fence_add_transaction
  <2>1. /\ submitter # None /\ submitter' = None
        /\ UNCHANGED <<is_enabled, event_list, queue, flush, flush_state>>
    BY <1>5 DEF trigger_fence_add_transaction
  <2> QED BY <2>1, EmptyStays
<1> QED BY <1>1, <1>2, <1>3, <1>4, <1>5, FlushedEvent, FlushedFence, FlushedWorker, FlushedFlush
        DEF Next

-----------------------------------------------------------------------------
(* What is queued is served *)

\* Who adds to the queue sees to it.
LEMMA OthersKeepServed ==
    ASSUME ServeInv, Others
    PROVE  ServeInv'
<1>1. worker' = worker /\ KickKept BY DEF Others
<1>2. ASSUME queue = <<>> \/ Kicked PROVE queue' = <<>> \/ Kicked' BY <1>1, <1>2 DEF KickKept
<1>3. ASSUME worker.pc \in {"io", "finish"}, worker.next = None, In(worker.it, queue')
      PROVE  Len(queue') = 1 \/ Kicked'
  <2>1. queue' # <<>> BY <1>3, EmptyList DEF In
  <2>2. CASE queue' = queue BY <1>1, <1>3, <2>1, <2>2 DEF ServeInv, KickKept
  <2>3. CASE queue' # queue BY <1>1, <2>1, <2>3 DEF KickKept
  <2> QED BY <2>2, <2>3
<1>4. (worker.pc \in {"io", "finish"} /\ worker.next = None /\ In(worker.it, queue))' =>
        (Len(queue) = 1 \/ Kicked)'
  BY <1>1, <1>3 DEF In
<1>5. ASSUME NEW x, AtHead(x) PROVE x \in ToSet(queue') => x = queue'[1] \/ Kicked'
  <2>1. ASSUME x \in ToSet(queue') PROVE queue' # <<>> BY <2>1, EmptyList
  <2>2. CASE queue' = queue BY <1>1, <1>5, <2>1, <2>2 DEF AtHead, KickKept, In
  <2>3. CASE queue' # queue BY <1>1, <2>1, <2>3 DEF KickKept
  <2> QED BY <2>2, <2>3
<1>6. /\ AtHead(worker.it) => AtHead(worker.it)'
      /\ AtHead(worker.next) => AtHead(worker.next)'
  BY <1>1, <1>5 DEF AtHead, In
<1> QED BY <1>1, <1>2, <1>4, <1>6 DEF ServeInv

\* The worker goes on to the end of the queue, or somebody will queue it again.
LEMMA WorkerKeepsServed ==
    ASSUME IInv, OrderInv, FlushInv, ServeInv, WorkerStep
    PROVE  ServeInv'
<1> USE DEF IInv
<1>1. /\ worker \in WorkerType /\ queue \in Seq(Object) /\ None \notin Object
      /\ OnQueue \subseteq Object /\ IsInjective(queue)
  BY PlacesType DEF TypeInv, ListInv
<1>2. Kicked /\ ~worker_run => Kicked' BY WorkerLeaves DEF Kicked
<1>3. ASSUME worker'.pc = "start" PROVE ServeInv' BY <1>3 DEF ServeInv
<1>4. ASSUME worker'.pc \in {"scan", "after", "idle", "emit"}, queue' = <<>> \/ Kicked'
      PROVE  ServeInv'
  <2>1. queue' = <<>> => ToSet(queue') = {} BY EmptyList
  <2> QED BY <1>4, <2>1 DEF ServeInv, AtHead, In
<1>5. CASE worker_run
  <2>1. worker'.pc = "start" BY <1>1, <1>5 DEF worker_run, WorkerType
  <2> QED BY <1>3, <2>1
<1>6. CASE lwis_process_transactions_in_queue
  <2>1. worker'.pc = "scan" /\ worker'.it = First(queue) /\ queue' = queue
    BY <1>1, <1>6 DEF lwis_process_transactions_in_queue, WorkerType, lists
  <2>2. First(queue) = None => queue = <<>> BY <1>1, FirstOfList, SetOfList
  <2>3. AtHead(worker.it)' BY <2>1, EmptyList DEF AtHead, In, First
  <2> QED BY <2>1, <2>2, <2>3 DEF ServeInv
<1>7. CASE Kicked /\ ~worker_run
  <2>1. Kicked' BY <1>2, <1>7
  <2> QED BY <2>1 DEF ServeInv, AtHead
<1>8. CASE process_cancelled /\ ~Kicked
  <2>1. /\ worker.pc = "scan" /\ worker.it \in OnQueue /\ queue' = list_del(queue, worker.it)
        /\ worker'.pc = "scan" /\ worker'.it = Next_(queue, worker.it)
    BY <1>1, <1>8 DEF process_cancelled, OnList, In, OnQueue, WorkerType
  <2>2. worker.it = queue[1] BY <1>8, <2>1 DEF ServeInv, AtHead, In, OnQueue
  <2>3. queue' = Tail(queue) /\ worker'.it = (IF Len(queue) = 1 THEN None ELSE queue[2])
        /\ queue # <<>>
    BY <2>1, <2>2, WorkerAtHead
  <2>4. CASE Len(queue) = 1
    <3>1. queue' = <<>> BY <1>1, <2>3, <2>4, RestOfList
    <3> QED BY <1>4, <2>1, <3>1
  <2>5. CASE Len(queue) # 1
    <3>1. queue[2] \in Object /\ worker'.it = queue'[1]
      BY <1>1, <2>3, <2>5, RestOfList, SetOfList
    <3> QED BY <1>1, <2>1, <2>3, <2>5, <3>1 DEF ServeInv, AtHead
  <2> QED BY <2>4, <2>5
<1>9. CASE process_transaction /\ ~Kicked
  <2>1. /\ worker.pc = "scan" /\ worker.it \in OnQueue /\ queue' = queue
        /\ worker'.pc = "io" /\ worker'.it = worker.it /\ worker'.next = Next_(queue, worker.it)
    BY <1>1, <1>9 DEF process_transaction, OnList, In, OnQueue, WorkerType, lists
  <2>2. worker.it = queue[1] BY <1>9, <2>1 DEF ServeInv, AtHead, In, OnQueue
  <2>3. worker'.next = (IF Len(queue) = 1 THEN None ELSE queue[2]) /\ queue # <<>>
    BY <2>1, <2>2, WorkerAtHead
  <2>4. worker'.next = None => Len(queue') = 1
    <3>1. CASE Len(queue) # 1
      <4>1. queue[2] \in Object BY <1>1, <2>3, <3>1, RestOfList, SetOfList
      <4> QED BY <1>1, <2>3, <3>1, <4>1
    <3> QED BY <2>1, <3>1
  <2> QED BY <2>1, <2>2, <2>4 DEF ServeInv, AtHead
<1>10. CASE process_io_entries /\ ~Kicked
  <2>1. /\ worker.pc = "io" /\ UNCHANGED queue
        /\ worker'.pc = "finish" /\ worker'.it = worker.it /\ worker'.next = worker.next
    BY <1>1, <1>10 DEF process_io_entries, WorkerType, lists
  <2> QED BY <1>10, <2>1 DEF ServeInv, AtHead, In
<1>11. CASE process_transaction_finish /\ ~Kicked
  <2> DEFINE o == worker.it
  <2>1. worker.pc = "finish" /\ o \in OnQueue /\ o # None
    BY <1>1, <1>11 DEF process_transaction_finish, OnList, In, OnQueue
  <2>2. o = queue[1] BY <1>11, <2>1 DEF ServeInv, AtHead, In, OnQueue
  <2>3. queue # <<>> /\ list_del(queue, o) = Tail(queue) BY <2>1, <2>2, WorkerAtHead
  <2>4. \/ worker' = [worker EXCEPT !.pc = "after"] /\ queue' = queue
        \/ /\ queue' = list_del(queue, o)
           /\ worker' = [worker EXCEPT !.pc = "after", !.it = None,
                                       !.fences = @ \cup OwnFences({o})]
    BY <1>11 DEF process_transaction_finish
  <2>5. CASE worker' = [worker EXCEPT !.pc = "after"] /\ queue' = queue
    <3>1. worker'.pc = "after" /\ worker'.it = o BY <1>1, <2>5 DEF WorkerType
    <3> QED BY <2>1, <2>2, <2>5, <3>1 DEF ServeInv, AtHead
  <2>6. CASE /\ queue' = list_del(queue, o)
             /\ worker' = [worker EXCEPT !.pc = "after", !.it = None,
                                         !.fences = @ \cup OwnFences({o})]
    <3>1. worker'.pc = "after" /\ worker'.it = None /\ worker'.next = worker.next
      BY <1>1, <2>6 DEF WorkerType
    <3>2. CASE worker.next = None
      <4>1. Len(queue) = 1 BY <1>11, <2>1, <3>2 DEF ServeInv, In, OnQueue
      <4>2. queue' = <<>> BY <1>1, <2>3, <2>6, <4>1, RestOfList
      <4> QED BY <1>4, <3>1, <4>2
    <3>3. CASE worker.next # None
      <4>1. PICK i \in 1..Len(queue) - 1 : queue[i] = o /\ queue[i + 1] = worker.next
        BY <2>1, <3>3 DEF OrderInv, Follows, In, OnQueue
      <4>2. Len(queue) \in Nat BY <1>1, LenProperties
      <4>3. i \in 1..Len(queue) /\ 1 \in 1..Len(queue) /\ Len(queue) # 1 BY <4>1, <4>2
      <4>4. i = 1 BY <1>1, <2>2, <4>1, <4>3, InjectiveList
      <4>5. worker.next = queue'[1] BY <1>1, <2>3, <2>6, <4>1, <4>3, <4>4, RestOfList
      <4>6. None \notin ToSet(queue')
        <5>1. queue' \in Seq(Object) BY <1>1, <2>3, <2>6, RestOfList
        <5> QED BY <1>1, <5>1, SetOfList
      <4> QED BY <3>1, <3>3, <4>5, <4>6 DEF ServeInv, AtHead, In
    <3> QED BY <3>2, <3>3
  <2> QED BY <2>4, <2>5, <2>6
<1>12. CASE process_broken_transaction
  <2>1. worker'.pc = "emit" /\ ~worker_run
    BY <1>1, <1>12 DEF process_broken_transaction, WorkerType, worker_run
  <2>2. Kicked'
    <3>1. CASE flush_state = "NOT_FLUSHING"
      BY <1>12, <3>1 DEF process_broken_transaction, Kicked
    <3>2. CASE flush_state # "NOT_FLUSHING"
      <4>1. flush.pc \in {"enqueue", "wait"} BY <3>2 DEF FlushInv, TypeInv
      <4> QED BY <1>2, <2>1, <4>1 DEF Kicked
    <3> QED BY <3>1, <3>2
  <2> QED BY <1>4, <2>1, <2>2
<1>13. CASE process_continue
  <2>1. /\ worker.pc = "after" /\ worker.it = None /\ UNCHANGED queue /\ ~worker_run
        /\ worker'.pc = "scan" /\ worker'.it = worker.next
    BY <1>1, <1>13 DEF process_continue, worker_run, WorkerType, lists
  <2> QED BY <1>2, <2>1 DEF ServeInv, AtHead, In
<1>14. CASE process_return
  <2>1. worker.pc = "scan" /\ UNCHANGED queue /\ ~worker_run
    BY <1>14 DEF process_return, worker_run, lists
  <2>2. worker'.pc \in {"idle", "emit"} BY <1>1, <1>14 DEF process_return, WorkerType
  <2>3. queue = <<>> \/ Kicked
    <3>1. CASE worker.it = None BY <2>1, <3>1 DEF ServeInv
    <3>2. CASE worker.it # None BY <1>14, <3>2 DEF process_return, FlushInv
    <3> QED BY <3>1, <3>2
  <2> QED BY <1>2, <1>4, <2>1, <2>2, <2>3
<1>15. CASE process_emit
  <2>1. worker.pc = "emit" /\ UNCHANGED queue /\ ~worker_run /\ worker'.pc = "idle"
    BY <1>1, <1>15 DEF process_emit, worker_run, WorkerType, lists
  <2>2. queue = <<>> \/ Kicked BY <2>1 DEF ServeInv
  <2> QED BY <1>2, <1>4, <2>1, <2>2
<1> QED BY <1>5, <1>6, <1>7, <1>8, <1>9, <1>10, <1>11, <1>12, <1>13, <1>14, <1>15
        DEF WorkerStep

\* QueuedIsServed for every client that submits only while it is enabled and not being flushed:
\* what is in the queue has the worker, or somebody who will queue the worker, although most of
\* the code that appends does not and the worker stops at its limit.
THEOREM QueuedServed == AnyTime = FALSE => (Spec => []QueuedIsServed)
<1> SUFFICES ASSUME AnyTime = FALSE PROVE Spec => []QueuedIsServed OBVIOUS
<1>1. ASSUME Init PROVE FlushInv /\ ServeInv
  BY <1>1 DEF Init, FlushInv, ServeInv
<1>2. ASSUME IInv, OrderInv, FlushInv, ServeInv, [Next]_vars PROVE FlushInv' /\ ServeInv'
  BY <1>2, FlushedStays, OthersOrWorker, OthersKeepServed, WorkerKeepsServed
<1>3. ASSUME IInv, ServeInv PROVE QueuedIsServed
  <2>1. worker.pc \in {"idle", "start", "scan", "io", "finish", "after", "emit"}
    BY <1>3 DEF IInv, TypeInv, WorkerType
  <2> QED BY <1>3, <2>1 DEF QueuedIsServed, ServeInv, Served, Kicked
<1> QED BY <1>1, <1>2, <1>3, OrderInvariance, PTL DEF Spec

-----------------------------------------------------------------------------
(* A client that submits only immediate and cleanup transactions, and those  *)
(* only while it is enabled and not being flushed: every run of its worker   *)
(* is queued before the flush begins, so that the flush waits for it.        *)

QuietClient == \A t \in Transaction : \A info \in Infos[t] : info.trigger \in {"none", "cleanup"}

\* No event and no fence has anything to trigger.
QuietInv ==
    /\ event_list = <<>> /\ pending = {} /\ submitter = None
    /\ \A h \in Handler : handler[h].pc = "idle"
    /\ \A f \in Fence : fence[f].callbacks = {} /\ fence[f].calling = None /\ ~fence[f].kick

Runs == (IF worker.pc = "idle" THEN 0 ELSE 1) + (IF work_queued THEN 1 ELSE 0)

\* The flush counts every run there is, and there is none once it has waited.
RunsInv ==
    /\ flush.pc \in {"enqueue", "wait"} => flush_state = "FLUSHING"
    /\ flush.pc = "wait" => flush.runs = Runs
    /\ flush.pc \in {"queue", "cleanup", "cleanup_io", "power"} =>
         worker.pc = "idle" /\ ~work_queued

\* What the worker holds is in the queue.
HeldInv ==
    /\ worker.pc \in {"scan", "io", "finish", "after"} =>
         worker.it = None \/ worker.it \in OnQueue
    /\ worker.pc \in {"io", "finish", "after"} => worker.next = None \/ worker.next \in OnQueue

\* Only submission, the worker and the flush do anything to such a client.
LEMMA QuietStep ==
    ASSUME IInv, QuietInv, QuietClient, [Next]_vars
    PROVE  /\ QuietInv'
           /\ \/ UNCHANGED <<queue, work_queued, worker, flush, flush_state, answer>>
              \/ \E t \in Transaction : lwis_transaction_submit(t)
              \/ WorkerStep
              \/ FlushStep
<1> USE DEF IInv
<1> DEFINE Same == UNCHANGED <<queue, work_queued, worker, flush, flush_state, answer>>
<1>1. ASSUME UNCHANGED <<event_list, pending, submitter, handler, fence>> PROVE QuietInv'
  BY <1>1 DEF QuietInv
<1>2. CASE UNCHANGED vars \/ cmd_device_enable
  <2>1. UNCHANGED <<event_list, pending, submitter, handler, fence>> /\ Same
    BY <1>2 DEF vars, cmd_device_enable, lists
  <2> QED BY <1>1, <2>1
<1>3. ASSUME NEW t \in Transaction, lwis_transaction_submit(t) PROVE QuietInv'
  <2>1. PICK info \in Infos[t] :
          /\ submitter' = (IF info.trigger = "fence" THEN t ELSE submitter)
          /\ event_list' = (IF info.trigger \in {"next", "every"} THEN Append(event_list, t)
                            ELSE event_list)
    BY <1>3 DEF lwis_transaction_submit
  <2>2. info.trigger \in {"none", "cleanup"} BY DEF QuietClient
  <2>3. UNCHANGED <<pending, handler, fence>> BY <1>3 DEF lwis_transaction_submit
  <2> QED BY <1>1, <2>1, <2>2, <2>3
<1>4. ASSUME NEW t \in Transaction, lwis_transaction_cancel(t) PROVE QuietInv' /\ Same
  <2>1. UNCHANGED <<event_list, pending, submitter, handler, fence>> /\ Same
    BY <1>4 DEF lwis_transaction_cancel, lists
  <2> QED BY <1>1, <2>1
<1>5. CASE trigger_fence_add_transaction BY <1>5 DEF trigger_fence_add_transaction, QuietInv
<1>6. ASSUME NEW h \in Handler, EventStep(h) PROVE FALSE
  <2>1. handler[h].pc = "idle" /\ event_list = <<>> BY DEF QuietInv
  <2> QED BY <1>6, <2>1
          DEF EventStep, lwis_transaction_event_trigger, event_trigger_cancelled,
              event_trigger_next, event_trigger_every, event_context_processed,
              event_trigger_resume, event_trigger_unlock, event_trigger_kick
<1>7. ASSUME NEW f \in Fence, FenceStep(f) PROVE QuietInv' /\ Same
  <2>1. fence \in [Fence -> FenceType] BY DEF TypeInv
  <2>2. fence[f].callbacks = {} /\ fence[f].calling = None /\ ~fence[f].kick BY DEF QuietInv
  <2>3. lwis_fence_write_status(f) \/ fence_signal_unlock(f)
    BY <1>7, <2>2 DEF FenceStep, fence_signal_transaction_cb, lwis_transaction_fence_trigger,
                      fence_trigger_kick
  <2>4. UNCHANGED <<event_list, pending, submitter, handler>> /\ Same
    BY <2>3 DEF lwis_fence_write_status, fence_signal_unlock, lists
  <2>5. \A g \in Fence : /\ fence'[g].callbacks = fence[g].callbacks
                         /\ fence'[g].calling = fence[g].calling /\ fence'[g].kick = fence[g].kick
    <3>1. CASE lwis_fence_write_status(f)
      <4>1. PICK x \in {"signaled", "error"} :
              fence' = [fence EXCEPT ![f].status = x, ![f].locked = TRUE]
        BY <3>1 DEF lwis_fence_write_status
      <4> QED BY <2>1, <4>1 DEF FenceType
    <3>2. CASE fence_signal_unlock(f) BY <2>1, <3>2 DEF fence_signal_unlock, FenceType
    <3> QED BY <2>3, <3>1, <3>2
  <2>6. QuietInv' BY <2>4, <2>5 DEF QuietInv
  <2> QED BY <2>4, <2>6
<1>8. CASE WorkerStep BY <1>1, <1>8, WorkerLeaves
<1>9. CASE FlushStep
  <2>1. ~flush_pending BY DEF flush_pending, QuietInv
  <2>2. CASE lwis_transaction_client_flush
    <3>1. event_list' = <<>> /\ UNCHANGED <<pending, submitter, handler, fence>>
      BY <2>2 DEF lwis_transaction_client_flush
    <3> QED BY <1>9, <3>1 DEF QuietInv
  <2>3. CASE ~lwis_transaction_client_flush
    <3>1. UNCHANGED <<event_list, pending, submitter, handler, fence>>
      BY <1>9, <2>1, <2>3
      DEF FlushStep, cmd_device_disable, cmd_device_reset, flush_unlock, flush_mark,
          lwis_flush_device_worker, flush_unmark, cancel_all_transactions_in_queue_locked,
          lwis_transaction_client_cleanup, cleanup_processed, disable_power, lists
    <3> QED BY <1>1, <1>9, <3>1
  <2> QED BY <2>2, <2>3
<1> QED BY <1>2, <1>3, <1>4, <1>5, <1>6, <1>7, <1>8, <1>9 DEF Next

\* The worker ends one run at a time, and queues no other during a flush.
LEMMA RunsOfWorker ==
    ASSUME IInv, RunsInv, WorkerStep
    PROVE  RunsInv'
<1> USE DEF IInv
<1>1. worker \in WorkerType /\ flush \in FlushType BY DEF TypeInv
<1>2. flush'.pc = flush.pc /\ UNCHANGED flush_state BY WorkerLeaves
<1>3. CASE worker_run
  <2>1. worker.pc = "idle" /\ work_queued /\ ~work_queued' /\ UNCHANGED flush
    BY <1>3 DEF worker_run
  <2>2. worker'.pc = "start" BY <1>1, <1>3 DEF worker_run, WorkerType
  <2> QED BY <1>2, <2>1, <2>2 DEF RunsInv, Runs
<1>4. ASSUME worker.pc # "idle", worker'.pc # "idle", UNCHANGED <<work_queued, flush>>
      PROVE  RunsInv'
  BY <1>2, <1>4 DEF RunsInv, Runs
<1>5. CASE \/ lwis_process_transactions_in_queue \/ process_cancelled \/ process_transaction
           \/ process_io_entries \/ process_continue
  <2>1. UNCHANGED <<work_queued, flush>> /\ worker.pc # "idle"
    BY <1>5 DEF lwis_process_transactions_in_queue, process_cancelled, process_transaction,
                process_io_entries, process_continue
  <2>2. worker'.pc # "idle"
    BY <1>1, <1>5 DEF lwis_process_transactions_in_queue, process_cancelled, process_transaction,
                      process_io_entries, process_continue, WorkerType
  <2> QED BY <1>4, <2>1, <2>2
<1>6. CASE process_transaction_finish
  <2>1. UNCHANGED <<work_queued, flush>> /\ worker.pc # "idle"
    BY <1>6 DEF process_transaction_finish
  <2>2. worker'.pc = "after" BY <1>1, <1>6 DEF process_transaction_finish, WorkerType
  <2> QED BY <1>4, <2>1, <2>2
<1>7. CASE process_broken_transaction
  <2>1. worker.pc = "after" /\ UNCHANGED flush BY <1>7 DEF process_broken_transaction
  <2>2. worker'.pc = "emit" BY <1>1, <1>7 DEF process_broken_transaction, WorkerType
  <2>3. CASE flush_state = "NOT_FLUSHING" BY <1>2, <2>1, <2>2, <2>3 DEF RunsInv
  <2>4. CASE flush_state # "NOT_FLUSHING"
    <3>1. UNCHANGED work_queued BY <1>7, <2>4 DEF process_broken_transaction
    <3> QED BY <1>4, <2>1, <2>2, <3>1
  <2> QED BY <2>3, <2>4
<1>8. CASE process_return /\ worker.it = None
  <2>1. UNCHANGED <<work_queued, flush>> /\ worker.pc = "scan" BY <1>8 DEF process_return
  <2>2. worker'.pc = "emit" BY <1>1, <1>8 DEF process_return, WorkerType
  <2> QED BY <1>4, <2>1, <2>2
<1>9. CASE process_emit \/ (process_return /\ worker.it # None)
  <2>1. worker.pc # "idle" /\ UNCHANGED work_queued /\ RunEnds
    BY <1>9 DEF process_emit, process_return
  <2>2. worker'.pc = "idle" BY <1>1, <1>9 DEF process_emit, process_return, WorkerType
  <2>3. flush.pc \notin {"queue", "cleanup", "cleanup_io", "power"} BY <2>1 DEF RunsInv
  <2>4. ASSUME flush.pc = "wait" PROVE flush'.runs = Runs'
    <3>1. flush.runs = 1 + (IF work_queued THEN 1 ELSE 0) BY <2>1, <2>4 DEF RunsInv, Runs
    <3>2. flush' = [flush EXCEPT !.runs = IF flush.runs > 0 THEN flush.runs - 1 ELSE 0]
      BY <2>1 DEF RunEnds
    <3>3. flush'.runs = IF flush.runs > 0 THEN flush.runs - 1 ELSE 0
      BY <1>1, <3>2 DEF FlushType
    <3>4. flush'.runs = IF work_queued THEN 1 ELSE 0 BY <3>1, <3>3
    <3> QED BY <2>1, <2>2, <3>4 DEF Runs
  <2> QED BY <1>2, <2>3, <2>4 DEF RunsInv
<1> QED BY <1>3, <1>5, <1>6, <1>7, <1>8, <1>9 DEF WorkerStep

\* The flush goes on when the runs it has counted have ended.
LEMMA RunsOfFlush ==
    ASSUME IInv, RunsInv, FlushStep
    PROVE  RunsInv'
<1> USE DEF IInv
<1>1. flush \in FlushType /\ work_queued \in BOOLEAN BY DEF TypeInv
<1>2. UNCHANGED <<worker, work_queued>>
  BY DEF FlushStep, cmd_device_disable, cmd_device_reset, lwis_transaction_client_flush,
         flush_pending, flush_unlock, flush_mark, lwis_flush_device_worker, flush_unmark,
         cancel_all_transactions_in_queue_locked, lwis_transaction_client_cleanup,
         cleanup_processed, disable_power
<1>3. ASSUME flush'.pc \in {"none", "lists", "pending", "mark"} PROVE RunsInv'
  BY <1>3 DEF RunsInv
<1>4. CASE \/ cmd_device_disable \/ cmd_device_reset \/ lwis_transaction_client_flush
           \/ flush_unlock \/ disable_power
  <2>1. flush'.pc \in {"none", "lists", "pending", "mark"}
    BY <1>1, <1>4 DEF cmd_device_disable, cmd_device_reset, lwis_transaction_client_flush,
                      flush_unlock, disable_power, FlushType
  <2> QED BY <1>3, <2>1
<1>5. CASE flush_pending
  <2>1. flush'.pc = "pending" BY <1>5 DEF flush_pending
  <2> QED BY <1>3, <2>1
<1>6. CASE flush_mark
  <2>1. flush_state' = "FLUSHING" BY <1>6 DEF flush_mark
  <2>2. flush'.pc = "enqueue" BY <1>1, <1>6 DEF flush_mark, FlushType
  <2> QED BY <2>1, <2>2 DEF RunsInv
<1>7. CASE lwis_flush_device_worker
  <2>1. /\ flush.pc = "enqueue" /\ UNCHANGED flush_state
        /\ flush' = [flush EXCEPT !.pc = "wait", !.runs = Runs]
    BY <1>7 DEF lwis_flush_device_worker, Runs
  <2>2. flush'.pc = "wait" /\ flush'.runs = Runs BY <1>1, <2>1 DEF FlushType
  <2>3. Runs' = Runs BY <1>2 DEF Runs
  <2> QED BY <2>1, <2>2, <2>3 DEF RunsInv
<1>8. CASE flush_unmark
  <2>1. flush.pc = "wait" /\ flush.runs = 0 BY <1>8 DEF flush_unmark
  <2>2. flush'.pc = "queue" BY <1>1, <1>8 DEF flush_unmark, FlushType
  <2>3. worker.pc = "idle" /\ ~work_queued BY <2>1 DEF RunsInv, Runs
  <2> QED BY <1>2, <2>2, <2>3 DEF RunsInv
<1>9. CASE \/ cancel_all_transactions_in_queue_locked \/ lwis_transaction_client_cleanup
           \/ cleanup_processed
  <2>1. flush.pc \in {"queue", "cleanup", "cleanup_io"}
    BY <1>9 DEF cancel_all_transactions_in_queue_locked, lwis_transaction_client_cleanup,
                cleanup_processed
  <2>2. flush'.pc \in {"none", "cleanup", "cleanup_io"}
    <3>1. CASE cancel_all_transactions_in_queue_locked
      BY <1>1, <3>1 DEF cancel_all_transactions_in_queue_locked, FlushType
    <3>2. CASE lwis_transaction_client_cleanup /\ flush' = flush
      BY <3>2 DEF lwis_transaction_client_cleanup
    <3>3. CASE lwis_transaction_client_cleanup /\ flush' # flush
      BY <1>1, <3>3 DEF lwis_transaction_client_cleanup, FlushType
    <3>4. CASE cleanup_processed BY <1>1, <3>4 DEF cleanup_processed, FlushType
    <3> QED BY <1>9, <3>1, <3>2, <3>3, <3>4
  <2> QED BY <1>2, <2>1, <2>2 DEF RunsInv
<1> QED BY <1>4, <1>5, <1>6, <1>7, <1>8, <1>9 DEF FlushStep

\* The worker holds the first of the queue and the second.
LEMMA HeldByWorker ==
    ASSUME IInv, OrderInv, HeldInv, WorkerStep
    PROVE  HeldInv'
<1> USE DEF IInv
<1>1. worker \in WorkerType /\ queue \in Seq(Object) /\ IsInjective(queue)
  BY DEF TypeInv, ListInv
<1>2. ASSUME worker'.pc \in {"idle", "start", "emit"} PROVE HeldInv' BY <1>2 DEF HeldInv
<1>3. CASE worker_run \/ process_broken_transaction \/ process_emit \/ process_return
  <2>1. worker'.pc \in {"idle", "start", "emit"}
    BY <1>1, <1>3 DEF worker_run, process_broken_transaction, process_emit, process_return,
                      WorkerType
  <2> QED BY <1>2, <2>1
<1>4. CASE lwis_process_transactions_in_queue
  <2>1. worker'.pc = "scan" /\ worker'.it = First(queue) /\ queue' = queue
    BY <1>1, <1>4 DEF lwis_process_transactions_in_queue, WorkerType, lists
  <2>2. First(queue) = None \/ First(queue) \in ToSet(queue) BY <1>1, FirstOfList DEF First
  <2> QED BY <2>1, <2>2 DEF HeldInv, OnQueue
<1>5. ASSUME worker.pc \in {"scan", "finish"}, worker.it \in OnQueue
      PROVE  /\ ToSet(list_del(queue, worker.it)) = OnQueue \ {worker.it}
             /\ \/ Next_(queue, worker.it) = None
                \/ Next_(queue, worker.it) \in OnQueue \ {worker.it}
             /\ \A x : Follows(worker.it, x) => x \in OnQueue \ {worker.it}
  <2>1. ToSet(list_del(queue, worker.it)) = OnQueue \ {worker.it}
    BY <1>1, <1>5, DeletedNode DEF OnQueue
  <2>2. PICK p \in 1..Len(queue) :
             /\ queue[p] = worker.it
             /\ Next_(queue, worker.it) = IF p = Len(queue) THEN None ELSE queue[p + 1]
    BY <1>5, WorkerAt
  <2>3. Len(queue) \in Nat BY <1>1, LenProperties
  <2>4. ASSUME NEW i \in 1..Len(queue) - 1, queue[i] = worker.it
        PROVE  queue[i + 1] \in OnQueue \ {worker.it}
    <3>1. i \in 1..Len(queue) /\ i + 1 \in 1..Len(queue) /\ i + 1 # i BY <2>3
    <3>2. queue[i + 1] # queue[i] BY <1>1, <3>1, InjectiveList
    <3> QED BY <1>1, <2>4, <3>1, <3>2, SetOfList DEF OnQueue
  <2>5. p # Len(queue) => p \in 1..Len(queue) - 1 BY <2>2, <2>3
  <2> QED BY <2>1, <2>2, <2>4, <2>5 DEF Follows
<1>6. CASE process_cancelled
  <2>1. /\ worker.pc = "scan" /\ worker.it \in OnQueue /\ queue' = list_del(queue, worker.it)
        /\ worker'.pc = "scan" /\ worker'.it = Next_(queue, worker.it)
    BY <1>1, <1>6 DEF process_cancelled, OnList, In, OnQueue, WorkerType
  <2> QED BY <1>5, <2>1 DEF HeldInv, OnQueue
<1>7. CASE process_transaction
  <2>1. /\ worker.pc = "scan" /\ worker.it \in OnQueue /\ queue' = queue
        /\ worker'.pc = "io" /\ worker'.it = worker.it /\ worker'.next = Next_(queue, worker.it)
    BY <1>1, <1>7 DEF process_transaction, OnList, In, OnQueue, WorkerType, lists
  <2> QED BY <1>5, <2>1 DEF HeldInv, OnQueue
<1>8. CASE process_io_entries
  <2>1. /\ worker.pc = "io" /\ queue' = queue
        /\ worker'.pc = "finish" /\ worker'.it = worker.it /\ worker'.next = worker.next
    BY <1>1, <1>8 DEF process_io_entries, WorkerType, lists
  <2> QED BY <2>1 DEF HeldInv, OnQueue
<1>9. CASE process_transaction_finish
  <2> DEFINE o == worker.it
  <2>1. worker.pc = "finish" /\ o \in OnQueue
    BY <1>9 DEF process_transaction_finish, OnList, In, OnQueue
  <2>2. \/ queue' = queue /\ worker' = [worker EXCEPT !.pc = "after"]
        \/ /\ queue' = list_del(queue, o)
           /\ worker' = [worker EXCEPT !.pc = "after", !.it = None,
                                       !.fences = @ \cup OwnFences({o})]
    BY <1>9 DEF process_transaction_finish
  <2>3. CASE queue' = queue /\ worker' = [worker EXCEPT !.pc = "after"]
    <3>1. worker'.pc = "after" /\ worker'.it = o /\ worker'.next = worker.next
      BY <1>1, <2>3 DEF WorkerType
    <3> QED BY <2>1, <2>3, <3>1 DEF HeldInv, OnQueue
  <2>4. CASE /\ queue' = list_del(queue, o)
             /\ worker' = [worker EXCEPT !.pc = "after", !.it = None,
                                         !.fences = @ \cup OwnFences({o})]
    <3>1. worker'.pc = "after" /\ worker'.it = None /\ worker'.next = worker.next
      BY <1>1, <2>4 DEF WorkerType
    <3>2. worker.next # None => Follows(worker.it, worker.next)
      BY <2>1 DEF OrderInv, In, OnQueue
    <3>3. worker.next # None => worker.next \in ToSet(queue') BY <1>5, <2>1, <2>4, <3>2
    <3> QED BY <3>1, <3>3 DEF HeldInv, OnQueue
  <2> QED BY <2>2, <2>3, <2>4
<1>10. CASE process_continue
  <2>1. /\ worker.pc = "after" /\ queue' = queue /\ worker'.pc = "scan"
        /\ worker'.it = worker.next
    BY <1>1, <1>10 DEF process_continue, WorkerType, lists
  <2> QED BY <2>1 DEF HeldInv, OnQueue
<1> QED BY <1>3, <1>4, <1>6, <1>7, <1>8, <1>9, <1>10 DEF WorkerStep

\* A submission appends, and the flush empties the queue when there is no run.
LEMMA HeldByOthers ==
    ASSUME IInv, RunsInv, HeldInv, (\E t \in Transaction : lwis_transaction_submit(t)) \/ FlushStep
    PROVE  HeldInv'
<1> USE DEF IInv
<1>1. queue \in Seq(Object) /\ Transaction \subseteq Object BY PlacesType DEF TypeInv
<1>2. ASSUME NEW t \in Transaction, lwis_transaction_submit(t) PROVE HeldInv'
  <2>1. /\ worker' = worker
        /\ queue' = queue \/ \E info \in Infos[t] : add_transaction_to_queue_locked(t, info)
    BY <1>2 DEF lwis_transaction_submit
  <2>2. OnQueue \subseteq OnQueue'
    <3>1. CASE queue' = queue BY <3>1 DEF OnQueue
    <3>2. ASSUME NEW info \in Infos[t], add_transaction_to_queue_locked(t, info)
          PROVE  OnQueue \subseteq OnQueue'
      BY <1>1, <3>2, QueuedToList DEF OnQueue
    <3> QED BY <2>1, <3>1, <3>2
  <2> QED BY <2>1, <2>2 DEF HeldInv
<1>3. CASE cancel_all_transactions_in_queue_locked
  <2>1. flush.pc = "queue" /\ worker' = worker BY <1>3 DEF cancel_all_transactions_in_queue_locked
  <2>2. worker.pc = "idle" BY <2>1 DEF RunsInv
  <2> QED BY <2>1, <2>2 DEF HeldInv
<1>4. CASE FlushStep /\ ~cancel_all_transactions_in_queue_locked
  <2>1. UNCHANGED <<worker, queue>>
    BY <1>4 DEF FlushStep, cmd_device_disable, cmd_device_reset, lwis_transaction_client_flush,
                flush_pending, flush_unlock, flush_mark, lwis_flush_device_worker, flush_unmark,
                lwis_transaction_client_cleanup, cleanup_processed, disable_power, lists
  <2> QED BY <2>1 DEF HeldInv, OnQueue
<1> QED BY <1>2, <1>3, <1>4

\* The worker returns without answers only from a client that is disabled, whose queue is empty.
LEMMA AnswersKept ==
    ASSUME IInv, FlushInv, HeldInv, ExecutedIsSignaled,
           \/ answer' = answer
           \/ \E t \in Transaction : lwis_transaction_submit(t)
           \/ WorkerStep
           \/ FlushStep
    PROVE  ExecutedIsSignaled'
<1> USE DEF IInv
<1>1. ASSUME NEW S, answer' \in {answer, moved(S), released(S), signaled(S)}
      PROVE  ExecutedIsSignaled'
  BY <1>1 DEF ExecutedIsSignaled, moved, released, signaled
<1>2. CASE answer' = answer BY <1>2 DEF ExecutedIsSignaled
<1>3. ASSUME NEW t \in Transaction, lwis_transaction_submit(t) PROVE ExecutedIsSignaled'
  BY <1>2, <1>3 DEF lwis_transaction_submit
<1>4. CASE WorkerStep
  <2>1. CASE process_return
    <3>1. CASE worker.it = None BY <1>2, <2>1, <3>1 DEF process_return
    <3>2. CASE worker.it # None
      <4>1. worker.it \in OnQueue BY <2>1, <3>2 DEF process_return, HeldInv
      <4>2. queue = <<>> BY <2>1, <3>2 DEF process_return, FlushInv
      <4> QED BY <4>1, <4>2, EmptyList DEF OnQueue
    <3> QED BY <3>1, <3>2
  <2>2. CASE process_emit BY <1>1, <2>2 DEF process_emit
  <2>3. CASE process_cancelled BY <1>1, <2>3 DEF process_cancelled
  <2>4. CASE process_transaction_finish BY <1>1, <2>4 DEF process_transaction_finish
  <2>5. CASE process_broken_transaction BY <1>1, <2>5 DEF process_broken_transaction
  <2>6. CASE \/ worker_run \/ lwis_process_transactions_in_queue \/ process_transaction
             \/ process_io_entries \/ process_continue
    BY <1>2, <2>6 DEF worker_run, lwis_process_transactions_in_queue, process_transaction,
                      process_io_entries, process_continue
  <2> QED BY <1>4, <2>1, <2>2, <2>3, <2>4, <2>5, <2>6 DEF WorkerStep
<1>5. CASE FlushStep
  <2>1. CASE lwis_transaction_client_flush BY <1>1, <2>1 DEF lwis_transaction_client_flush
  <2>2. CASE flush_pending BY <1>1, <2>2 DEF flush_pending
  <2>3. CASE cancel_all_transactions_in_queue_locked
    BY <1>1, <2>3 DEF cancel_all_transactions_in_queue_locked
  <2>4. CASE lwis_transaction_client_cleanup BY <1>1, <2>4 DEF lwis_transaction_client_cleanup
  <2>5. CASE cleanup_processed BY <1>1, <2>5 DEF cleanup_processed
  <2>6. CASE \/ cmd_device_disable \/ cmd_device_reset \/ flush_unlock \/ flush_mark
             \/ lwis_flush_device_worker \/ flush_unmark \/ disable_power
    BY <1>2, <2>6 DEF cmd_device_disable, cmd_device_reset, flush_unlock, flush_mark,
                      lwis_flush_device_worker, flush_unmark, disable_power
  <2> QED BY <1>5, <2>1, <2>2, <2>3, <2>4, <2>5, <2>6 DEF FlushStep
<1> QED BY <1>2, <1>3, <1>4, <1>5

\* NoUseAfterFree and ExecutedIsSignaled for every quiet client: what the worker follows and
\* executes is still there, and it signals the completion fence of everything it has executed or
\* cancelled.  With events MCLwisTransactionFlush violates the first, and with a client that
\* submits during a flush MCLwisTransactionAny the second.
THEOREM QuietClientSafe ==
    QuietClient /\ AnyTime = FALSE => (Spec => [](NoUseAfterFree /\ ExecutedIsSignaled))
<1> SUFFICES ASSUME QuietClient, AnyTime = FALSE
             PROVE  Spec => [](NoUseAfterFree /\ ExecutedIsSignaled)
  OBVIOUS
<1> DEFINE Inv == FlushInv /\ QuietInv /\ RunsInv /\ HeldInv /\ ExecutedIsSignaled
<1>1. ASSUME Init PROVE Inv
  BY <1>1 DEF Init, FlushInv, QuietInv, RunsInv, HeldInv, ExecutedIsSignaled
<1>2. ASSUME IInv, OrderInv, Inv, [Next]_vars PROVE Inv'
  <2>1. FlushInv' BY <1>2, FlushedStays
  <2>2. /\ QuietInv'
        /\ \/ UNCHANGED <<queue, work_queued, worker, flush, flush_state, answer>>
           \/ \E t \in Transaction : lwis_transaction_submit(t)
           \/ WorkerStep
           \/ FlushStep
    BY <1>2, QuietStep
  <2>3. RunsInv'
    <3>1. CASE UNCHANGED <<work_queued, worker, flush, flush_state>>
      BY <1>2, <3>1 DEF RunsInv, Runs
    <3>2. ASSUME NEW t \in Transaction, lwis_transaction_submit(t) PROVE RunsInv'
      <4>1. flush.pc = "none" /\ flush' = flush BY <3>2 DEF lwis_transaction_submit, Idle
      <4> QED BY <4>1 DEF RunsInv
    <3> QED BY <1>2, <2>2, <3>1, <3>2, RunsOfWorker, RunsOfFlush
  <2>4. HeldInv'
    <3>1. CASE UNCHANGED <<queue, worker>> BY <1>2, <3>1 DEF HeldInv, OnQueue
    <3> QED BY <1>2, <2>2, <3>1, HeldByWorker, HeldByOthers
  <2>5. ExecutedIsSignaled' BY <1>2, <2>2, AnswersKept
  <2> QED BY <2>1, <2>2, <2>3, <2>4, <2>5
<1>3. ASSUME IInv, Inv PROVE NoUseAfterFree /\ ExecutedIsSignaled
  <2>1. OnQueue \subseteq LiveSet BY <1>3 DEF IInv, PlaceInv
  <2>2. \A h \in Handler : handler[h].pc = "idle" BY <1>3 DEF QuietInv
  <2>3. NoUseAfterFree
    BY <1>3, <2>1, <2>2 DEF NoUseAfterFree, HeldInv, OnList, In, OnQueue, LiveSet
  <2> QED BY <1>3, <2>3
<1> HIDE DEF Inv
<1> QED BY <1>1, <1>2, <1>3, OrderInvariance, PTL DEF Spec
=============================================================================
