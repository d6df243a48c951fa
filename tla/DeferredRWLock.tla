--------------------------- MODULE DeferredRWLock ---------------------------
(***************************************************************************)
(* deferred_rwlock (delete-me/deferred_rwlock.hpp): a readers/writer lock  *)
(* that never blocks.  A call that cannot have the lock leaves its request *)
(* in a queue and returns; the unlock that makes room returns the requests *)
(* it let in, one writer or a list of readers.                             *)
(*                                                                         *)
(* A thread has one request and uses it again for each call.  queue is the *)
(* list that starts at head and follows next; tail is a variable of its    *)
(* own, because the code may leave it behind.  A request that the list     *)
(* does not reach gets its next anew before the list can reach it, so no   *)
(* other next pointer matters.  Every operation runs between lock.lock()   *)
(* and lock.unlock() of a simple_spinlock and is one step; what a caller   *)
(* does before an unlock, leaving the section, is a step of its own.       *)
(***************************************************************************)
EXTENDS Integers, Sequences, FiniteSets

CONSTANTS Threads,  \* the threads that use the lock
          NULL      \* no request

ASSUME ThreadsAssumption == NULL \notin Threads /\ IsFiniteSet(Threads)

VARIABLES queue,         \* the requests from head on
          tail,          \* where insert_queue appends
          lockclass,     \* lockclass[t]: what t's request asks for
          reader_count,  \* the readers that hold the lock
          writer,        \* whether a writer holds it
          status,        \* status[t]: what t does with the lock
          crashed        \* whether the program dereferenced NULL and is gone

vars == <<queue, tail, lockclass, reader_count, writer, status, crashed>>

Init ==
  /\ queue = <<>>
  /\ tail = NULL
  /\ lockclass = [t \in Threads |-> "READ"]
  /\ reader_count = 0
  /\ writer = FALSE
  /\ status = [t \in Threads |-> "idle"]
  /\ crashed = FALSE

----------------------------------------------------------------------------
(* The queue.                                                              *)

ElementsOf(s) == {s[i] : i \in DOMAIN s}

Position(s, e) == CHOOSE i \in DOMAIN s : s[i] = e

\* The elements of s that are not in S, in their order: the n-th of them is
\* at the position that is the n-th one kept.
Nth(K, n) == CHOOSE i \in K : Cardinality({j \in K : j <= i}) = n

Without(s, S) ==
  LET kept == {i \in DOMAIN s : s[i] \notin S}
  IN  [n \in 1 .. Cardinality(kept) |-> s[Nth(kept, n)]]

\* insert_queue: tail->next = I cuts off what followed tail, and does nothing
\* to the list when tail is not in it.
AppendAtTail(q, tl, t) ==
  IF q # <<>> /\ tl \in ElementsOf(q) THEN Append(SubSeq(q, 1, Position(q, tl)), t)
  ELSE IF q = <<>> THEN <<t>>
  ELSE q

\* insert_queue_head leaves tail alone unless the queue was empty.
TailAfterPush(q, tl, t) == IF q = <<>> THEN t ELSE tl

AllReaders(q, class) == \A i \in DOMAIN q : class[q[i]] = "READ"

\* complete_rdlock takes the readers at the front.  If a writer follows them,
\* it goes on behind that writer until it meets tail; when tail is not there
\* the loop runs off the end of the list and reads cur->lockclass at NULL.
MeetsTail(q, tl, class) ==
  \/ AllReaders(q, class)
  \/ \E i, j \in DOMAIN q : i < j /\ class[q[i]] = "WRITE" /\ q[j] = tl

\* The requests that complete_rdlock lets in: every reader it passed.
PassedReaders(q, tl, class) ==
  LET end == IF AllReaders(q, class) THEN Len(q) ELSE Position(q, tl)
  IN  {q[i] : i \in {k \in 1 .. end : class[q[k]] = "READ"}}

\* numcompleted.  The first definition counts only the readers of the first
\* loop, as if the second forgot to.
NumLeading(q, tl, class) ==
  Cardinality({k \in DOMAIN q : \A j \in 1 .. k : class[q[j]] = "READ"})

NumCompleted(q, tl, class) == Cardinality(PassedReaders(q, tl, class))

----------------------------------------------------------------------------
(* The parts of the operations, each under the lock.  count, w and st are  *)
(* what the operation has made of reader_count, writer and status so far.  *)

Queue(t, q, tl) ==
  /\ queue' = q
  /\ tail' = tl
  /\ status' = [status EXCEPT ![t] = "pending"]
  /\ UNCHANGED <<reader_count, writer, crashed>>

Crash(w) ==
  /\ crashed' = TRUE
  /\ writer' = w
  /\ UNCHANGED <<queue, tail, reader_count, status>>

\* complete_rdlock: tail is reset only when no request is left, so a reader
\* that was let in can remain the tail.
CompleteRdlock(q, tl, class, count, w, st) ==
  IF MeetsTail(q, tl, class)
  THEN LET released == PassedReaders(q, tl, class)
       IN  /\ queue' = Without(q, released)
           /\ tail' = IF AllReaders(q, class) THEN NULL ELSE tl
           /\ reader_count' = count + NumCompleted(q, tl, class)
           /\ writer' = w
           /\ status' = [u \in Threads |-> IF u \in released THEN "reading" ELSE st[u]]
           /\ UNCHANGED crashed
  ELSE Crash(w)

\* complete_wrlock on the head.
CompleteWrlock(q, tl, count, st) ==
  /\ queue' = Tail(q)
  /\ tail' = IF Tail(q) = <<>> THEN NULL ELSE tl
  /\ reader_count' = count
  /\ writer' = TRUE
  /\ status' = [st EXCEPT ![Head(q)] = "writing"]
  /\ UNCHANGED crashed

\* The holder that leaves last lets in the head of the queue and, when that
\* is a reader, the readers behind it.
HandOver(count, st) ==
  \/ /\ queue = <<>>
     /\ reader_count' = count
     /\ writer' = FALSE
     /\ status' = st
     /\ UNCHANGED <<queue, tail, crashed>>
  \/ /\ queue # <<>>
     /\ lockclass[Head(queue)] = "READ"
     /\ CompleteRdlock(queue, tail, lockclass, count, FALSE, st)
  \/ /\ queue # <<>>
     /\ lockclass[Head(queue)] = "WRITE"
     /\ CompleteWrlock(queue, tail, count, st)

----------------------------------------------------------------------------
(* The operations.                                                         *)

Call(t, class) ==
  /\ ~crashed
  /\ status[t] = "idle"
  /\ lockclass' = [lockclass EXCEPT ![t] = class]

\* As if only the readers were looked at.
TakeWriteLockFromWriter(t) ==
  /\ reader_count = 0
  /\ writer' = TRUE
  /\ status' = [status EXCEPT ![t] = "writing"]
  /\ UNCHANGED <<queue, tail, reader_count, crashed>>

TakeWriteLock(t) ==
  /\ reader_count = 0
  /\ ~writer
  /\ writer' = TRUE
  /\ status' = [status EXCEPT ![t] = "writing"]
  /\ UNCHANGED <<queue, tail, reader_count, crashed>>

Writelock(t) ==
  /\ Call(t, "WRITE")
  /\ \/ TakeWriteLock(t)
     \/ /\ reader_count # 0 \/ writer
        /\ Queue(t, AppendAtTail(queue, tail, t), t)

WritelockPriority(t) ==
  /\ Call(t, "WRITE")
  /\ \/ TakeWriteLock(t)
     \/ /\ reader_count # 0 \/ writer
        /\ Queue(t, <<t>> \o queue, TailAfterPush(queue, tail, t))

\* As if the fast path forgot to count.
TakeReadLockUncounted(t) ==
  /\ queue = <<>>
  /\ ~writer
  /\ status' = [status EXCEPT ![t] = "reading"]
  /\ UNCHANGED <<queue, tail, reader_count, writer, crashed>>

TakeReadLock(t) ==
  /\ queue = <<>>
  /\ ~writer
  /\ reader_count' = reader_count + 1
  /\ status' = [status EXCEPT ![t] = "reading"]
  /\ UNCHANGED <<queue, tail, writer, crashed>>

\* The slow path: q and tl are the queue with the request in it.  Readers that
\* are at its head need not wait when no writer holds the lock.
QueueReader(t, q, tl) ==
  /\ queue # <<>> \/ writer
  /\ IF lockclass'[Head(q)] = "READ" /\ ~writer
     THEN CompleteRdlock(q, tl, lockclass', reader_count, writer,
                         [status EXCEPT ![t] = "pending"])
     ELSE Queue(t, q, tl)

Readlock(t) ==
  /\ Call(t, "READ")
  /\ TakeReadLock(t) \/ QueueReader(t, AppendAtTail(queue, tail, t), t)

ReadlockPriority(t) ==
  /\ Call(t, "READ")
  /\ TakeReadLock(t) \/ QueueReader(t, <<t>> \o queue, TailAfterPush(queue, tail, t))

\* A holder is done and is about to call wrunlock or rdunlock.
Leave(t) ==
  /\ ~crashed
  /\ \/ status[t] = "writing" /\ status' = [status EXCEPT ![t] = "wrunlock"]
     \/ status[t] = "reading" /\ status' = [status EXCEPT ![t] = "rdunlock"]
  /\ UNCHANGED <<queue, tail, lockclass, reader_count, writer, crashed>>

Wrunlock(t) ==
  /\ ~crashed
  /\ status[t] = "wrunlock"
  /\ HandOver(reader_count, [status EXCEPT ![t] = "idle"])
  /\ UNCHANGED lockclass

\* As if the last reader forgot the queue.
RdunlockForgets(t) ==
  /\ ~crashed
  /\ status[t] = "rdunlock"
  /\ reader_count' = reader_count - 1
  /\ status' = [status EXCEPT ![t] = "idle"]
  /\ UNCHANGED <<queue, tail, lockclass, writer, crashed>>

Rdunlock(t) ==
  /\ ~crashed
  /\ status[t] = "rdunlock"
  /\ \/ /\ reader_count = 1
        /\ HandOver(0, [status EXCEPT ![t] = "idle"])
     \/ /\ reader_count # 1
        /\ reader_count' = reader_count - 1
        /\ status' = [status EXCEPT ![t] = "idle"]
        /\ UNCHANGED <<queue, tail, writer, crashed>>
  /\ UNCHANGED lockclass

Next == \E t \in Threads :
  \/ Writelock(t) \/ WritelockPriority(t) \/ Readlock(t) \/ ReadlockPriority(t)
  \/ Leave(t) \/ Wrunlock(t) \/ Rdunlock(t)

Spec == Init /\ [][Next]_vars

----------------------------------------------------------------------------
Statuses == {"idle", "pending", "reading", "writing", "rdunlock", "wrunlock"}

Writers == {t \in Threads : status[t] = "writing"}
Readers == {t \in Threads : status[t] = "reading"}
Pending == {t \in Threads : status[t] = "pending"}

\* Every variable has its type; reader_count, a uint16_t, stays within the
\* number of threads, so it never wraps below zero.
TypeOK ==
  /\ queue \in Seq(Threads)
  /\ tail \in Threads \cup {NULL}
  /\ lockclass \in [Threads -> {"READ", "WRITE"}]
  /\ reader_count \in 0 .. Cardinality(Threads)
  /\ writer \in BOOLEAN
  /\ status \in [Threads -> Statuses]
  /\ crashed \in BOOLEAN

\* Until the program crashes, reader_count and writer say exactly who holds
\* the lock, a holder that has not yet entered its unlock included, and a
\* writer holds it alone.
HoldersExact ==
  ~crashed =>
    /\ reader_count = Cardinality({t \in Threads : status[t] \in {"reading", "rdunlock"}})
    /\ writer <=> \E t \in Threads : status[t] \in {"writing", "wrunlock"}
    /\ writer => reader_count = 0

\* A request in the queue is there once, waits, and somebody holds the lock
\* who will look at the queue when it leaves: nobody waits for a free lock.
QueueIsServed ==
  ~crashed =>
    /\ \A i, j \in DOMAIN queue : queue[i] = queue[j] => i = j
    /\ ElementsOf(queue) \subseteq Pending
    /\ queue # <<>> => tail # NULL /\ (reader_count > 0 \/ writer)

\* The lock is a readers/writer lock.
RW == INSTANCE ReadersWriter WITH readers <- Readers, writers <- Writers
IsReadersWriterLock == RW!Spec

\* "I want to go through the writer list and extract all the readers"
\* (deferred_rwlock.hpp:113-117), which the walk can do for every list.
WalkIsSafe == ~crashed

\* A request that waits is in the list, so that a later unlock lets it in.
NoRequestLost == Pending \subseteq ElementsOf(queue)
=============================================================================
