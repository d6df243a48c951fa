---------------------------- MODULE QueuedRWLock ----------------------------
(***************************************************************************)
(* queued_rw_lock (delete-me/queued_rw_lock.hpp): the fair readers/writer  *)
(* lock of Mellor-Crummey and Scott.  A thread appends its request to a    *)
(* queue by swapping tail, links itself to its predecessor and spins on    *)
(* the blocked flag of its own request until somebody clears it.           *)
(*                                                                         *)
(* A thread has one request and uses it again for each call, so a request  *)
(* is named by its thread.  Every access to a word that another thread may *)
(* write is a step of its own; a read of a field that can no longer change *)
(* goes with the step that follows it.  The fences of the code make the    *)
(* order of the steps the order of the memory.  assert is compiled out:    *)
(* the thread goes on, and AssertHolds says when it would have failed.     *)
(***************************************************************************)
EXTENDS Integers, Sequences, FiniteSets

CONSTANTS Threads,  \* the threads that use the lock
          NULL,     \* no request
          Padding   \* what the byte of state_union that no member covers may
                    \* hold in tempold, which readlock does not initialise

\* A program has finitely many threads, and a null pointer is no request.
ASSUME ThreadsAssumption == NULL \notin Threads /\ IsFiniteSet(Threads)

\* A request clears its own byte by storing 0 to stateu.
ASSUME PaddingAssumption == 0 \in Padding

VARIABLES tail,             \* the last request of the queue
          reader_count,     \* the readers that were let in
          next_writer,      \* the writer that the last reader lets in
          next,             \* next[t], successor_class[t], blocked[t] and
          successor_class,  \* lockclass[t] are the members of t's request
          blocked,
          lockclass,
          predecessor,      \* predecessor[t]: what the swap of tail returned
          w,                \* w[t]: rdunlock's local, the writer to let in
          pc,               \* pc[t]: the step t takes next
          waiting,          \* observers' variables, which no step reads: the
          late,             \* threads that are blocked, in queue order; whether
          garbled           \* a reader ever let a writer in although others
                            \* were counted after it had left; whether the
                            \* uninitialised byte ever made a reader go in
                            \* behind one that waits

fields == <<next, successor_class, blocked, lockclass>>
locals == <<predecessor, w>>
shared == <<tail, reader_count, next_writer>>
ghosts == <<waiting, late, garbled>>
vars == <<shared, fields, locals, pc, ghosts>>

Requests == Threads \cup {NULL}
Classes  == {"READ", "WRITE", "NONE"}

----------------------------------------------------------------------------
Init ==
  /\ tail = NULL
  /\ reader_count = 0
  /\ next_writer = NULL
  /\ next = [t \in Threads |-> NULL]
  /\ successor_class = [t \in Threads |-> "NONE"]
  /\ blocked = [t \in Threads |-> FALSE]
  /\ lockclass = [t \in Threads |-> "NONE"]
  /\ predecessor = [t \in Threads |-> NULL]
  /\ w = [t \in Threads |-> NULL]
  /\ pc = [t \in Threads |-> "idle"]
  /\ waiting = <<>>
  /\ late = FALSE
  /\ garbled = FALSE

At(t, loc) == pc[t] = loc

Goto(t, loc) == pc' = [pc EXCEPT ![t] = loc]

\* blocked = false in the request of u, which then waits no longer.
Unblock(u) ==
  /\ blocked' = [blocked EXCEPT ![u] = FALSE]
  /\ waiting' = LET i == CHOOSE i \in DOMAIN waiting : waiting[i] = u
                 IN  IF blocked[u]
                     THEN SubSeq(waiting, 1, i - 1) \o SubSeq(waiting, i + 1, Len(waiting))
                     ELSE waiting
  /\ UNCHANGED <<late, garbled>>

links == <<next, successor_class, lockclass>>

\* reader_count.inc()
CountReader == reader_count' = reader_count + 1 /\ UNCHANGED <<tail, next_writer>>

\* predecessor->next = I, the last use of predecessor.
Link(t) ==
  /\ next' = [next EXCEPT ![predecessor[t]] = t]
  /\ predecessor' = [predecessor EXCEPT ![t] = NULL]
  /\ UNCHANGED <<successor_class, blocked, lockclass, w>>

\* p->s.state.successor_class = c
Announce(p, c) ==
  /\ successor_class' = [successor_class EXCEPT ![p] = c]
  /\ UNCHANGED <<next, blocked, lockclass>>

\* The request is made ready, which nobody can see, and becomes the tail:
\* predecessor = __sync_lock_test_and_set(&tail, I).
Enqueue(t, class) ==
  /\ At(t, "idle")
  /\ lockclass' = [lockclass EXCEPT ![t] = class]
  /\ next' = [next EXCEPT ![t] = NULL]
  /\ successor_class' = [successor_class EXCEPT ![t] = "NONE"]
  /\ blocked' = [blocked EXCEPT ![t] = TRUE]
  /\ tail' = t
  /\ predecessor' = [predecessor EXCEPT ![t] = tail]
  /\ waiting' = Append(waiting, t)
  /\ UNCHANGED <<reader_count, next_writer, w, late, garbled>>

\* The request of t is its caller's again, and nobody uses it any more.
Discard(t) ==
  /\ next' = [next EXCEPT ![t] = NULL]
  /\ successor_class' = [successor_class EXCEPT ![t] = "NONE"]
  /\ lockclass' = [lockclass EXCEPT ![t] = "NONE"]

\* __sync_bool_compare_and_swap(&tail, I, NULL): if nobody came after t the
\* queue is empty again, otherwise t goes on at elseLoc.
CloseQueue(t, thenLoc, elseLoc) ==
  /\ \/ tail = t /\ tail' = NULL /\ Goto(t, thenLoc) /\ Discard(t)
     \/ tail # t /\ UNCHANGED <<tail, next, successor_class, lockclass>> /\ Goto(t, elseLoc)
  /\ UNCHANGED <<reader_count, next_writer, blocked, locals, ghosts>>

----------------------------------------------------------------------------
(* writelock *)

CallWrite(t) ==
  /\ Enqueue(t, "WRITE")
  /\ Goto(t, IF tail = NULL THEN "w_publish" ELSE "w_announce")

\* The queue was empty: the writer offers itself to the readers inside...
WritePublish(t) ==
  /\ At(t, "w_publish")
  /\ next_writer' = t
  /\ Goto(t, "w_test")
  /\ UNCHANGED <<tail, reader_count, fields, locals, ghosts>>

WriteTest(t) ==
  /\ At(t, "w_test")
  /\ Goto(t, IF reader_count = 0 THEN "w_take" ELSE "w_wait")
  /\ UNCHANGED <<shared, fields, locals, ghosts>>

\* ...and, when none is left, takes the offer back, unless one already took it.
WriteTake(t) ==
  /\ At(t, "w_take")
  /\ next_writer' = NULL
  /\ Goto(t, IF next_writer = t THEN "w_open" ELSE "w_wait")
  /\ UNCHANGED <<tail, reader_count, fields, locals, ghosts>>

WriteOpen(t) ==
  /\ At(t, "w_open")
  /\ Unblock(t)
  /\ Goto(t, "w_wait")
  /\ UNCHANGED <<shared, links, locals>>

WriteAnnounce(t) ==
  /\ At(t, "w_announce")
  /\ Announce(predecessor[t], "WRITE")
  /\ Goto(t, "w_link")
  /\ UNCHANGED <<shared, locals, ghosts>>

WriteLink(t) ==
  /\ At(t, "w_link")
  /\ Link(t)
  /\ Goto(t, "w_wait")
  /\ UNCHANGED <<shared, ghosts>>

WriteWait(t) ==
  /\ At(t, "w_wait")
  /\ ~blocked[t]
  /\ Goto(t, "w_assert")
  /\ UNCHANGED <<shared, fields, locals, ghosts>>

\* assert(reader_count.value == 0)
WriteAssert(t) ==
  /\ At(t, "w_assert")
  /\ Goto(t, "writing")
  /\ UNCHANGED <<shared, fields, locals, ghosts>>

(* wrunlock *)

WriteUnlock(t) ==
  /\ At(t, "writing")
  /\ Goto(t, IF next[t] # NULL THEN "wu_next" ELSE "wu_close")
  /\ UNCHANGED <<shared, fields, locals, ghosts>>

WriteClose(t) == At(t, "wu_close") /\ CloseQueue(t, "idle", "wu_next")

\* As if every successor were let in without being counted.
WriteNextUncounted(t) ==
  /\ At(t, "wu_next")
  /\ next[t] # NULL
  /\ Goto(t, "wu_open")
  /\ UNCHANGED <<shared, fields, locals, ghosts>>

WriteNext(t) ==
  /\ At(t, "wu_next")
  /\ next[t] # NULL
  /\ Goto(t, IF lockclass[next[t]] = "READ" THEN "wu_count" ELSE "wu_open")
  /\ UNCHANGED <<shared, fields, locals, ghosts>>

WriteCount(t) ==
  /\ At(t, "wu_count")
  /\ CountReader
  /\ Goto(t, "wu_open")
  /\ UNCHANGED <<fields, locals, ghosts>>

WritePass(t) ==
  /\ At(t, "wu_open")
  /\ Unblock(next[t])
  /\ Discard(t)
  /\ Goto(t, "idle")
  /\ UNCHANGED <<shared, locals>>

----------------------------------------------------------------------------
(* readlock *)

CallRead(t) ==
  /\ Enqueue(t, "READ")
  /\ Goto(t, IF tail = NULL THEN "r_first" ELSE "r_try")

\* Behind a writer, or behind a reader that waits and learns by the compare
\* and swap of its state that a reader follows, the reader waits; behind a
\* reader that is inside it goes in.  The comparison also covers the byte that
\* tempold leaves uninitialised, so it may fail where the members agree.
ReadTryBlind(t) ==
  /\ At(t, "r_try")
  /\ IF lockclass[predecessor[t]] = "WRITE"
     THEN Goto(t, "r_link") /\ UNCHANGED fields
     ELSE Goto(t, "r_count") /\ UNCHANGED fields
  /\ UNCHANGED <<shared, locals, ghosts>>

ReadTry(t) ==
  /\ At(t, "r_try")
  /\ LET p    == predecessor[t]
         same == blocked[p] /\ successor_class[p] = "NONE"
     IN  \/ /\ lockclass[p] = "WRITE"
            /\ Goto(t, "r_link")
            /\ UNCHANGED <<fields, garbled>>
         \/ /\ lockclass[p] # "WRITE"
            /\ \E byte \in Padding :
                 \/ /\ same /\ byte = 0
                    /\ Announce(p, "READ")
                    /\ Goto(t, "r_link")
                    /\ UNCHANGED garbled
                 \/ /\ ~same \/ byte # 0
                    /\ garbled' = (garbled \/ same)
                    /\ Goto(t, "r_count")
                    /\ UNCHANGED fields
  /\ UNCHANGED <<shared, locals, waiting, late>>

ReadLink(t) ==
  /\ At(t, "r_link")
  /\ Link(t)
  /\ Goto(t, "r_wait")
  /\ UNCHANGED <<shared, ghosts>>

ReadWait(t) ==
  /\ At(t, "r_wait")
  /\ ~blocked[t]
  /\ Goto(t, "r_chain")
  /\ UNCHANGED <<shared, fields, locals, ghosts>>

\* The first reader of an empty queue, and the reader behind one that is
\* inside, count themselves; the latter is linked before it goes in.
ReadFirstUncounted(t) ==
  /\ At(t, "r_first")
  /\ Goto(t, "r_open")
  /\ UNCHANGED <<shared, fields, locals, ghosts>>

ReadFirst(t) ==
  /\ At(t, "r_first")
  /\ CountReader
  /\ Goto(t, "r_open")
  /\ UNCHANGED <<fields, locals, ghosts>>

ReadCount(t) ==
  /\ At(t, "r_count")
  /\ CountReader
  /\ Goto(t, "r_join")
  /\ UNCHANGED <<fields, locals, ghosts>>

ReadJoin(t) ==
  /\ At(t, "r_join")
  /\ Link(t)
  /\ Goto(t, "r_open")
  /\ UNCHANGED <<shared, ghosts>>

ReadOpen(t) ==
  /\ At(t, "r_open")
  /\ Unblock(t)
  /\ Goto(t, "r_chain")
  /\ UNCHANGED <<shared, links, locals>>

\* The reader lets in the reader that waits behind it.
ReadChain(t) ==
  /\ At(t, "r_chain")
  /\ Goto(t, IF successor_class[t] = "READ" THEN "r_next" ELSE "reading")
  /\ UNCHANGED <<shared, fields, locals, ghosts>>

ReadNext(t) ==
  /\ At(t, "r_next")
  /\ next[t] # NULL
  /\ CountReader
  /\ Goto(t, "r_pass")
  /\ UNCHANGED <<fields, locals, ghosts>>

ReadPass(t) ==
  /\ At(t, "r_pass")
  /\ Unblock(next[t])
  /\ Goto(t, "reading")
  /\ UNCHANGED <<shared, links, locals>>

(* rdunlock *)

ReadUnlock(t) ==
  /\ At(t, "reading")
  /\ Goto(t, IF next[t] # NULL THEN "ru_next" ELSE "ru_close")
  /\ UNCHANGED <<shared, fields, locals, ghosts>>

ReadClose(t) == At(t, "ru_close") /\ CloseQueue(t, "ru_count", "ru_next")

\* As if the writer behind the reader were never offered to the last reader.
ReadHandOverNothing(t) ==
  /\ At(t, "ru_next")
  /\ next[t] # NULL
  /\ Discard(t)
  /\ Goto(t, "ru_count")
  /\ UNCHANGED <<shared, blocked, locals, ghosts>>

\* The writer behind the reader is the one that the last reader lets in.
ReadHandOver(t) ==
  /\ At(t, "ru_next")
  /\ next[t] # NULL
  /\ next_writer' = IF successor_class[t] = "WRITE" THEN next[t] ELSE next_writer
  /\ Discard(t)
  /\ Goto(t, "ru_count")
  /\ UNCHANGED <<tail, reader_count, blocked, locals, ghosts>>

\* reader_count.dec() == 0
ReadUncount(t) ==
  /\ At(t, "ru_count")
  /\ reader_count' = reader_count - 1
  /\ Goto(t, IF reader_count = 1 THEN "ru_take" ELSE "idle")
  /\ UNCHANGED <<tail, next_writer, fields, locals, ghosts>>

ReadTake(t) ==
  /\ At(t, "ru_take")
  /\ w' = [w EXCEPT ![t] = next_writer]
  /\ next_writer' = NULL
  /\ late' = (late \/ (next_writer # NULL /\ reader_count # 0))
  /\ Goto(t, IF next_writer # NULL THEN "ru_open" ELSE "idle")
  /\ UNCHANGED <<tail, reader_count, fields, predecessor, waiting, garbled>>

ReadRelease(t) ==
  /\ At(t, "ru_open")
  /\ Unblock(w[t])
  /\ w' = [w EXCEPT ![t] = NULL]
  /\ Goto(t, "idle")
  /\ UNCHANGED <<shared, links, predecessor>>

----------------------------------------------------------------------------
WriteStep(t) ==
  \/ WritePublish(t) \/ WriteTest(t) \/ WriteTake(t)
  \/ WriteOpen(t) \/ WriteAnnounce(t) \/ WriteLink(t) \/ WriteWait(t)
  \/ WriteAssert(t) \/ WriteUnlock(t) \/ WriteClose(t) \/ WriteNext(t)
  \/ WriteCount(t) \/ WritePass(t)

ReadStep(t) ==
  \/ ReadTry(t) \/ ReadLink(t) \/ ReadWait(t) \/ ReadFirst(t)
  \/ ReadCount(t) \/ ReadJoin(t) \/ ReadOpen(t) \/ ReadChain(t) \/ ReadNext(t)
  \/ ReadPass(t) \/ ReadUnlock(t) \/ ReadClose(t) \/ ReadHandOver(t)
  \/ ReadUncount(t) \/ ReadTake(t) \/ ReadRelease(t)

Next == \E t \in Threads : CallWrite(t) \/ CallRead(t) \/ WriteStep(t) \/ ReadStep(t)

Spec == Init /\ [][Next]_vars

\* A thread inside lock or unlock keeps running, and a holder unlocks in the
\* end.  No thread has to call the lock.
FairSpec == Spec /\ \A t \in Threads : WF_vars(WriteStep(t)) /\ WF_vars(ReadStep(t))

----------------------------------------------------------------------------
Locations ==
  {"idle", "w_publish", "w_test", "w_take", "w_open", "w_announce",
   "w_link", "w_wait", "w_assert", "writing", "wu_close", "wu_next",
   "wu_count", "wu_open", "r_first", "r_try", "r_link", "r_wait",
   "r_count", "r_join", "r_open", "r_chain", "r_next", "r_pass", "reading",
   "ru_close", "ru_next", "ru_count", "ru_take", "ru_open"}

Writers == {t \in Threads : pc[t] = "writing"}
Readers == {t \in Threads : pc[t] = "reading"}

\* Every variable has its type; the count of readers, a size_t, stays within
\* the number of threads, so it never wraps below zero.
TypeOK ==
  /\ {tail, next_writer} \subseteq Requests
  /\ reader_count \in 0 .. Cardinality(Threads)
  /\ next \in [Threads -> Requests]
  /\ successor_class \in [Threads -> Classes]
  /\ blocked \in [Threads -> BOOLEAN]
  /\ lockclass \in [Threads -> Classes]
  /\ predecessor \in [Threads -> Requests]
  /\ w \in [Threads -> Requests]
  /\ pc \in [Threads -> Locations]
  /\ waiting \in Seq(Threads)
  /\ {late, garbled} \subseteq BOOLEAN

\* The readers that somebody counted and that did not leave: the ones inside,
\* the ones that counted themselves and are about to go in, and the ones whose
\* predecessor counted them and is about to unblock them.
Counted ==
  LET inside  == {"r_chain", "r_next", "r_pass", "reading", "ru_close", "ru_next", "ru_count"}
      opening == {"r_open", "r_join"}
      passing == {t \in Threads :
                    pc[t] = "r_pass" \/ (pc[t] = "wu_open" /\ lockclass[next[t]] = "READ")}
  IN  {t \in Threads : \/ pc[t] \in inside \cup opening
                       \/ pc[t] = "r_wait" /\ ~blocked[t]}
      \cup {next[t] : t \in passing}

\* reader_count is exact at every step: the thread that lets a reader in
\* counts it before it does so, once, whoever that thread is.
CountExact == reader_count = Cardinality(Counted)

\* writelock's own assertion: no reader is counted when a writer goes in.
AssertHolds == \A t \in Threads : pc[t] = "w_assert" => reader_count = 0

\* A writer excludes readers and other writers until one of two races happens:
\* a reader that had counted down to zero was overtaken by new readers before
\* it swapped next_writer (queued_rw_lock.hpp:131-133), or the uninitialised
\* byte sent a reader in behind one that waits (queued_rw_lock.hpp:91, 98).
ExclusiveUnlessLateOrGarbled ==
  \/ late
  \/ garbled
  \/ /\ Writers # {} => Readers = {}
     /\ Cardinality(Writers) <= 1

\* Whoever is let in is the thread that waited longest, whoever clears its flag
\* and whether it reads or writes.  Of the whole lock, as its comment has it
\* ("Fair rw-lock with local-only spinning", queued_rw_lock.hpp:5), this fails.
FairOrder == [][Len(waiting') < Len(waiting) => waiting' = Tail(waiting)]_waiting

\* Requests are let in in the order of the queue as long as the byte that
\* readlock leaves uninitialised (queued_rw_lock.hpp:91) has sent no reader in
\* behind one that waits.
GrantedInOrder ==
  [][Len(waiting') < Len(waiting) => garbled' \/ waiting' = Tail(waiting)]_waiting

\* The steps of a call of lock or unlock, from its first to its last.
InCall(t) == pc[t] \notin {"idle", "reading", "writing"}

\* Every call of lock and unlock returns, as long as the uninitialised byte has
\* sent no reader in behind one that waits: nobody waits for its turn, for the
\* link of its successor or for a writer's offer for ever.
EveryCallReturns == \A t \in Threads : InCall(t) ~> (~InCall(t) \/ garbled)
=============================================================================
