---------------------------- MODULE SpinRWLock2 ----------------------------
(***************************************************************************)
(* spinrwlock2 (delete-me/spinrwlock2.hpp): a readers/writer lock in one   *)
(* unsigned word l.  Bit 0 says that a writer waits, bit 1 that a writer   *)
(* holds the lock, and the bits above count the readers that added         *)
(* themselves.  Every load of l and every __sync operation on it is one    *)
(* step of the thread that performs it; rwPc[t] is the next one.             *)
(***************************************************************************)
EXTENDS Integers, FiniteSets

CONSTANTS RwThreads,  \* the threads that use the lock
          WordSize    \* l is an unsigned int: arithmetic is modulo WordSize

RW_WAIT  == 1
RW_WRITE == 2
RW_READ  == 4

\* The word has room for every thread as a reader besides the two flag bits.
ASSUME ThreadsFitWord ==
  /\ IsFiniteSet(RwThreads)
  /\ WordSize \in Nat
  /\ RW_READ * (Cardinality(RwThreads) + 1) <= WordSize

VARIABLES l,      \* the lock word
          rwPc,   \* rwPc[t]: the step thread t takes next
          state   \* state[t]: writelock's local copy of l

rwVars == <<l, rwPc, state>>

----------------------------------------------------------------------------
(* Word arithmetic, and the bit tests of the code as arithmetic on l.      *)

\* l is unsigned: an addition or a subtraction wraps.
Wrap(x) ==
  IF x >= WordSize THEN x - WordSize
  ELSE IF x < 0 THEN x + WordSize
  ELSE x

WaitSet(x)        == x % RW_WRITE # 0   \* x & RW_WAIT
WaitOrWriteSet(x) == x % RW_READ # 0    \* x & (RW_WAIT | RW_WRITE)
WithWait(x)       == IF WaitSet(x) THEN x ELSE x + RW_WAIT

\* Where writelock goes when it cannot have the lock: it turns the wait bit
\* on unless its copy of l already shows it.
WriterMustWait(x) == IF WaitSet(x) THEN "w_spin" ELSE "w_mark"

----------------------------------------------------------------------------
RwInit ==
  /\ l = 0
  /\ rwPc = [t \in RwThreads |-> "idle"]
  /\ state = [t \in RwThreads |-> 0]

RwGoto(t, loc) == rwPc' = [rwPc EXCEPT ![t] = loc]

RwAt(t, loc) == rwPc[t] = loc

(* writelock *)

CallWrite(t) == RwAt(t, "idle") /\ RwGoto(t, "w_load") /\ UNCHANGED <<l, state>>

\* state = l, and the test state < RW_WRITE.
WriteLoad(t) ==
  /\ RwAt(t, "w_load")
  /\ state' = [state EXCEPT ![t] = l]
  /\ RwGoto(t, IF l < RW_WRITE THEN "w_cas" ELSE WriterMustWait(l))
  /\ UNCHANGED l

\* cmpxchg(&l, state, RW_WRITE): taking the lock turns the wait bit off, also
\* for the writers that still wait.  The first definition keeps the bit.
WriteCasKeepsWait(t) ==
  /\ RwAt(t, "w_cas")
  /\ \/ /\ l = state[t]
        /\ l' = l + RW_WRITE
        /\ RwGoto(t, "writing")
     \/ /\ l # state[t]
        /\ RwGoto(t, "w_reload")
        /\ UNCHANGED l
  /\ UNCHANGED state

WriteCas(t) ==
  /\ RwAt(t, "w_cas")
  /\ \/ /\ l = state[t]
        /\ l' = RW_WRITE
        /\ RwGoto(t, "writing")
     \/ /\ l # state[t]
        /\ RwGoto(t, "w_reload")
        /\ UNCHANGED l
  /\ UNCHANGED state

\* Someone else got there: state = l, and the test of the wait bit.
WriteReload(t) ==
  /\ RwAt(t, "w_reload")
  /\ state' = [state EXCEPT ![t] = l]
  /\ RwGoto(t, WriterMustWait(l))
  /\ UNCHANGED l

\* atomic_set_bit(&l, RW_WAIT_BIT)
WriteMark(t) ==
  /\ RwAt(t, "w_mark")
  /\ l' = WithWait(l)
  /\ RwGoto(t, "w_spin")
  /\ UNCHANGED state

\* while (l > RW_WAIT) cpu_relax()
WriteRelax(t) ==
  /\ RwAt(t, "w_spin")
  /\ l <= RW_WAIT
  /\ RwGoto(t, "w_load")
  /\ UNCHANGED <<l, state>>

\* As if the unlock took both flag bits, whether the wait bit is on or not.
WriteUnlockBothBits(t) ==
  /\ RwAt(t, "writing")
  /\ l' = l - RW_WRITE - RW_WAIT
  /\ RwGoto(t, "idle")
  /\ UNCHANGED state

\* atomic_add(&l, -RW_WRITE)
WriteUnlock(t) ==
  /\ RwAt(t, "writing")
  /\ l' = Wrap(l - RW_WRITE)
  /\ RwGoto(t, "idle")
  /\ UNCHANGED state

(* readlock *)

CallRead(t) == RwAt(t, "idle") /\ RwGoto(t, "r_spin") /\ UNCHANGED <<l, state>>

\* while (l & (RW_WAIT | RW_WRITE)) cpu_relax()
ReadRelax(t) ==
  /\ RwAt(t, "r_spin")
  /\ ~WaitOrWriteSet(l)
  /\ RwGoto(t, "r_add")
  /\ UNCHANGED <<l, state>>

\* atomic_xadd(&l, RW_READ), and the test of the value it returns.  The first
\* definition tests for a writer only after it let the reader in.
ReadAddUnchecked(t) ==
  /\ RwAt(t, "r_add")
  /\ l' = Wrap(l + RW_READ)
  /\ RwGoto(t, "reading")
  /\ UNCHANGED state

ReadAdd(t) ==
  /\ RwAt(t, "r_add")
  /\ l' = Wrap(l + RW_READ)
  /\ RwGoto(t, IF WaitOrWriteSet(l) THEN "r_undo" ELSE "reading")
  /\ UNCHANGED state

\* atomic_add(&l, -RW_READ), and back to the spin.  The first definition
\* leaves the count as the failed attempt made it.
ReadUndoLeaks(t) == RwAt(t, "r_undo") /\ RwGoto(t, "r_spin") /\ UNCHANGED <<l, state>>

ReadUndo(t) ==
  /\ RwAt(t, "r_undo")
  /\ l' = Wrap(l - RW_READ)
  /\ RwGoto(t, "r_spin")
  /\ UNCHANGED state

ReadUnlock(t) ==
  /\ RwAt(t, "reading")
  /\ l' = Wrap(l - RW_READ)
  /\ RwGoto(t, "idle")
  /\ UNCHANGED state

WriteStep(t) ==
  \/ WriteLoad(t) \/ WriteCas(t) \/ WriteReload(t) \/ WriteMark(t)
  \/ WriteRelax(t) \/ WriteUnlock(t)

ReadStep(t) == ReadRelax(t) \/ ReadAdd(t) \/ ReadUndo(t) \/ ReadUnlock(t)

RwNext == \E t \in RwThreads : CallWrite(t) \/ CallRead(t) \/ WriteStep(t) \/ ReadStep(t)

RwSpec == RwInit /\ [][RwNext]_rwVars

----------------------------------------------------------------------------
(* What the lock word means.                                               *)

Writers      == {t \in RwThreads : rwPc[t] = "writing"}
Readers      == {t \in RwThreads : rwPc[t] = "reading"}
Counted      == {t \in RwThreads : rwPc[t] \in {"reading", "r_undo"}}
WriteWaiters == {t \in RwThreads : rwPc[t] \in {"w_load", "w_cas", "w_reload", "w_mark", "w_spin"}}
ReadWaiters  == {t \in RwThreads : rwPc[t] \in {"r_spin", "r_add", "r_undo"}}

WaitBit  == IF WaitSet(l) THEN RW_WAIT ELSE 0
WriteBit == IF Writers # {} THEN RW_WRITE ELSE 0

RwLocations ==
  {"idle", "w_load", "w_cas", "w_reload", "w_mark", "w_spin", "writing",
   "r_spin", "r_add", "r_undo", "reading"}

\* Every variable has its type: l is a word and state[t] a copy of one.
RwTypeOK ==
  /\ l \in 0 .. WordSize - 1
  /\ rwPc \in [RwThreads -> RwLocations]
  /\ state \in [RwThreads -> 0 .. WordSize - 1]

\* The word is exact at every moment: it counts the readers inside and those
\* about to undo, no others, and its write bit is on exactly while a writer is
\* inside.  An undo or an unlock that went missing would show here.
WordExact == l = RW_READ * Cardinality(Counted) + WriteBit + WaitBit

\* A writer excludes readers and other writers.
Exclusive ==
  /\ Writers # {} => Readers = {}
  /\ \A s, t \in Writers : s = t

\* The wait bit never outlives the writers that want the lock: if it did, no
\* reader could ever enter again, since only a writer turns it off.
WaitBitOwned == WaitSet(l) => WriteWaiters # {}

\* The lock is a readers/writer lock.
RW == INSTANCE ReadersWriter WITH Threads <- RwThreads, readers <- Readers, writers <- Writers
IsReadersWriterLock == RW!Spec

\* Once the wait bit is on, new readers cannot keep the writers out: some
\* writer gets the lock in the end.  It need not be the one that set the bit,
\* and a writer that spins after another writer's cmpxchg turned the bit off
\* has no such promise (spinrwlock2.hpp:30-31, 42).
WaitBitServed == WaitSet(l) ~> (Writers # {})

\* A waiting reader is never left with a lock that nobody can take any more:
\* someone, reader or writer, gets it in the end.
ReadersNotStuck == (ReadWaiters # {}) ~> (Readers \cup Writers # {})
=============================================================================
