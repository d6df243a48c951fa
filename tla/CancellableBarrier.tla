------------------------- MODULE CancellableBarrier -------------------------
(***************************************************************************)
(* cancellable_barrier (delete-me/cancellable_barrier.hpp): the last of    *)
(* `needed' threads to call wait() lets the barrier fall.  A waiter knows  *)
(* its generation by the sense it listens on.  cancel() takes no mutex, so *)
(* it may come between a waiter's look at alive and its sleep: the mutex   *)
(* is modelled, and that look and the sleep are two steps.                 *)
(***************************************************************************)
EXTENDS Naturals, FiniteSets, Conditional

CONSTANTS BarThreads,   \* the threads that wait at the barrier
          Nobody,       \* the owner of the free mutex
          BarSizes      \* the numbers of threads a barrier is made for

ASSUME BarrierAssumption ==
  /\ IsFiniteSet(BarThreads)
  /\ Nobody \notin BarThreads
  /\ BarSizes \subseteq Nat \ {0}

VARIABLES needed, called, barrier_sense, barrier_release, alive,
          cancelled,      \* a cancel() has made its broadcast
          barMutex,       \* the thread that holds mutex, or Nobody
          barAt,          \* barAt[t]: where t is in wait()
          listening_on,   \* listening_on[t]: wait()'s local
          fallen,         \* observers' variable: the waiters whose
                          \* generation has fallen
          raced           \* observers' variable: the waiters that cancel()
                          \* passed before they slept, and those that were
                          \* still waiting when the next generation fell

barFlags == <<called, barrier_sense, barrier_release>>
barLocal == <<listening_on, fallen, raced>>
barVars  == <<needed, barFlags, alive, cancelled, barMutex, barAt, barLocal>>

BarInit ==
  /\ needed \in BarSizes
  /\ called = 0
  /\ barrier_sense = FALSE
  /\ barrier_release = TRUE
  /\ alive = TRUE
  /\ cancelled = FALSE
  /\ barMutex = Nobody
  /\ barAt = [t \in BarThreads |-> "out"]
  /\ listening_on = [t \in BarThreads |-> FALSE]
  /\ fallen = {}
  /\ raced = {}

BarAsleep  == {t \in BarThreads : barAt[t] = "asleep"}
BarWaiting == {t \in BarThreads : barAt[t] \notin {"out", "enter"}}

\* barAt when the sleepers that are not in `asleep' any more have been woken.
Woken(asleep) ==
  [t \in BarThreads |-> IF t \in BarAsleep \ asleep THEN "relock" ELSE barAt[t]]

-----------------------------------------------------------------------------
\* resize_unsafe(): used while nobody is inside.
ResizeUnsafe(n) ==
  /\ \A t \in BarThreads : barAt[t] = "out"
  /\ needed' = n
  /\ UNCHANGED <<barFlags, alive, cancelled, barMutex, barAt, barLocal>>

\* cancel(): two statements without the mutex.  It may be called again and at
\* the same time: the first call clears alive, each call makes a broadcast.
CancelClear ==
  /\ alive
  /\ alive' = FALSE
  /\ UNCHANGED <<needed, barFlags, cancelled, barMutex, barAt, barLocal>>

\* A mutant of CancelBroadcast: it wakes nobody.
CancelSilently ==
  /\ ~alive
  /\ cancelled' = TRUE
  /\ raced' = raced \cup {t \in BarThreads : barAt[t] = "sleep"}
  /\ UNCHANGED <<needed, barFlags, alive, barMutex, barAt, listening_on, fallen>>

CancelBroadcast ==
  /\ ~alive
  /\ cancelled' = TRUE
  /\ barAt' = Woken(AfterBroadcast(BarAsleep))
  /\ raced' = raced \cup {t \in BarThreads : barAt[t] = "sleep"}
  /\ UNCHANGED <<needed, barFlags, alive, barMutex, listening_on, fallen>>

\* wait() returns at once from a barrier that was cancelled.
CallWait(t) ==
  /\ barAt[t] = "out"
  /\ barAt' = [barAt EXCEPT ![t] = IF alive THEN "enter" ELSE "out"]
  /\ UNCHANGED <<needed, barFlags, alive, cancelled, barMutex, barLocal>>

\* One that is not the last goes on to wait, with the mutex.
Arrive(t) ==
  /\ barAt[t] = "enter"
  /\ barMutex = Nobody
  /\ called + 1 # needed
  /\ called' = called + 1
  /\ listening_on' = [listening_on EXCEPT ![t] = barrier_sense]
  /\ barMutex' = t
  /\ barAt' = [barAt EXCEPT ![t] = "test"]
  /\ UNCHANGED <<needed, barrier_sense, barrier_release, alive, cancelled,
                 fallen, raced>>

\* A mutant of Fall: the sense is not reversed.
FallSameSense(t) ==
  /\ barAt[t] = "enter"
  /\ barMutex = Nobody
  /\ called + 1 = needed
  /\ called' = 0
  /\ barrier_release' = barrier_sense
  /\ barAt' = [Woken(AfterBroadcast(BarAsleep)) EXCEPT ![t] = "out"]
  /\ fallen' = BarWaiting
  /\ raced' = raced \cup fallen
  /\ UNCHANGED <<needed, barrier_sense, alive, cancelled, barMutex, listening_on>>

\* The last one lets the barrier fall and leaves.
Fall(t) ==
  /\ barAt[t] = "enter"
  /\ barMutex = Nobody
  /\ called + 1 = needed
  /\ called' = 0
  /\ barrier_release' = barrier_sense
  /\ barrier_sense' = ~barrier_sense
  /\ barAt' = [Woken(AfterBroadcast(BarAsleep)) EXCEPT ![t] = "out"]
  /\ fallen' = BarWaiting
  /\ raced' = raced \cup fallen
  /\ UNCHANGED <<needed, alive, cancelled, barMutex, listening_on>>

\* The loop's condition holds: the waiter will sleep.
StayIn(t) ==
  /\ barAt[t] = "test"
  /\ barrier_release # listening_on[t] /\ alive
  /\ barAt' = [barAt EXCEPT ![t] = "sleep"]
  /\ UNCHANGED <<needed, barFlags, alive, cancelled, barMutex, barLocal>>

\* It does not: the waiter unlocks and leaves.
Leave(t) ==
  /\ barAt[t] = "test"
  /\ barrier_release = listening_on[t] \/ ~alive
  /\ barAt' = [barAt EXCEPT ![t] = "out"]
  /\ barMutex' = Nobody
  /\ fallen' = fallen \ {t}
  /\ raced' = raced \ {t}
  /\ UNCHANGED <<needed, barFlags, alive, cancelled, listening_on>>

FallAsleep(t) ==
  /\ barAt[t] = "sleep"
  /\ barAt' = [barAt EXCEPT ![t] = "asleep"]
  /\ barMutex' = Nobody
  /\ UNCHANGED <<needed, barFlags, alive, cancelled, barLocal>>

BarSpurious(t) ==
  /\ barAt[t] = "asleep"
  /\ barAt' = [barAt EXCEPT ![t] = "relock"]
  /\ UNCHANGED <<needed, barFlags, alive, cancelled, barMutex, barLocal>>

Relock(t) ==
  /\ barAt[t] = "relock"
  /\ barMutex = Nobody
  /\ barMutex' = t
  /\ barAt' = [barAt EXCEPT ![t] = "test"]
  /\ UNCHANGED <<needed, barFlags, alive, cancelled, barLocal>>

\* What a thread in wait() goes on to do by itself.
BarProgress(t) ==
  \/ Arrive(t) \/ Fall(t) \/ StayIn(t) \/ Leave(t) \/ FallAsleep(t) \/ Relock(t)

BarNext ==
  \/ \E n \in BarSizes : ResizeUnsafe(n)
  \/ CancelClear
  \/ CancelBroadcast
  \/ \E t \in BarThreads : CallWait(t) \/ BarProgress(t) \/ BarSpurious(t)

BarSpec == BarInit /\ [][BarNext]_barVars

-----------------------------------------------------------------------------
\* The types of the barrier's variables.
BarTypeOK ==
  /\ needed \in BarSizes
  /\ called \in Nat
  /\ {barrier_sense, barrier_release, alive, cancelled} \subseteq BOOLEAN
  /\ barMutex \in BarThreads \cup {Nobody}
  /\ barAt \in [BarThreads ->
                 {"out", "enter", "test", "sleep", "asleep", "relock"}]
  /\ listening_on \in [BarThreads -> BOOLEAN]
  /\ fallen \subseteq BarWaiting
  /\ raced \subseteq BarWaiting

\* Nobody passes early: called is the number of waiters of this generation
\* (a cancelled barrier has lost count), and none of them finds the flags
\* equal, whatever generations went by while it slept or was on its way.
NobodyPassesEarly ==
  /\ alive => called = Cardinality(BarWaiting \ fallen)
  /\ \A t \in BarWaiting \ fallen : barrier_release # listening_on[t]

\* A waiter whose generation fell, or whose barrier was cancelled, gets out,
\* as "releasing all threads stuck in the barrier" promises, unless cancel()
\* came between its look at alive and its sleep, or so many threads use the
\* barrier that another generation falls while it is on its way out.
WaitersReleased ==
  \A t \in BarThreads :
    []<>((t \in BarWaiting /\ (t \in fallen \/ ~alive)) => t \in raced)
=============================================================================
