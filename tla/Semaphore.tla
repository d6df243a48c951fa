----------------------------- MODULE Semaphore -----------------------------
(***************************************************************************)
(* semaphore (delete-me/semaphore.hpp), the build with a mutex and a       *)
(* condition variable.  waitercount counts the callers of wait() that had  *)
(* to sleep, those included that were woken and have not run yet: post     *)
(* decides by it whether to signal.                                        *)
(***************************************************************************)
EXTENDS Naturals, FiniteSets, Conditional

CONSTANTS SemThreads,   \* the threads that post and wait
          MaxValue      \* bound: the largest value that is posted

ASSUME SemaphoreAssumption == IsFiniteSet(SemThreads) /\ MaxValue \in Nat

VARIABLES semvalue, waitercount,
          semIn,        \* the threads that are counted in waitercount
          semAsleep     \* those of them that sleep in cond.wait

semVars == <<semvalue, waitercount, semIn, semAsleep>>

SemInit ==
  /\ semvalue = 0
  /\ waitercount = 0
  /\ semIn = {}
  /\ semAsleep = {}

-----------------------------------------------------------------------------
\* A mutant of Post: it signals only when the value was zero.
PostToFirst(t) ==
  /\ t \notin semIn
  /\ semvalue < MaxValue
  /\ semvalue' = semvalue + 1
  /\ IF waitercount > 0 /\ semvalue = 0
     THEN semAsleep' \in AfterSignal(semAsleep)
     ELSE UNCHANGED semAsleep
  /\ UNCHANGED <<waitercount, semIn>>

\* post(): the signal goes out before semvalue is incremented, in the same
\* critical section.
Post(t) ==
  /\ t \notin semIn
  /\ semvalue < MaxValue
  /\ semvalue' = semvalue + 1
  /\ IF waitercount > 0 THEN semAsleep' \in AfterSignal(semAsleep)
                        ELSE UNCHANGED semAsleep
  /\ UNCHANGED <<waitercount, semIn>>

\* wait() by a thread that finds a value: it counts itself in and out.
Take(t) ==
  /\ t \notin semIn
  /\ semvalue > 0
  /\ semvalue' = semvalue - 1
  /\ UNCHANGED <<waitercount, semIn, semAsleep>>

\* wait() by a thread that finds none.
Sleep(t) ==
  /\ t \notin semIn
  /\ semvalue = 0
  /\ waitercount' = waitercount + 1
  /\ semIn' = semIn \cup {t}
  /\ semAsleep' = semAsleep \cup {t}
  /\ UNCHANGED semvalue

\* A mutant of TakeLate: it trusts its wake-up and does not look again.
TakeBlindly(t) ==
  /\ t \in semIn \ semAsleep
  /\ semvalue' = semvalue - 1
  /\ waitercount' = waitercount - 1
  /\ semIn' = semIn \ {t}
  /\ UNCHANGED semAsleep

\* A thread that was woken holds the mutex again and looks at the value.
TakeLate(t) ==
  /\ t \in semIn \ semAsleep
  /\ semvalue > 0
  /\ semvalue' = semvalue - 1
  /\ waitercount' = waitercount - 1
  /\ semIn' = semIn \ {t}
  /\ UNCHANGED semAsleep

SleepAgain(t) ==
  /\ t \in semIn \ semAsleep
  /\ semvalue = 0
  /\ semAsleep' = semAsleep \cup {t}
  /\ UNCHANGED <<semvalue, waitercount, semIn>>

\* A sleeper wakes without a signal.
SemSpurious(t) ==
  /\ t \in semAsleep
  /\ semAsleep' = semAsleep \ {t}
  /\ UNCHANGED <<semvalue, waitercount, semIn>>

SemStep(t) ==
  \/ Post(t) \/ Take(t) \/ Sleep(t)
  \/ TakeLate(t) \/ SleepAgain(t) \/ SemSpurious(t)

SemNext == \E t \in SemThreads : SemStep(t)

SemSpec == SemInit /\ [][SemNext]_semVars

-----------------------------------------------------------------------------
\* The types of the counters and of the two sets.
SemTypeOK ==
  /\ semvalue \in 0 .. MaxValue
  /\ waitercount \in Nat
  /\ semIn \subseteq SemThreads
  /\ semAsleep \subseteq semIn

\* waitercount is the number of threads that went to sleep and have not left.
WaitersExact == waitercount = Cardinality(semIn)

\* No post is lost: while somebody sleeps, there are at most as many values
\* as threads that were woken and are on their way to take one.  It relies on
\* waitercount, since post signals by that count and not by the sleepers.
NoPostLost ==
  /\ WaitersExact
  /\ semAsleep # {} => semvalue <= Cardinality(semIn \ semAsleep)
=============================================================================
