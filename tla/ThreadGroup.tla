---------------------------- MODULE ThreadGroup ----------------------------
(***************************************************************************)
(* thread_group (delete-me/thread_group.hpp) over thread                   *)
(* (delete-me/thread.hpp): a thread that finishes appends itself to        *)
(* joinqueue with the exception it ended with, and join() takes the        *)
(* threads from there until none is left or one of them failed.            *)
(*                                                                         *)
(* m_thread_counter is read and written without the mutex; an increment is *)
(* a load and a store.  A thread of CONSTANT Threads that was joined can   *)
(* be created again.                                                       *)
(***************************************************************************)
EXTENDS Integers, Sequences, FiniteSets, Conditional

CONSTANTS Threads,      \* the threads that can be created
          Callers,      \* the threads that call launch and join
          Ncpus,        \* cpu_count()
          AskedCpus,    \* the CPUs that launch() is asked to use
          MaxCounter    \* bound: how far m_thread_counter is counted

ASSUME GroupAssumption ==
  /\ IsFiniteSet(Threads)
  /\ IsFiniteSet(Callers)
  /\ Ncpus \in Nat
  /\ AskedCpus \subseteq Nat
  /\ MaxCounter \in Nat

AnyCpu == -1            \* size_t(-1)
Cpus   == {AnyCpu} \cup 0 .. Ncpus - 1
NoThread == [thread |-> {}, failed |-> FALSE]

VARIABLES m_thread_counter, threads_running, joinqueue,
          groupAsleep,  \* the callers that sleep in cond.wait
          stage,        \* stage[t]: "free", "running", "exiting" once it is
                        \* in joinqueue, "ended"
          id, cpu,      \* the thread's thread_id_, and the CPU it is bound to
          at,           \* at[c]: where c is in launch() or join()
          newid,        \* newid[c]: the id of launch()'s local_thread
          joining,      \* joining[c]: join()'s joining_thread
          shared,       \* observers' variable: the callers whose join() ran
                        \* together with another one
          overlapped    \* observers' variable: a launch() ran together with
                        \* another one's increment, or with the reset

groupCounts == <<m_thread_counter, threads_running, overlapped>>
groupLocals == <<at, newid, joining, shared>>
threadState == <<stage, id, cpu>>
groupVars   == <<groupCounts, joinqueue, groupAsleep, threadState, groupLocals>>

Launching == {c \in Callers : at[c] \in {"store", "count", "create"}}
Running   == {t \in Threads : stage[t] = "running"}
InJoin    == {c \in Callers : at[c] \in {"test", "wait", "pthread_join"}}

GroupInit ==
  /\ m_thread_counter = 0
  /\ threads_running = 0
  /\ joinqueue = <<>>
  /\ groupAsleep = {}
  /\ stage = [t \in Threads |-> "free"]
  /\ id = [t \in Threads |-> 0]
  /\ cpu = [t \in Threads |-> AnyCpu]
  /\ at = [c \in Callers |-> "idle"]
  /\ newid = [c \in Callers |-> 0]
  /\ joining = [c \in Callers |-> NoThread]
  /\ shared = {}
  /\ overlapped = FALSE

-----------------------------------------------------------------------------
\* launch(): m_thread_counter++, for the id of the new thread.
TakeId(c) ==
  /\ at[c] = "idle"
  /\ m_thread_counter < MaxCounter
  /\ Cardinality({t \in Threads : stage[t] = "free"}) > Cardinality(Launching)
  /\ newid' = [newid EXCEPT ![c] = m_thread_counter]
  /\ at' = [at EXCEPT ![c] = "store"]
  /\ overlapped' = (overlapped \/ \E d \in Callers : at[d] = "store")
  /\ UNCHANGED <<m_thread_counter, threads_running, joinqueue, groupAsleep,
                 threadState, joining, shared>>

StoreCounter(c) ==
  /\ at[c] = "store"
  /\ m_thread_counter' = newid[c] + 1
  /\ at' = [at EXCEPT ![c] = "count"]
  /\ UNCHANGED <<threads_running, overlapped, joinqueue, groupAsleep,
                 threadState, newid, joining, shared>>

CountThread(c) ==
  /\ at[c] = "count"
  /\ threads_running' = threads_running + 1
  /\ at' = [at EXCEPT ![c] = "create"]
  /\ UNCHANGED <<m_thread_counter, overlapped, joinqueue, groupAsleep,
                 threadState, newid, joining, shared>>

\* The CPU that thread::launch() binds a thread to when it is given one.
BoundCpu(cpu_id) ==
  IF cpu_id = AnyCpu \/ Ncpus = 0 THEN AnyCpu ELSE cpu_id % Ncpus

\* set_thread_id() by t, or on its behalf before it runs.
SetThreadId(t, n) == id' = [id EXCEPT ![t] = n]

\* thread::launch(), and the start of thread::invoke() in the new thread.
\* Which of the free threads it is makes no difference.
CreateThread(c, cpu_id) ==
  /\ at[c] = "create"
  /\ LET t == CHOOSE u \in Threads : stage[u] = "free"
     IN /\ stage' = [stage EXCEPT ![t] = "running"]
        /\ SetThreadId(t, newid[c])
        /\ cpu' = [cpu EXCEPT ![t] = BoundCpu(cpu_id)]
  /\ at' = [at EXCEPT ![c] = "idle"]
  /\ newid' = [newid EXCEPT ![c] = 0]
  /\ UNCHANGED <<groupCounts, joinqueue, groupAsleep, joining, shared>>

\* A mutant of ThreadFinish: nobody is signalled.
ThreadFinishSilent(t, failed) ==
  /\ stage[t] = "running"
  /\ stage' = [stage EXCEPT ![t] = "exiting"]
  /\ joinqueue' = Append(joinqueue, [thread |-> {t}, failed |-> failed])
  /\ UNCHANGED <<groupCounts, groupAsleep, id, cpu, groupLocals>>

\* The end of thread_group::invoke(): the function of t returned or failed.
ThreadFinish(t, failed) ==
  /\ stage[t] = "running"
  /\ stage' = [stage EXCEPT ![t] = "exiting"]
  /\ joinqueue' = Append(joinqueue, [thread |-> {t}, failed |-> failed])
  /\ groupAsleep' \in AfterSignal(groupAsleep)
  /\ UNCHANGED <<groupCounts, id, cpu, groupLocals>>

\* The end of thread::invoke().
ThreadEnd(t) ==
  /\ stage[t] = "exiting"
  /\ stage' = [stage EXCEPT ![t] = "ended"]
  /\ UNCHANGED <<groupCounts, joinqueue, groupAsleep, id, cpu, groupLocals>>

-----------------------------------------------------------------------------
\* c calls join(), alone or together with others.
CallJoin(c) ==
  /\ at[c] = "idle"
  /\ at' = [at EXCEPT ![c] = "test"]
  /\ shared' = IF InJoin = {} THEN shared ELSE shared \cup InJoin \cup {c}
  /\ UNCHANGED <<groupCounts, joinqueue, groupAsleep, threadState, newid, joining>>

\* A mutant of JoinReturn: it returns when nobody has announced its exit.
JoinReturnEarly(c) ==
  /\ at[c] = "test"
  /\ joinqueue = <<>>
  /\ at' = [at EXCEPT ![c] = "idle"]
  /\ shared' = shared \ {c}
  /\ UNCHANGED <<groupCounts, joinqueue, groupAsleep, threadState, newid, joining>>

JoinReturn(c) ==
  /\ at[c] = "test"
  /\ threads_running = 0
  /\ at' = [at EXCEPT ![c] = "idle"]
  /\ shared' = shared \ {c}
  /\ UNCHANGED <<groupCounts, joinqueue, groupAsleep, threadState, newid, joining>>

\* c holds the mutex in the inner loop, which looks at joinqueue only.
AtJoinQueue(c) ==
  \/ at[c] = "test" /\ threads_running > 0
  \/ at[c] = "wait" /\ c \notin groupAsleep

JoinWait(c) ==
  /\ AtJoinQueue(c)
  /\ joinqueue = <<>>
  /\ at' = [at EXCEPT ![c] = "wait"]
  /\ groupAsleep' = groupAsleep \cup {c}
  /\ UNCHANGED <<groupCounts, joinqueue, threadState, newid, joining, shared>>

\* Mutants of JoinPop: the counter is reset every time, or never.
JoinPopReset(c) ==
  /\ AtJoinQueue(c)
  /\ joinqueue # <<>>
  /\ joining' = [joining EXCEPT ![c] = Head(joinqueue)]
  /\ joinqueue' = Tail(joinqueue)
  /\ threads_running' = threads_running - 1
  /\ m_thread_counter' = 0
  /\ overlapped' = (Launching # {})
  /\ at' = [at EXCEPT ![c] = "pthread_join"]
  /\ UNCHANGED <<groupAsleep, threadState, newid, shared>>

JoinPopNoReset(c) ==
  /\ AtJoinQueue(c)
  /\ joinqueue # <<>>
  /\ joining' = [joining EXCEPT ![c] = Head(joinqueue)]
  /\ joinqueue' = Tail(joinqueue)
  /\ threads_running' = threads_running - 1
  /\ at' = [at EXCEPT ![c] = "pthread_join"]
  /\ UNCHANGED <<m_thread_counter, overlapped, groupAsleep, threadState, newid, shared>>

JoinPop(c) ==
  /\ AtJoinQueue(c)
  /\ joinqueue # <<>>
  /\ joining' = [joining EXCEPT ![c] = Head(joinqueue)]
  /\ joinqueue' = Tail(joinqueue)
  /\ threads_running' = threads_running - 1
  /\ IF threads_running' = 0
     THEN /\ m_thread_counter' = 0
          /\ overlapped' = (Launching # {})
     ELSE UNCHANGED <<m_thread_counter, overlapped>>
  /\ at' = [at EXCEPT ![c] = "pthread_join"]
  /\ UNCHANGED <<groupAsleep, threadState, newid, shared>>

\* pthread_join() returns; the exception of the thread ends join(), with the
\* other threads left to the next call.
JoinThread(c) ==
  /\ at[c] = "pthread_join"
  /\ \E t \in joining[c].thread :
       /\ stage[t] = "ended"
       /\ stage' = [stage EXCEPT ![t] = "free"]
       /\ id' = [id EXCEPT ![t] = 0]
       /\ cpu' = [cpu EXCEPT ![t] = AnyCpu]
  /\ joining' = [joining EXCEPT ![c] = NoThread]
  /\ IF joining[c].failed
     THEN at' = [at EXCEPT ![c] = "idle"] /\ shared' = shared \ {c}
     ELSE at' = [at EXCEPT ![c] = "test"] /\ UNCHANGED shared
  /\ UNCHANGED <<groupCounts, joinqueue, groupAsleep, newid>>

GroupSpurious(c) ==
  /\ c \in groupAsleep
  /\ groupAsleep' = groupAsleep \ {c}
  /\ UNCHANGED <<groupCounts, joinqueue, threadState, groupLocals>>

-----------------------------------------------------------------------------
\* What a caller and a thread go on to do by themselves.
LaunchStep(c, cpu_id) ==
  StoreCounter(c) \/ CountThread(c) \/ CreateThread(c, cpu_id)

JoinStep(c) == JoinReturn(c) \/ JoinWait(c) \/ JoinPop(c) \/ JoinThread(c)

ThreadStep(t) == ThreadEnd(t) \/ \E failed \in BOOLEAN : ThreadFinish(t, failed)

GroupNext ==
  \/ \E c \in Callers : TakeId(c) \/ CallJoin(c) \/ JoinStep(c) \/ GroupSpurious(c)
  \/ \E c \in Callers, cpu_id \in AskedCpus \cup {AnyCpu} : LaunchStep(c, cpu_id)
  \/ \E t \in Threads : ThreadStep(t)

GroupSpec == GroupInit /\ [][GroupNext]_groupVars

-----------------------------------------------------------------------------
\* The types of the group's variables.
GroupTypeOK ==
  /\ m_thread_counter \in 0 .. MaxCounter
  /\ threads_running \in Nat
  /\ joinqueue \in Seq([thread : SUBSET Threads, failed : BOOLEAN])
  /\ groupAsleep \subseteq {c \in Callers : at[c] = "wait"}
  /\ stage \in [Threads -> {"free", "running", "exiting", "ended"}]
  /\ id \in [Threads -> Nat]
  /\ cpu \in [Threads -> Cpus]
  /\ at \in [Callers -> {"idle", "store", "count", "create",
                         "test", "wait", "pthread_join"}]
  /\ newid \in [Callers -> 0 .. MaxCounter]
  /\ joining \in [Callers -> [thread : SUBSET Threads, failed : BOOLEAN]]
  /\ shared \subseteq Callers
  /\ overlapped \in BOOLEAN

\* "Waits for all threads to complete execution": when join() returns without
\* an exception, no function that was launched is still running, even when
\* others launch and join at the same time.
JoinWaitsForAll ==
  [][\A c \in Callers : at[c] = "test" /\ at'[c] = "idle"
       => \A t \in Threads : stage[t] # "running"]_groupVars

\* A join() that is alone ends, with or without an exception, unless threads
\* are launched for ever: a joiner that sleeps is woken by the next exit.
JoinersGetOut ==
  \A c \in Callers :
    []<>(c \notin InJoin \/ c \in shared) \/ []<>(Launching # {})

\* The ids of the threads that run are distinct, as long as no launch() ran
\* together with another one's increment or with join()'s reset.
IdsDistinct ==
  ~overlapped => \A t, u \in Threads :
    stage[t] = "running" /\ stage[u] = "running" /\ id[t] = id[u] => t = u
=============================================================================
