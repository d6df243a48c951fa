----------------------------- MODULE ThreadPool -----------------------------
(***************************************************************************)
(* thread_pool (delete-me/thread_pool.hpp): workers of a thread_group take *)
(* tasks from a blocking queue.  join() waits until the queue is empty and *)
(* then until as many tasks are completed as were inserted; resize() and   *)
(* set_cpu_affinity() stop the queue, join the workers and start others.   *)
(*                                                                         *)
(* One caller owns the pool: it constructs, resizes and destroys it.  The  *)
(* others launch and join too while the pool exists.  The blocking queue   *)
(* is not in the repository: it is a FIFO queue whose dequeue() blocks     *)
(* while it is empty and not stopped, and may return nothing once it is    *)
(* stopped, whether or not there are tasks left.                           *)
(*                                                                         *)
(* The k-th task that is launched is the record [nr |-> k, vid |-> v] with *)
(* the virtual_threadid that was asked for.  The workers forward every     *)
(* exception themselves, so threads.join() throws none here, and the       *)
(* handlers around it ("this should not be possible!") are left out.       *)
(***************************************************************************)
EXTENDS ThreadGroup

CONSTANTS Owner,        \* the caller that owns the pool
          Sizes,        \* the sizes of pool that it asks for
          Affinities,   \* the affinities that it constructs a pool with
          VirtualIds,   \* the virtual thread ids that launch() is given
          MaxTasks,     \* bound: the tasks launched into one pool
          MaxRestarts   \* bound: how often one pool is resized or rebound

ASSUME PoolAssumption ==
  /\ Owner \in Callers
  /\ Sizes \subseteq Nat \ {0}
  /\ Affinities \subseteq BOOLEAN
  /\ Ncpus > 0
  /\ VirtualIds \subseteq Nat
  /\ MaxTasks \in Nat
  /\ MaxRestarts \in Nat

NoVid  == -1            \* the default of virtual_threadid
NoTask == [nr |-> 0, vid |-> NoVid]
TaskNrs == 1 .. MaxTasks
TaskOf == [nr : TaskNrs, vid : VirtualIds \cup {NoVid}]

VARIABLES spawn_queue, stopped, \* the blocking queue, and stop_blocking()
          pool_size, cpu_affinity,
          tasks_inserted, tasks_completed, exception_queue, waiting_on_join,
          eventAsleep,  \* the callers that sleep in event_condition.wait
          exists,       \* the pool is constructed, and not being destroyed
          spawned,      \* i of the loop in spawn_thread_group
          restarts,     \* the restarts of this pool so far, for the bound
          pc,           \* pc[c]: where c is in an operation of the pool
          worker,       \* worker[t]: where t is in wait_for_task
          entry,        \* entry[t]: the task that t took from the queue
          cur_thread_id,\* cur_thread_id[t]: the id t had before its task
          together,     \* observers' variable: the callers whose join() ran
                        \* together with another one
          renamed       \* observers' variable: the workers that kept the
                        \* virtual id of a task that failed

settings == <<pool_size, cpu_affinity, exists, spawned, restarts>>
queue    == <<spawn_queue, stopped>>
events   == <<exception_queue, waiting_on_join, eventAsleep>>
counts   == <<tasks_inserted, tasks_completed>>
workers  == <<worker, entry, cur_thread_id, renamed>>
clients  == <<pc, together>>
poolVars == <<settings, queue, events, counts, workers, clients>>

Joiners == {c \in Callers : pc[c] \in {"empty", "enter", "event"}}

PoolInit ==
  /\ GroupInit
  /\ spawn_queue = <<>> /\ stopped = FALSE
  /\ tasks_inserted = 0 /\ tasks_completed = 0
  /\ exception_queue = <<>>
  /\ waiting_on_join = FALSE
  /\ restarts = 0
  /\ pool_size = 0
  /\ cpu_affinity = FALSE
  /\ eventAsleep = {}
  /\ exists = FALSE
  /\ spawned = 0
  /\ pc = [c \in Callers |-> "idle"]
  /\ worker = [t \in Threads |-> "dequeue"]
  /\ entry = [t \in Threads |-> NoTask]
  /\ cur_thread_id = [t \in Threads |-> 0]
  /\ together = {}
  /\ renamed = {}

-----------------------------------------------------------------------------
\* The owner, between two of the pool's operations.
OwnerIdle == exists /\ pc[Owner] = "idle"

\* thread_pool(nthreads, affinity), up to spawn_thread_group.
Construct(n, affinity) ==
  /\ ~exists /\ pc[Owner] = "idle"
  /\ pool_size' = n
  /\ cpu_affinity' = affinity
  /\ spawn_queue' = <<>> /\ stopped' = FALSE
  /\ tasks_inserted' = 0 /\ tasks_completed' = 0
  /\ exception_queue' = <<>>
  /\ waiting_on_join' = FALSE
  /\ restarts' = 0
  /\ pc' = [pc EXCEPT ![Owner] = "spawn"]
  /\ UNCHANGED <<exists, spawned, eventAsleep, workers, together, groupVars>>

\* spawn_thread_group: one thread_group::launch() after the other.
Spawn ==
  /\ pc[Owner] = "spawn"
  /\ IF at[Owner] = "idle"
     THEN spawned < pool_size /\ TakeId(Owner)
     ELSE LaunchStep(Owner, IF cpu_affinity THEN spawned % Ncpus ELSE AnyCpu)
  /\ spawned' = IF at[Owner] = "create" THEN spawned + 1 ELSE spawned
  /\ UNCHANGED <<pool_size, cpu_affinity, exists, restarts, queue, events, counts,
                 workers, clients>>

SpawnDone ==
  /\ pc[Owner] = "spawn" /\ at[Owner] = "idle"
  /\ spawned = pool_size
  /\ spawned' = 0
  /\ exists' = TRUE
  /\ pc' = [pc EXCEPT ![Owner] = "idle"]
  /\ UNCHANGED <<pool_size, cpu_affinity, restarts, queue, events, counts,
                 workers, together, groupVars>>

\* The start of resize() and set_cpu_affinity(): the queue is stopped without
\* a look at what is left in it, and the workers are joined.
StopWorkers ==
  /\ OwnerIdle
  /\ restarts < MaxRestarts
  /\ restarts' = restarts + 1
  /\ stopped' = TRUE
  /\ CallJoin(Owner)
  /\ pc' = [pc EXCEPT ![Owner] = "restart"]
  /\ UNCHANGED <<exists, spawned, spawn_queue, events, counts, workers, together>>

Resize(n) ==
  /\ n # pool_size
  /\ pool_size' = n
  /\ UNCHANGED cpu_affinity
  /\ StopWorkers

SetCpuAffinity(affinity) ==
  /\ affinity # cpu_affinity
  /\ cpu_affinity' = affinity
  /\ UNCHANGED pool_size
  /\ StopWorkers

\* start_blocking(), once threads.join() has returned.
Restart ==
  /\ pc[Owner] = "restart" /\ at[Owner] = "idle"
  /\ stopped' = FALSE
  /\ pc' = [pc EXCEPT ![Owner] = "spawn"]
  /\ UNCHANGED <<settings, spawn_queue, events, counts, workers, together, groupVars>>

\* The destructor: nobody else uses the pool any more.
Destroy ==
  /\ OwnerIdle
  /\ \A c \in Callers : pc[c] = "idle"
  /\ exists' = FALSE
  /\ pc' = [pc EXCEPT ![Owner] = "flush"]
  /\ UNCHANGED <<pool_size, cpu_affinity, spawned, restarts, queue, events, counts,
                 workers, together, groupVars>>

\* destroy_all_threads: wait_until_empty(), stop_blocking(), threads.join().
Flush ==
  /\ pc[Owner] = "flush"
  /\ spawn_queue = <<>>
  /\ stopped' = TRUE
  /\ CallJoin(Owner)
  /\ pc' = [pc EXCEPT ![Owner] = "last"]
  /\ UNCHANGED <<settings, spawn_queue, events, counts, workers, together>>

Destroyed ==
  /\ pc[Owner] = "last" /\ at[Owner] = "idle"
  /\ pc' = [pc EXCEPT ![Owner] = "idle"]
  /\ UNCHANGED <<settings, queue, events, counts, workers, together, groupVars>>

\* A step of the owner in threads.join().
OwnerJoinStep == JoinStep(Owner) /\ UNCHANGED poolVars
OwnerSpurious == GroupSpurious(Owner) /\ UNCHANGED poolVars

-----------------------------------------------------------------------------
\* launch()
Launch(c, vid) ==
  /\ exists /\ pc[c] = "idle"
  /\ tasks_inserted < MaxTasks
  /\ tasks_inserted' = tasks_inserted + 1
  /\ spawn_queue' = Append(spawn_queue, [nr |-> tasks_inserted', vid |-> vid])
  /\ UNCHANGED <<settings, stopped, events, tasks_completed, workers, clients, groupVars>>

\* join(): alone or together with other callers.
CallPoolJoin(c) ==
  /\ exists /\ pc[c] = "idle"
  /\ pc' = [pc EXCEPT ![c] = "empty"]
  /\ together' = IF Joiners = {} THEN together ELSE together \cup Joiners \cup {c}
  /\ UNCHANGED <<settings, queue, events, counts, workers, groupVars>>

WaitUntilEmpty(c) ==
  /\ pc[c] = "empty"
  /\ spawn_queue = <<>> \/ stopped
  /\ pc' = [pc EXCEPT ![c] = "enter"]
  /\ UNCHANGED <<settings, queue, events, counts, workers, together, groupVars>>

\* c holds the mutex, at the start of its turn or woken from its sleep.
AtEvents(c) == pc[c] = "enter" \/ (pc[c] = "event" /\ c \notin eventAsleep)

LeaveJoin(c) ==
  /\ waiting_on_join' = FALSE
  /\ pc' = [pc EXCEPT ![c] = "idle"]
  /\ together' = together \ {c}
  /\ UNCHANGED <<settings, queue, eventAsleep, counts, workers, groupVars>>

JoinThrow(c) ==
  /\ AtEvents(c)
  /\ exception_queue # <<>>
  /\ exception_queue' = Tail(exception_queue)
  /\ LeaveJoin(c)

\* A mutant of JoinDone: an empty queue is taken for the end of all tasks.
JoinDoneEmpty(c) ==
  /\ AtEvents(c)
  /\ exception_queue = <<>>
  /\ spawn_queue = <<>>
  /\ LeaveJoin(c)
  /\ UNCHANGED exception_queue

JoinDone(c) ==
  /\ AtEvents(c)
  /\ exception_queue = <<>>
  /\ tasks_completed = tasks_inserted
  /\ LeaveJoin(c)
  /\ UNCHANGED exception_queue

\* Only the first turn sets the flag.
JoinSleep(c) ==
  /\ AtEvents(c)
  /\ exception_queue = <<>>
  /\ tasks_completed # tasks_inserted
  /\ waiting_on_join' = (waiting_on_join \/ pc[c] = "enter")
  /\ eventAsleep' = eventAsleep \cup {c}
  /\ pc' = [pc EXCEPT ![c] = "event"]
  /\ UNCHANGED <<settings, queue, exception_queue, counts, workers, together, groupVars>>

EventSpurious(c) ==
  /\ c \in eventAsleep
  /\ eventAsleep' = eventAsleep \ {c}
  /\ UNCHANGED <<settings, queue, exception_queue, waiting_on_join, counts, workers,
                 clients, groupVars>>

-----------------------------------------------------------------------------
\* wait_for_task(): dequeue() returned a task.  Its thread gets the virtual
\* id that was asked for.
TakeTask(t) ==
  /\ t \in Running /\ worker[t] = "dequeue"
  /\ spawn_queue # <<>>
  /\ LET next == Head(spawn_queue)
     IN /\ entry' = [entry EXCEPT ![t] = next]
        /\ SetThreadId(t, IF next.vid # NoVid THEN next.vid ELSE id[t])
  /\ spawn_queue' = Tail(spawn_queue)
  /\ cur_thread_id' = [cur_thread_id EXCEPT ![t] = id[t]]
  /\ worker' = [worker EXCEPT ![t] = "run"]
  /\ UNCHANGED <<settings, stopped, events, counts, clients, renamed,
                 groupCounts, joinqueue, groupAsleep, stage, cpu, groupLocals>>

\* dequeue() returned nothing: the worker ends.
Quit(t) ==
  /\ t \in Running /\ worker[t] = "dequeue"
  /\ stopped
  /\ ThreadFinish(t, FALSE)
  /\ renamed' = renamed \ {t}
  /\ UNCHANGED <<settings, queue, events, counts, worker, entry, cur_thread_id, clients>>

\* The task returned, and the worker takes its old id.
TaskReturns(t) ==
  /\ worker[t] = "run"
  /\ SetThreadId(t, cur_thread_id[t])
  /\ worker' = [worker EXCEPT ![t] = "ran"]
  /\ UNCHANGED <<settings, queue, events, counts, clients, entry, cur_thread_id, renamed,
                 groupCounts, joinqueue, groupAsleep, stage, cpu, groupLocals>>

\* The task threw: its exception is queued, the id stays as it is.
TaskThrows(t) ==
  /\ worker[t] = "run"
  /\ exception_queue' = Append(exception_queue, entry[t].nr)
  /\ eventAsleep' \in AfterSignal(eventAsleep)
  /\ worker' = [worker EXCEPT ![t] = "threw"]
  /\ renamed' = IF entry[t].vid # NoVid THEN renamed \cup {t} ELSE renamed
  /\ UNCHANGED <<settings, queue, waiting_on_join, counts, clients, entry,
                 cur_thread_id, groupVars>>

\* A mutant of CountTask: the counts are compared before the increment.
CountTaskLate(t) ==
  /\ worker[t] \in {"ran", "threw"}
  /\ tasks_completed' = tasks_completed + 1
  /\ IF waiting_on_join /\ tasks_completed = tasks_inserted
     THEN eventAsleep' \in AfterSignal(eventAsleep)
     ELSE UNCHANGED eventAsleep
  /\ worker' = [worker EXCEPT ![t] = "dequeue"]
  /\ entry' = [entry EXCEPT ![t] = NoTask]
  /\ cur_thread_id' = [cur_thread_id EXCEPT ![t] = 0]
  /\ UNCHANGED <<settings, queue, exception_queue, waiting_on_join, tasks_inserted,
                 clients, renamed, groupVars>>

\* The task is counted, and a joiner told when it was the last.
CountTask(t) ==
  /\ worker[t] \in {"ran", "threw"}
  /\ tasks_completed' = tasks_completed + 1
  /\ IF waiting_on_join /\ tasks_completed' = tasks_inserted
     THEN eventAsleep' \in AfterSignal(eventAsleep)
     ELSE UNCHANGED eventAsleep
  /\ worker' = [worker EXCEPT ![t] = "dequeue"]
  /\ entry' = [entry EXCEPT ![t] = NoTask]
  /\ cur_thread_id' = [cur_thread_id EXCEPT ![t] = 0]
  /\ UNCHANGED <<settings, queue, exception_queue, waiting_on_join, tasks_inserted,
                 clients, renamed, groupVars>>

ExitWorker(t) == ThreadEnd(t) /\ UNCHANGED poolVars

-----------------------------------------------------------------------------
\* What the owner, a caller of join() and a worker go on to do by themselves.
OwnerStep == Spawn \/ SpawnDone \/ Restart \/ Flush \/ Destroyed \/ OwnerJoinStep

PoolJoinStep(c) == WaitUntilEmpty(c) \/ JoinThrow(c) \/ JoinDone(c) \/ JoinSleep(c)

WorkerStep(t) ==
  \/ TakeTask(t) \/ Quit(t) \/ TaskReturns(t) \/ TaskThrows(t) \/ CountTask(t)
  \/ ExitWorker(t)

PoolNext ==
  \/ \E n \in Sizes, affinity \in Affinities : Construct(n, affinity)
  \/ \E n \in Sizes : Resize(n)
  \/ \E affinity \in BOOLEAN : SetCpuAffinity(affinity)
  \/ Destroy
  \/ OwnerStep
  \/ OwnerSpurious
  \/ \E c \in Callers, vid \in VirtualIds \cup {NoVid} : Launch(c, vid)
  \/ \E c \in Callers : CallPoolJoin(c) \/ PoolJoinStep(c) \/ EventSpurious(c)
  \/ \E t \in Threads : WorkerStep(t)

PoolSpec == PoolInit /\ [][PoolNext]_<<poolVars, groupVars>>

-----------------------------------------------------------------------------
\* The types of the pool's variables.
PoolTypeOK ==
  /\ spawn_queue \in Seq(TaskOf)
  /\ {stopped, cpu_affinity, waiting_on_join, exists} \subseteq BOOLEAN
  /\ pool_size \in Sizes \cup {0}
  /\ {tasks_inserted, tasks_completed} \subseteq 0 .. MaxTasks
  /\ exception_queue \in Seq(TaskNrs)
  /\ eventAsleep \subseteq {c \in Callers : pc[c] = "event"}
  /\ spawned \in Nat
  /\ restarts \in 0 .. MaxRestarts
  /\ pc \in [Callers -> {"idle", "empty", "enter", "event",
                         "spawn", "restart", "flush", "last"}]
  /\ worker \in [Threads -> {"dequeue", "run", "ran", "threw"}]
  /\ entry \in [Threads -> TaskOf \cup {NoTask}]
  /\ cur_thread_id \in [Threads -> Int]
  /\ together \subseteq Joiners
  /\ renamed \subseteq Threads

\* The workers of a pool whose owner is in none of its operations are as many
\* as were asked for, have the ids of a group of that size and are bound to
\* CPUs by them; a task sees the virtual id it was launched with.  A worker
\* whose task threw under a virtual id keeps that one (thread_pool.hpp:248).
WorkersAsConfigured ==
  OwnerIdle =>
    /\ Cardinality(Running) = pool_size
    /\ \A t \in Running :
         LET own == IF worker[t] = "run" THEN cur_thread_id[t] ELSE id[t] IN
         /\ t \notin renamed =>
              /\ own \in 0 .. pool_size - 1
              /\ cpu[t] = IF cpu_affinity THEN own % Ncpus ELSE AnyCpu
              /\ \A u \in Running \ (renamed \cup {t}) :
                   own # (IF worker[u] = "run" THEN cur_thread_id[u] ELSE id[u])
         /\ worker[t] = "run" =>
              id[t] = IF entry[t].vid # NoVid THEN entry[t].vid ELSE own

\* Every operation of the pool ends: join() by one caller at a time, resize(),
\* set_cpu_affinity(), and the two ends of the pool's life.
PoolCallsEnd ==
  \A c \in Callers : []<>(pc[c] = "idle" \/ c \in together)

\* thread_pool keeps TaskPool's promise.
Held(k, where) == \E t \in Threads : entry[t].nr = k /\ worker[t] \in where
TaskState ==
  [k \in TaskNrs |->
     IF k > tasks_inserted THEN "new"
     ELSE IF \E i \in DOMAIN spawn_queue : spawn_queue[i].nr = k THEN "queued"
     ELSE IF Held(k, {"run", "ran"}) THEN "running"
     ELSE IF Held(k, {"threw"}) THEN "failed"
     ELSE "done"]

Promise == INSTANCE TaskPool WITH
  Clients <- Callers,
  task <- TaskState,
  unreported <- {exception_queue[i] : i \in DOMAIN exception_queue},
  inJoin <- Joiners

IsTaskPool == Promise!Spec
=============================================================================
