--------------------------- MODULE ThreadPoolProofs ---------------------------
(***************************************************************************)
(* For any sizes, affinities and callers of a thread pool: its tasks run   *)
(* once and join() waits for them (it implements TaskPool), and its        *)
(* workers are as they were configured, through every resize.  With the    *)
(* proofs of the other classes this gives the invariants of MCThreads,     *)
(* where the four move side by side.                                       *)
(***************************************************************************)
EXTENDS MCThreads, ConditionalProofs

Others == Callers \ {Owner}
Busy   == {t \in Threads : worker[t] # "dequeue"}

-----------------------------------------------------------------------------
(* The inductive invariant: the tasks.                                      *)

(* Which task a worker has, and that only a running thread has one.         *)
EntriesKept ==
  /\ \A t \in Threads : IF t \in Busy THEN entry[t] \in TaskOf ELSE entry[t] = NoTask
  /\ Busy \subseteq Running
  /\ cur_thread_id \in [Threads -> Nat]

(* Every task that was launched is queued, held by a worker or counted.     *)
TasksCounted ==
  tasks_inserted = tasks_completed + Len(spawn_queue) + Cardinality(Busy)

(* It is at one place only.                                                 *)
TasksApart ==
  /\ \A i, j \in DOMAIN spawn_queue : spawn_queue[i].nr = spawn_queue[j].nr => i = j
  /\ \A t, u \in Busy : entry[t].nr = entry[u].nr => t = u
  /\ \A i \in DOMAIN spawn_queue, t \in Busy : spawn_queue[i].nr # entry[t].nr
  /\ \A i \in DOMAIN spawn_queue : spawn_queue[i].nr <= tasks_inserted
  /\ \A t \in Busy : entry[t].nr <= tasks_inserted

(* An exception is queued once, by a task that threw.                       *)
ReportsApart ==
  /\ \A i, j \in DOMAIN exception_queue : exception_queue[i] = exception_queue[j] => i = j
  /\ \A i \in DOMAIN exception_queue : exception_queue[i] <= tasks_inserted
  /\ \A i \in DOMAIN exception_queue, j \in DOMAIN spawn_queue :
       exception_queue[i] # spawn_queue[j].nr
  /\ \A i \in DOMAIN exception_queue, t \in Busy :
       exception_queue[i] = entry[t].nr => worker[t] = "threw"

TasksInv == PoolTypeOK /\ EntriesKept /\ TasksCounted /\ TasksApart /\ ReportsApart

-----------------------------------------------------------------------------
(* The inductive invariant: the owner and the group of its workers.         *)

(* The group is the owner's, and its functions catch every exception.       *)
GroupOwned ==
  /\ \A c \in Others : at[c] = "idle"
  /\ \A i \in DOMAIN joinqueue : ~joinqueue[i].failed
  /\ ~joining[Owner].failed
  /\ threads_running = 0 /\ at[Owner] # "count" => m_thread_counter = 0

(* The id that a worker has of its own, under the one of its task.          *)
OwnId == [t \in Threads |-> IF worker[t] = "run" THEN cur_thread_id[t] ELSE id[t]]

(* Where the owner is tells what the group is like: when its workers are    *)
(* there, and how many they are.                                            *)
InUse   == exists /\ pc[Owner] \in {"idle", "empty", "enter", "event"}
Staffed == pc[Owner] = "spawn" \/ InUse
Size    == IF pc[Owner] = "spawn" THEN spawned ELSE pool_size

(* Workers that nobody renamed have the ids and the CPUs of such a group.   *)
Configured ==
  /\ Cardinality(Running) = Size
  /\ \A t \in Running \ renamed :
       /\ OwnId[t] \in 0 .. Size - 1
       /\ cpu[t] = IF cpu_affinity THEN OwnId[t] % Ncpus ELSE AnyCpu
       /\ \A u \in Running \ renamed : OwnId[t] = OwnId[u] => t = u

NamesKept ==
  /\ renamed \subseteq Running
  /\ \A t \in Threads : worker[t] = "run" =>
       id[t] = IF entry[t].vid # NoVid THEN entry[t].vid ELSE OwnId[t]

OwnerPlaces ==
  /\ \A c \in Others : pc[c] \in {"idle", "empty", "enter", "event"}
  /\ exists => pc[Owner] \notin {"flush", "last"}
  /\ ~exists => /\ \A c \in Others : pc[c] = "idle"
                /\ pc[Owner] \in {"idle", "spawn", "flush", "last"}
  /\ pc[Owner] # "spawn" => spawned = 0
  /\ pc[Owner] \in {"idle", "empty", "enter", "event", "flush"} => at[Owner] = "idle"
  /\ pc[Owner] \in {"restart", "last"} => at[Owner] \in {"idle", "test", "wait", "pthread_join"}
  /\ pc[Owner] = "spawn" => at[Owner] \in {"idle", "store", "count", "create"}

SpawnUnderWay ==
  pc[Owner] = "spawn" =>
    /\ spawned <= pool_size
    /\ at[Owner] # "idle" => newid[Owner] = spawned /\ spawned < pool_size
    /\ m_thread_counter = IF at[Owner] \in {"count", "create"} THEN spawned + 1 ELSE spawned

GroupJoined ==
  \/ pc[Owner] \in {"restart", "last"} /\ at[Owner] = "idle"
  \/ pc[Owner] = "idle" /\ ~exists

OwnerCourse ==
  /\ GroupOwned /\ OwnerPlaces /\ SpawnUnderWay
  /\ GroupJoined => threads_running = 0
  /\ pc[Owner] = "last" => spawn_queue = <<>>
  /\ pc[Owner] = "idle" /\ ~exists => spawn_queue = <<>>

OwnerInv ==
  /\ NamesKept
  /\ OwnerCourse
  /\ Staffed => ~stopped /\ Configured

PoolIInv == GroupIInv /\ TasksInv /\ OwnerInv

-----------------------------------------------------------------------------
(* The tasks, and what TaskPool sees of them.                               *)

Queued(k)  == \E i \in DOMAIN spawn_queue : spawn_queue[i].nr = k
InWork(k) == Held(k, {"run", "ran"})
Failed(k)  == Held(k, {"threw"})
Reports    == {exception_queue[i] : i \in DOMAIN exception_queue}

StateOf(k) ==
  IF k > tasks_inserted THEN "new"
  ELSE IF Queued(k) THEN "queued"
  ELSE IF InWork(k) THEN "running"
  ELSE IF Failed(k) THEN "failed"
  ELSE "done"

LEMMA TaskStates ==
  /\ TaskState = [k \in TaskNrs |-> StateOf(k)]
  /\ TaskState' = [k \in TaskNrs |-> StateOf(k)']
BY DEF TaskState, StateOf, Queued, InWork, Failed

\* The state of one task changes and that of the others does not.
LEMMA OneTaskMoves ==
  ASSUME NEW k \in TaskNrs, NEW to, StateOf(k)' = to,
         \A j \in TaskNrs \ {k} : StateOf(j)' = StateOf(j)
  PROVE  TaskState' = [TaskState EXCEPT ![k] = to]
BY TaskStates

LEMMA NoTaskMoves ==
  ASSUME \A j \in TaskNrs : StateOf(j)' = StateOf(j)
  PROVE  TaskState' = TaskState
BY TaskStates

\* A step that leaves the tasks alone.
LEMMA TasksQuiet ==
  ASSUME TasksInv, PoolTypeOK', Busy \subseteq Running',
         UNCHANGED <<spawn_queue, exception_queue, counts, worker, entry, cur_thread_id>>
  PROVE  TasksInv' /\ TaskState' = TaskState /\ Reports' = Reports
<1>1. Busy' = Busy
  BY DEF Busy
<1>2. TaskState' = TaskState /\ Reports' = Reports
  BY DEF TaskState, Held, counts, Reports
<1>3. EntriesKept'
  BY <1>1 DEF TasksInv, EntriesKept
<1>4. TasksCounted' /\ TasksApart' /\ ReportsApart'
  BY <1>1 DEF TasksInv, TasksCounted, TasksApart, ReportsApart, counts
<1>. QED
  BY <1>2, <1>3, <1>4 DEF TasksInv

LEMMA BusyFinite ==
  /\ IsFiniteSet(Busy) /\ Cardinality(Busy) \in Nat
  /\ Cardinality(Busy) = 0 <=> Busy = {}
<1>1. IsFiniteSet(Threads) /\ Busy \in SUBSET Threads
  BY GroupAssumption DEF Busy
<1>. QED
  BY <1>1, FS_Subset, FS_CardinalityType, FS_EmptySet

\* launch()
LEMMA LaunchTasks ==
  ASSUME TasksInv, NEW c \in Callers, NEW vid \in VirtualIds \cup {NoVid}, Launch(c, vid)
  PROVE  TasksInv' /\ [Promise!Next]_(Promise!poolPromise)
<1>0. /\ tasks_inserted \in Nat /\ tasks_completed \in Nat /\ MaxTasks \in Nat
      /\ tasks_inserted < MaxTasks
  BY PoolAssumption DEF TasksInv, PoolTypeOK, Launch
<1>. PICK k \in TaskNrs : k = tasks_inserted + 1
  BY <1>0 DEF TaskNrs
<1>. DEFINE new == [nr |-> k, vid |-> vid]
<1>1. /\ tasks_inserted \in Nat /\ tasks_completed \in Nat /\ MaxTasks \in Nat
      /\ tasks_inserted < MaxTasks /\ tasks_inserted' = k
      /\ spawn_queue \in Seq(TaskOf) /\ spawn_queue' = Append(spawn_queue, new)
      /\ UNCHANGED <<exception_queue, tasks_completed, worker, entry, cur_thread_id>>
  BY <1>0 DEF TasksInv, PoolTypeOK, Launch, events, workers
<1>2. k \in TaskNrs /\ new \in TaskOf /\ new.nr = k
  BY DEF TaskOf
<1>. HIDE DEF new
<1>3. /\ spawn_queue' \in Seq(TaskOf) /\ Len(spawn_queue) \in Nat
      /\ Len(spawn_queue') = Len(spawn_queue) + 1
      /\ DOMAIN spawn_queue = 1 .. Len(spawn_queue)
      /\ DOMAIN spawn_queue' = 1 .. Len(spawn_queue) + 1
      /\ \A i \in 1 .. Len(spawn_queue) : spawn_queue'[i] = spawn_queue[i]
      /\ spawn_queue'[Len(spawn_queue) + 1] = new
  BY <1>1, <1>2, AppendProperties
<1>4. Busy' = Busy /\ Running' = Running
  BY <1>1 DEF Busy, Running, Launch, groupVars, threadState
<1>5. PoolTypeOK'
  <2>1. {tasks_inserted', tasks_completed'} \subseteq 0 .. MaxTasks
    BY <1>1 DEF TasksInv, PoolTypeOK
  <2>2. /\ UNCHANGED <<stopped, cpu_affinity, waiting_on_join, exists, pool_size, spawned,
                       exception_queue, eventAsleep, restarts, pc, worker, entry,
                       cur_thread_id, together, renamed>>
        /\ Joiners' = Joiners
    BY DEF Launch, settings, events, workers, clients, Joiners
  <2>. QED
    BY <1>3, <2>1, <2>2 DEF TasksInv, PoolTypeOK
<1>6. EntriesKept'
  BY <1>1, <1>4 DEF TasksInv, EntriesKept
<1>7. TasksCounted'
  BY <1>1, <1>3, <1>4, BusyFinite DEF TasksInv, TasksCounted
<1>8. /\ \A i \in 1 .. Len(spawn_queue) : spawn_queue[i].nr \in Nat /\ spawn_queue[i].nr < k
      /\ \A t \in Busy : entry[t].nr \in Nat /\ entry[t].nr < k
      /\ \A i \in DOMAIN exception_queue : exception_queue[i] \in Nat /\ exception_queue[i] < k
  <2>1. \A i \in DOMAIN spawn_queue : spawn_queue[i] \in TaskOf
    BY <1>1
  <2>2. \A t \in Busy : entry[t] \in TaskOf
    BY DEF TasksInv, EntriesKept, Busy
  <2>3. exception_queue \in Seq(TaskNrs)
    BY DEF TasksInv, PoolTypeOK
  <2>4. \A i \in DOMAIN exception_queue : exception_queue[i] \in TaskNrs
    BY <2>3
  <2>5. /\ \A i \in DOMAIN spawn_queue : spawn_queue[i].nr \in Nat
        /\ \A t \in Busy : entry[t].nr \in Nat
    BY <2>1, <2>2 DEF TaskOf, TaskNrs
  <2>6. \A n \in Nat : n <= tasks_inserted => n < k
    BY <1>1
  <2>7. /\ \A i \in DOMAIN spawn_queue : spawn_queue[i].nr <= tasks_inserted
        /\ \A t \in Busy : entry[t].nr <= tasks_inserted
        /\ \A i \in DOMAIN exception_queue : exception_queue[i] <= tasks_inserted
    BY DEF TasksInv, TasksApart, ReportsApart
  <2>8. \A i \in DOMAIN exception_queue : exception_queue[i] \in Nat
    BY <2>4 DEF TaskNrs
  <2>. QED
    BY <1>3, <2>5, <2>6, <2>7, <2>8
<1>9. \A i \in DOMAIN spawn_queue' : i \in 1 .. Len(spawn_queue) \/ i = Len(spawn_queue) + 1
  BY <1>3
<1>10. TasksApart'
  BY <1>1, <1>2, <1>3, <1>4, <1>8, <1>9 DEF TasksInv, TasksApart
<1>11. ReportsApart'
  BY <1>1, <1>2, <1>3, <1>4, <1>8, <1>9 DEF TasksInv, ReportsApart
<1>12. /\ StateOf(k) = "new" /\ StateOf(k)' = "queued"
       /\ \A j \in TaskNrs \ {k} : StateOf(j)' = StateOf(j)
  <2>1. k > tasks_inserted /\ ~(k > tasks_inserted')
    BY <1>1
  <2>2. Queued(k)'
    <3>1. Len(spawn_queue) + 1 \in DOMAIN spawn_queue'
      BY <1>3
    <3>. QED
      BY <1>2, <1>3, <3>1 DEF Queued
  <2>3. ASSUME NEW j \in TaskNrs \ {k} PROVE StateOf(j)' = StateOf(j)
    <3>1. Queued(j)' <=> Queued(j)
      BY <1>2, <1>3, <1>9, <2>3 DEF Queued
    <3>2. (InWork(j)' <=> InWork(j)) /\ (Failed(j)' <=> Failed(j))
      BY <1>1 DEF InWork, Failed, Held
    <3>3. j > tasks_inserted' <=> j > tasks_inserted
      BY <1>1, <2>3 DEF TaskNrs
    <3>. QED
      BY <3>1, <3>2, <3>3 DEF StateOf
  <2>. QED
    BY <2>1, <2>2, <2>3 DEF StateOf
<1>13. TaskState[k] = "new" /\ TaskState' = [TaskState EXCEPT ![k] = "queued"]
  <2>1. TaskState[k] = "new"
    BY <1>2, <1>12, TaskStates
  <2>2. TaskState' = [TaskState EXCEPT ![k] = "queued"]
    BY <1>2, <1>12, OneTaskMoves
  <2>. QED
    BY <2>1, <2>2
<1>14. Reports' = Reports /\ Joiners' = Joiners
  BY <1>1 DEF Reports, Joiners, Launch, clients
<1>15. Promise!Launch(k)
  BY <1>13, <1>14 DEF Promise!Launch, Promise!Move, Reports
<1>. QED
  BY <1>2, <1>5, <1>6, <1>7, <1>10, <1>11, <1>15 DEF TasksInv, Promise!Next, Promise!Tasks, TaskNrs

\* dequeue() returns a task.
LEMMA TakeTaskTasks ==
  ASSUME TasksInv, id \in [Threads -> Nat], NEW t \in Threads, TakeTask(t)
  PROVE  TasksInv' /\ [Promise!Next]_(Promise!poolPromise)
<1>. DEFINE next == Head(spawn_queue)
            n == Len(spawn_queue)
<1>1. /\ t \in Running /\ worker[t] = "dequeue" /\ spawn_queue # <<>>
      /\ entry' = [entry EXCEPT ![t] = next]
      /\ spawn_queue' = Tail(spawn_queue)
      /\ cur_thread_id' = [cur_thread_id EXCEPT ![t] = id[t]]
      /\ worker' = [worker EXCEPT ![t] = "run"]
      /\ UNCHANGED <<settings, stopped, events, counts, clients, renamed, stage>>
  BY DEF TakeTask
<1>2. /\ PoolTypeOK /\ EntriesKept /\ spawn_queue \in Seq(TaskOf)
      /\ worker \in [Threads -> {"dequeue", "run", "ran", "threw"}]
      /\ entry \in [Threads -> TaskOf \cup {NoTask}]
      /\ t \in Threads \ Busy
  BY <1>1 DEF TasksInv, PoolTypeOK, Busy
<1>3. /\ n \in Nat \ {0} /\ DOMAIN spawn_queue = 1 .. n /\ next = spawn_queue[1]
      /\ spawn_queue' \in Seq(TaskOf) /\ Len(spawn_queue') = n - 1
      /\ DOMAIN spawn_queue' = 1 .. n - 1
      /\ \A i \in 1 .. n - 1 : spawn_queue'[i] = spawn_queue[i + 1]
  BY <1>1, <1>2, HeadTailProperties, EmptySeq
<1>4. next \in TaskOf /\ next.nr \in TaskNrs
  <2>1. \A i \in DOMAIN spawn_queue : spawn_queue[i] \in TaskOf
    BY <1>2
  <2>2. next \in TaskOf
    BY <1>3, <2>1
  <2>. QED
    BY <2>2 DEF TaskOf
<1>. PICK k \in TaskNrs : k = next.nr
  BY <1>4
<1>. HIDE DEF next, n
<1>5. /\ entry'[t] = next /\ worker'[t] = "run"
      /\ \A u \in Threads \ {t} : entry'[u] = entry[u] /\ worker'[u] = worker[u]
      /\ worker' \in [Threads -> {"dequeue", "run", "ran", "threw"}]
      /\ entry' \in [Threads -> TaskOf \cup {NoTask}]
  BY <1>1, <1>2, <1>4
<1>6. Busy' = Busy \cup {t} /\ t \notin Busy /\ Running' = Running
  BY <1>1, <1>5 DEF Busy, Running
<1>7. \A i \in 1 .. n - 1 : i \in Nat /\ i + 1 \in 1 .. n /\ i + 1 # 1 /\ i \in 1 .. n
  BY <1>3
<1>8. EntriesKept'
  BY <1>1, <1>2, <1>4, <1>5, <1>6 DEF EntriesKept
<1>9. PoolTypeOK'
  <2>1. cur_thread_id' \in [Threads -> Int]
    BY <1>8 DEF EntriesKept
  <2>. QED
    BY <1>1, <1>2, <1>3, <1>5, <2>1
    DEF PoolTypeOK, settings, events, counts, clients, Joiners
<1>10. TasksCounted'
  <2>1. Cardinality(Busy') = Cardinality(Busy) + 1
    BY <1>6, BusyFinite, FS_AddElement
  <2>2. tasks_completed \in Nat /\ tasks_inserted \in Nat /\ UNCHANGED <<tasks_inserted, tasks_completed>>
    BY <1>1, <1>2, PoolAssumption DEF PoolTypeOK, counts
  <2>3. tasks_inserted = tasks_completed + n + Cardinality(Busy)
    BY DEF TasksInv, TasksCounted, n
  <2>. QED
    BY <1>3, <2>1, <2>2, <2>3, BusyFinite DEF TasksCounted
<1>11. /\ \A u \in Busy : entry[u].nr # k /\ entry'[u].nr = entry[u].nr /\ worker'[u] = worker[u]
       /\ \A i \in 1 .. n - 1 : spawn_queue[i + 1].nr # k
       /\ \A i \in DOMAIN exception_queue : exception_queue[i] # k
       /\ k <= tasks_inserted /\ entry'[t].nr = k
  <2>1. 1 \in DOMAIN spawn_queue /\ spawn_queue[1].nr = k
    BY <1>3
  <2>2. \A i \in DOMAIN spawn_queue : i # 1 => spawn_queue[i].nr # k
    BY <2>1 DEF TasksInv, TasksApart
  <2>3. \A u \in Busy : u # t /\ u \in Threads
    BY <1>6 DEF Busy
  <2>4. \A u \in Busy : entry[u].nr # k
    BY <2>1 DEF TasksInv, TasksApart
  <2>5. \A i \in DOMAIN exception_queue : exception_queue[i] # k
    BY <2>1 DEF TasksInv, ReportsApart
  <2>6. k <= tasks_inserted
    BY <2>1 DEF TasksInv, TasksApart
  <2>7. \A i \in 1 .. n - 1 : spawn_queue[i + 1].nr # k
    BY <1>3, <1>7, <2>2
  <2>. QED
    BY <1>5, <2>3, <2>4, <2>5, <2>6, <2>7
<1>12. TasksApart'
  <2>1. \A i \in DOMAIN spawn_queue' : i + 1 \in DOMAIN spawn_queue /\ spawn_queue'[i] = spawn_queue[i + 1]
    BY <1>3, <1>7
  <2>2. \A i, j \in DOMAIN spawn_queue' : spawn_queue'[i].nr = spawn_queue'[j].nr => i = j
    <3>. SUFFICES ASSUME NEW i \in DOMAIN spawn_queue', NEW j \in DOMAIN spawn_queue',
                         spawn_queue'[i].nr = spawn_queue'[j].nr
                  PROVE  i = j
      OBVIOUS
    <3>1. i + 1 = j + 1
      BY <2>1 DEF TasksInv, TasksApart
    <3>. QED
      BY <1>3, <1>7, <3>1
  <2>3. \A u, v \in Busy' : entry'[u].nr = entry'[v].nr => u = v
    BY <1>6, <1>11 DEF TasksInv, TasksApart
  <2>4. \A i \in DOMAIN spawn_queue', u \in Busy' : spawn_queue'[i].nr # entry'[u].nr
    BY <1>3, <1>6, <1>11, <2>1 DEF TasksInv, TasksApart
  <2>5. \A i \in DOMAIN spawn_queue' : spawn_queue'[i].nr <= tasks_inserted'
    BY <1>1, <2>1 DEF TasksInv, TasksApart, counts
  <2>6. \A u \in Busy' : entry'[u].nr <= tasks_inserted'
    BY <1>1, <1>6, <1>11 DEF TasksInv, TasksApart, counts
  <2>. QED
    BY <2>2, <2>3, <2>4, <2>5, <2>6 DEF TasksApart
<1>13. ReportsApart'
  <2>1. \A i \in DOMAIN spawn_queue' : i + 1 \in DOMAIN spawn_queue /\ spawn_queue'[i] = spawn_queue[i + 1]
    BY <1>3, <1>7
  <2>. QED
    BY <1>1, <1>5, <1>6, <1>11, <2>1 DEF TasksInv, ReportsApart, counts, events
<1>14. StateOf(k) = "queued" /\ StateOf(k)' = "running"
  <2>1. Queued(k) /\ ~Queued(k)'
    BY <1>3, <1>11 DEF Queued
  <2>2. InWork(k)'
    BY <1>5, <1>11 DEF InWork, Held
  <2>3. ~(k > tasks_inserted) /\ ~(k > tasks_inserted')
    <3>1. tasks_inserted' = tasks_inserted /\ tasks_inserted \in Int /\ k \in Int
      BY <1>1, <1>2 DEF counts, PoolTypeOK, TaskNrs
    <3>. QED
      BY <1>11, <3>1
  <2>. QED
    BY <2>1, <2>2, <2>3 DEF StateOf
<1>15. ASSUME NEW j \in TaskNrs \ {k} PROVE StateOf(j)' = StateOf(j)
  <2>1. Queued(j)' <=> Queued(j)
    <3>1. \A i \in 1 .. n : i = 1 \/ (i - 1 \in 1 .. n - 1 /\ (i - 1) + 1 = i)
      BY <1>3
    <3>2. ASSUME NEW i \in DOMAIN spawn_queue, spawn_queue[i].nr = j PROVE Queued(j)'
      <4>1. i # 1
        BY <1>3, <1>15, <3>2
      <4>2. i - 1 \in DOMAIN spawn_queue' /\ spawn_queue'[i - 1] = spawn_queue[i]
        BY <1>3, <3>1, <4>1
      <4>. QED
        BY <3>2, <4>2 DEF Queued
    <3>. QED
      BY <1>3, <1>7, <3>2 DEF Queued
  <2>2. \A u \in Threads : /\ entry'[u].nr = j <=> entry[u].nr = j
                           /\ entry[u].nr = j => worker'[u] = worker[u]
    <3>1. entry[t].nr = 0 /\ j # 0 /\ j # k
      BY <1>2, <1>15 DEF EntriesKept, NoTask, TaskNrs
    <3>. QED
      BY <1>5, <1>11, <3>1
  <2>3. (InWork(j)' <=> InWork(j)) /\ (Failed(j)' <=> Failed(j))
    BY <2>2 DEF InWork, Failed, Held
  <2>. QED
    BY <1>1, <2>1, <2>3 DEF StateOf, counts
<1>16. Promise!Start(k)
  <2>1. TaskState[k] = "queued" /\ TaskState' = [TaskState EXCEPT ![k] = "running"]
    BY <1>14, <1>15, OneTaskMoves, TaskStates
  <2>2. Reports' = Reports /\ Joiners' = Joiners
    BY <1>1 DEF Reports, Joiners, clients, events
  <2>. QED
    BY <2>1, <2>2 DEF Promise!Start, Promise!Move, Reports
<1>. QED
  BY <1>8, <1>9, <1>10, <1>12, <1>13, <1>16 DEF TasksInv, Promise!Next, Promise!Tasks, TaskNrs

\* The task returned.
LEMMA TaskReturnsTasks ==
  ASSUME TasksInv, id \in [Threads -> Nat], NEW t \in Threads, TaskReturns(t)
  PROVE  TasksInv' /\ [Promise!Next]_(Promise!poolPromise)
<1>1. /\ worker[t] = "run" /\ worker' = [worker EXCEPT ![t] = "ran"]
      /\ UNCHANGED <<settings, queue, events, counts, clients, entry, cur_thread_id, renamed, stage>>
  BY DEF TaskReturns
<1>2. worker \in [Threads -> {"dequeue", "run", "ran", "threw"}]
  BY DEF TasksInv, PoolTypeOK
<1>3. /\ worker'[t] = "ran" /\ \A u \in Threads \ {t} : worker'[u] = worker[u]
      /\ worker' \in [Threads -> {"dequeue", "run", "ran", "threw"}]
  BY <1>1, <1>2
<1>4. Busy' = Busy /\ Running' = Running
  BY <1>1, <1>3 DEF Busy, Running
<1>5. PoolTypeOK'
  BY <1>1, <1>3 DEF TasksInv, PoolTypeOK, settings, queue, events, counts, clients, Joiners
<1>6. EntriesKept' /\ TasksCounted' /\ TasksApart'
  BY <1>1, <1>4 DEF TasksInv, EntriesKept, TasksCounted, TasksApart, queue, counts
<1>7. ReportsApart'
  <2>1. \A u \in Busy : worker[u] = "threw" => worker'[u] = "threw"
    BY <1>1, <1>3 DEF Busy
  <2>. QED
    BY <1>1, <1>4, <2>1 DEF TasksInv, ReportsApart, queue, counts, events
<1>8. ASSUME NEW j \in TaskNrs PROVE StateOf(j)' = StateOf(j)
  <2>1. (InWork(j)' <=> InWork(j)) /\ (Failed(j)' <=> Failed(j)) /\ (Queued(j)' <=> Queued(j))
    BY <1>1, <1>3 DEF InWork, Failed, Held, Queued, queue
  <2>. QED
    BY <1>1, <2>1 DEF StateOf, counts
<1>9. TaskState' = TaskState /\ Reports' = Reports /\ Joiners' = Joiners
  BY <1>1, <1>8, NoTaskMoves DEF Reports, Joiners, clients, events
<1>. QED
  BY <1>5, <1>6, <1>7, <1>9 DEF TasksInv, Promise!poolPromise, Reports

\* The task threw.
LEMMA TaskThrowsTasks ==
  ASSUME TasksInv, NEW t \in Threads, TaskThrows(t)
  PROVE  TasksInv' /\ [Promise!Next]_(Promise!poolPromise)
<1>1. /\ worker[t] = "run" /\ worker' = [worker EXCEPT ![t] = "threw"]
      /\ exception_queue' = Append(exception_queue, entry[t].nr)
      /\ eventAsleep' \subseteq eventAsleep
      /\ UNCHANGED <<settings, queue, waiting_on_join, counts, clients, entry, cur_thread_id, groupVars>>
  BY DEF TaskThrows, AfterSignal
<1>2. /\ worker \in [Threads -> {"dequeue", "run", "ran", "threw"}] /\ t \in Busy
      /\ exception_queue \in Seq(TaskNrs) /\ PoolTypeOK /\ entry[t] \in TaskOf
  BY <1>1 DEF TasksInv, PoolTypeOK, EntriesKept, Busy
<1>. PICK k \in TaskNrs : k = entry[t].nr
  BY <1>2 DEF TaskOf
<1>3. /\ worker'[t] = "threw" /\ \A u \in Threads \ {t} : worker'[u] = worker[u]
      /\ worker' \in [Threads -> {"dequeue", "run", "ran", "threw"}]
  BY <1>1, <1>2
<1>4. Busy' = Busy /\ Running' = Running
  BY <1>1, <1>2, <1>3 DEF Busy, Running, groupVars, threadState
<1>5. /\ exception_queue' \in Seq(TaskNrs) /\ Len(exception_queue) \in Nat
      /\ DOMAIN exception_queue = 1 .. Len(exception_queue)
      /\ DOMAIN exception_queue' = 1 .. Len(exception_queue) + 1
      /\ \A i \in 1 .. Len(exception_queue) : exception_queue'[i] = exception_queue[i]
      /\ exception_queue'[Len(exception_queue) + 1] = k
  BY <1>1, <1>2, AppendProperties
<1>6. \A i \in DOMAIN exception_queue' :
        i \in DOMAIN exception_queue \/ i = Len(exception_queue) + 1
  BY <1>5
<1>7. PoolTypeOK'
  <2>1. renamed' \subseteq Threads
    BY <1>2 DEF TaskThrows, PoolTypeOK
  <2>2. eventAsleep' \subseteq {c \in Callers : pc'[c] = "event"}
    BY <1>1, <1>2 DEF PoolTypeOK, clients
  <2>. QED
    BY <1>1, <1>2, <1>3, <1>5, <2>1, <2>2
    DEF PoolTypeOK, settings, queue, counts, clients, Joiners
<1>8. EntriesKept' /\ TasksCounted' /\ TasksApart'
  BY <1>1, <1>4 DEF TasksInv, EntriesKept, TasksCounted, TasksApart, queue, counts
<1>9. /\ \A u \in Busy : entry[u].nr = k => u = t
      /\ \A i \in DOMAIN spawn_queue : spawn_queue[i].nr # k
      /\ \A i \in DOMAIN exception_queue : exception_queue[i] # k
      /\ k <= tasks_inserted
  BY <1>1, <1>2 DEF TasksInv, TasksApart, ReportsApart
<1>10. ReportsApart'
  <2>1. \A i, j \in DOMAIN exception_queue' : exception_queue'[i] = exception_queue'[j] => i = j
    BY <1>5, <1>6, <1>9 DEF TasksInv, ReportsApart
  <2>2. \A i \in DOMAIN exception_queue' : exception_queue'[i] <= tasks_inserted'
    BY <1>1, <1>5, <1>6, <1>9 DEF TasksInv, ReportsApart, counts
  <2>3. \A i \in DOMAIN exception_queue', j \in DOMAIN spawn_queue' :
          exception_queue'[i] # spawn_queue'[j].nr
    BY <1>1, <1>5, <1>6, <1>9 DEF TasksInv, ReportsApart, queue
  <2>4. \A i \in DOMAIN exception_queue', u \in Busy' :
          exception_queue'[i] = entry'[u].nr => worker'[u] = "threw"
    <3>1. \A u \in Busy : u \in Threads /\ (worker[u] = "threw" => worker'[u] = "threw")
      BY <1>1, <1>3 DEF Busy
    <3>. QED
      BY <1>1, <1>3, <1>4, <1>5, <1>6, <1>9, <3>1 DEF TasksInv, ReportsApart
  <2>. QED
    BY <2>1, <2>2, <2>3, <2>4 DEF ReportsApart
<1>11. StateOf(k) = "running" /\ StateOf(k)' = "failed"
  <2>1. ~Queued(k) /\ ~Queued(k)'
    BY <1>1, <1>9 DEF Queued, queue
  <2>2. InWork(k) /\ Failed(k)'
    BY <1>1, <1>3 DEF InWork, Failed, Held
  <2>3. ~InWork(k)'
    <3>1. \A u \in Threads : worker'[u] \in {"run", "ran"} => u \in Busy /\ u # t
      BY <1>3 DEF Busy
    <3>. QED
      BY <1>1, <1>9, <3>1 DEF InWork, Held
  <2>4. ~(k > tasks_inserted) /\ ~(k > tasks_inserted')
    <3>1. tasks_inserted' = tasks_inserted /\ tasks_inserted \in Int /\ k \in Int
      BY <1>1, <1>2 DEF counts, PoolTypeOK, TaskNrs
    <3>. QED
      BY <1>9, <3>1
  <2>. QED
    BY <2>1, <2>2, <2>3, <2>4 DEF StateOf
<1>12. ASSUME NEW j \in TaskNrs \ {k} PROVE StateOf(j)' = StateOf(j)
  <2>1. \A u \in Threads : entry[u].nr = j => worker'[u] = worker[u]
    BY <1>3, <1>12
  <2>2. (InWork(j)' <=> InWork(j)) /\ (Failed(j)' <=> Failed(j)) /\ (Queued(j)' <=> Queued(j))
    BY <1>1, <2>1 DEF InWork, Failed, Held, Queued, queue
  <2>. QED
    BY <1>1, <2>2 DEF StateOf, counts
<1>13. Promise!Fail(k)
  <2>1. TaskState[k] = "running" /\ TaskState' = [TaskState EXCEPT ![k] = "failed"]
    BY <1>11, <1>12, OneTaskMoves, TaskStates
  <2>2. Reports' = Reports \cup {k}
    <3>1. Len(exception_queue) + 1 \in DOMAIN exception_queue'
      BY <1>5
    <3>2. \A i \in DOMAIN exception_queue : i \in DOMAIN exception_queue'
      BY <1>5
    <3>. QED
      BY <1>5, <1>6, <3>1, <3>2 DEF Reports
  <2>3. Joiners' = Joiners
    BY <1>1 DEF Joiners, clients
  <2>. QED
    BY <2>1, <2>2, <2>3 DEF Promise!Fail, Promise!Move, Reports
<1>. QED
  BY <1>7, <1>8, <1>10, <1>13 DEF TasksInv, Promise!Next, Promise!Tasks, TaskNrs

\* The task is counted.
LEMMA CountTaskTasks ==
  ASSUME TasksInv, NEW t \in Threads, CountTask(t)
  PROVE  TasksInv' /\ [Promise!Next]_(Promise!poolPromise)
<1>1. /\ worker[t] \in {"ran", "threw"} /\ worker' = [worker EXCEPT ![t] = "dequeue"]
      /\ tasks_completed' = tasks_completed + 1
      /\ eventAsleep' \subseteq eventAsleep
      /\ entry' = [entry EXCEPT ![t] = NoTask]
      /\ cur_thread_id' = [cur_thread_id EXCEPT ![t] = 0]
      /\ UNCHANGED <<settings, queue, exception_queue, waiting_on_join, tasks_inserted,
                     clients, renamed, groupVars>>
  BY DEF CountTask, AfterSignal
<1>2. /\ worker \in [Threads -> {"dequeue", "run", "ran", "threw"}] /\ t \in Busy
      /\ entry \in [Threads -> TaskOf \cup {NoTask}]
      /\ PoolTypeOK /\ EntriesKept /\ entry[t] \in TaskOf
  BY <1>1 DEF TasksInv, PoolTypeOK, EntriesKept, Busy
<1>. PICK k \in TaskNrs : k = entry[t].nr
  BY <1>2 DEF TaskOf
<1>3. /\ worker'[t] = "dequeue" /\ \A u \in Threads \ {t} : worker'[u] = worker[u]
      /\ worker' \in [Threads -> {"dequeue", "run", "ran", "threw"}]
      /\ entry'[t] = NoTask /\ \A u \in Threads \ {t} : entry'[u] = entry[u]
      /\ entry' \in [Threads -> TaskOf \cup {NoTask}]
      /\ cur_thread_id' \in [Threads -> Nat]
  BY <1>1, <1>2 DEF EntriesKept
<1>4. Busy' = Busy \ {t} /\ Running' = Running
  BY <1>1, <1>3 DEF Busy, Running, groupVars, threadState
<1>5. Cardinality(Busy') = Cardinality(Busy) - 1 /\ Cardinality(Busy) # 0
  BY <1>2, <1>4, BusyFinite, FS_RemoveElement
<1>6. /\ tasks_completed \in Nat /\ tasks_inserted \in Nat /\ MaxTasks \in Nat
      /\ tasks_inserted <= MaxTasks /\ Len(spawn_queue) \in Nat
      /\ tasks_inserted = tasks_completed + Len(spawn_queue) + Cardinality(Busy)
  BY <1>2, PoolAssumption DEF TasksInv, PoolTypeOK, TasksCounted
<1>7. TasksCounted' /\ tasks_completed' \in 0 .. MaxTasks
  BY <1>1, <1>5, <1>6, BusyFinite DEF TasksCounted, queue
<1>8. PoolTypeOK'
  <2>1. eventAsleep' \subseteq {c \in Callers : pc'[c] = "event"}
    BY <1>1, <1>2 DEF PoolTypeOK, clients
  <2>2. {tasks_inserted', tasks_completed'} \subseteq 0 .. MaxTasks
    BY <1>1, <1>2, <1>7 DEF PoolTypeOK
  <2>3. cur_thread_id' \in [Threads -> Int]
    BY <1>3
  <2>. QED
    BY <1>1, <1>2, <1>3, <2>1, <2>2, <2>3 DEF PoolTypeOK, settings, queue, clients, Joiners
<1>9. EntriesKept'
  BY <1>2, <1>3, <1>4 DEF EntriesKept
<1>10. \A u \in Busy' : u \in Busy /\ u # t /\ entry'[u] = entry[u] /\ worker'[u] = worker[u]
  BY <1>3, <1>4 DEF Busy
<1>11. TasksApart' /\ ReportsApart'
  BY <1>1, <1>10 DEF TasksInv, TasksApart, ReportsApart, queue
<1>12. StateOf(k) \in {"running", "failed"} /\ StateOf(k)' = "done"
  <2>1. ~Queued(k) /\ ~Queued(k)'
    BY <1>1, <1>2 DEF Queued, queue, TasksInv, TasksApart
  <2>2. InWork(k) \/ Failed(k)
    BY <1>1 DEF InWork, Failed, Held
  <2>3. ~InWork(k)' /\ ~Failed(k)'
    <3>1. \A u \in Busy' : entry'[u].nr # k
      BY <1>2, <1>10 DEF TasksInv, TasksApart
    <3>2. \A u \in Threads : worker'[u] \in {"run", "ran", "threw"} => u \in Busy'
      BY DEF Busy
    <3>. QED
      BY <3>1, <3>2 DEF InWork, Failed, Held
  <2>4. ~(k > tasks_inserted) /\ ~(k > tasks_inserted')
    <3>1. k <= tasks_inserted /\ k \in Int
      BY <1>2 DEF TasksInv, TasksApart, TaskNrs
    <3>. QED
      BY <1>1, <1>6, <3>1
  <2>. QED
    BY <2>1, <2>2, <2>3, <2>4 DEF StateOf
<1>13. ASSUME NEW j \in TaskNrs \ {k} PROVE StateOf(j)' = StateOf(j)
  <2>1. \A u \in Threads : /\ entry'[u].nr = j <=> entry[u].nr = j
                           /\ entry[u].nr = j => worker'[u] = worker[u]
    <3>1. entry'[t].nr = 0 /\ j # 0 /\ j # k
      BY <1>3, <1>13 DEF NoTask, TaskNrs
    <3>. QED
      BY <1>3, <3>1
  <2>2. (InWork(j)' <=> InWork(j)) /\ (Failed(j)' <=> Failed(j)) /\ (Queued(j)' <=> Queued(j))
    BY <1>1, <2>1 DEF InWork, Failed, Held, Queued, queue
  <2>. QED
    BY <1>1, <2>2 DEF StateOf
<1>14. Promise!Finish(k)
  <2>1. TaskState[k] \in {"running", "failed"} /\ TaskState' = [TaskState EXCEPT ![k] = "done"]
    BY <1>12, <1>13, OneTaskMoves, TaskStates
  <2>2. Reports' = Reports /\ Joiners' = Joiners
    BY <1>1 DEF Reports, Joiners, clients
  <2>. QED
    BY <2>1, <2>2 DEF Promise!Finish, Promise!Move, Reports
<1>. QED
  BY <1>7, <1>8, <1>9, <1>11, <1>14 DEF TasksInv, Promise!Next, Promise!Tasks, TaskNrs

\* When the counts are equal nothing is left of any task.
LEMMA AllCounted ==
  ASSUME TasksInv
  PROVE  /\ tasks_completed = tasks_inserted => spawn_queue = <<>> /\ Busy = {}
         /\ spawn_queue = <<>> /\ Busy = {} => Promise!AllDone
<1>1. ASSUME tasks_completed = tasks_inserted PROVE spawn_queue = <<>> /\ Busy = {}
  <2>1. /\ tasks_completed \in Nat /\ tasks_inserted \in Nat /\ spawn_queue \in Seq(TaskOf)
        /\ Len(spawn_queue) \in Nat
        /\ tasks_inserted = tasks_completed + Len(spawn_queue) + Cardinality(Busy)
    BY PoolAssumption DEF TasksInv, PoolTypeOK, TasksCounted
  <2>2. Len(spawn_queue) = 0 /\ Cardinality(Busy) = 0
    BY <1>1, <2>1, BusyFinite
  <2>. QED
    BY <2>1, <2>2, BusyFinite, EmptySeq
<1>2. ASSUME spawn_queue = <<>>, Busy = {} PROVE Promise!AllDone
  <2>. SUFFICES ASSUME NEW k \in TaskNrs PROVE TaskState[k] \in {"new", "done"}
    BY DEF Promise!AllDone, Promise!Tasks, TaskNrs
  <2>1. ~Queued(k)
    BY <1>2 DEF Queued
  <2>2. worker \in [Threads -> {"dequeue", "run", "ran", "threw"}]
    BY DEF TasksInv, PoolTypeOK
  <2>3. ~InWork(k) /\ ~Failed(k)
    BY <1>2, <2>2 DEF InWork, Failed, Held, Busy
  <2>. QED
    BY <2>1, <2>3, TaskStates DEF StateOf
<1>. QED
  BY <1>1, <1>2

\* join() throws the exception of one task.
LEMMA JoinThrowTasks ==
  ASSUME TasksInv, NEW c \in Callers, JoinThrow(c)
  PROVE  TasksInv' /\ [Promise!Next]_(Promise!poolPromise)
<1>. DEFINE n == Len(exception_queue)
<1>1. /\ pc[c] \in {"enter", "event"} /\ exception_queue # <<>>
      /\ pc[c] = "event" => c \notin eventAsleep
      /\ exception_queue' = Tail(exception_queue)
      /\ waiting_on_join' = FALSE /\ pc' = [pc EXCEPT ![c] = "idle"] /\ together' = together \ {c}
      /\ UNCHANGED <<settings, queue, eventAsleep, counts, workers, groupVars>>
  BY DEF JoinThrow, AtEvents, LeaveJoin
<1>2. PoolTypeOK /\ exception_queue \in Seq(TaskNrs)
  BY DEF TasksInv, PoolTypeOK
<1>3. /\ n \in Nat \ {0} /\ DOMAIN exception_queue = 1 .. n
      /\ exception_queue' \in Seq(TaskNrs) /\ DOMAIN exception_queue' = 1 .. n - 1
      /\ \A i \in 1 .. n - 1 : exception_queue'[i] = exception_queue[i + 1]
  BY <1>1, <1>2, HeadTailProperties, EmptySeq
<1>. HIDE DEF n
<1>4. /\ \A i \in 1 .. n - 1 : i \in Nat /\ i + 1 \in 1 .. n /\ i + 1 # 1
      /\ \A i \in 1 .. n : i = 1 \/ (i - 1 \in 1 .. n - 1 /\ (i - 1) + 1 = i)
      /\ 1 \in 1 .. n
  BY <1>3
<1>5. Busy' = Busy /\ Running' = Running /\ Joiners' = Joiners \ {c} /\ c \in Joiners
  BY <1>1, <1>2 DEF Busy, Running, Joiners, groupVars, threadState, workers, PoolTypeOK
<1>6. PoolTypeOK'
  <2>1. eventAsleep' \subseteq {d \in Callers : pc'[d] = "event"}
    BY <1>1, <1>2 DEF PoolTypeOK
  <2>2. pc' \in [Callers -> {"idle", "empty", "enter", "event",
                             "spawn", "restart", "flush", "last"}]
    BY <1>1, <1>2 DEF PoolTypeOK
  <2>. QED
    BY <1>1, <1>2, <1>3, <1>5, <2>1, <2>2 DEF PoolTypeOK, settings, queue, counts, workers
<1>7. EntriesKept' /\ TasksCounted' /\ TasksApart'
  BY <1>1, <1>5 DEF TasksInv, EntriesKept, TasksCounted, TasksApart, queue, counts, workers
<1>8. ReportsApart'
  <2>1. \A i \in DOMAIN exception_queue' :
          i + 1 \in DOMAIN exception_queue /\ exception_queue'[i] = exception_queue[i + 1]
    BY <1>3, <1>4
  <2>2. \A i, j \in DOMAIN exception_queue' : exception_queue'[i] = exception_queue'[j] => i = j
    <3>. SUFFICES ASSUME NEW i \in DOMAIN exception_queue', NEW j \in DOMAIN exception_queue',
                         exception_queue'[i] = exception_queue'[j]
                  PROVE  i = j
      OBVIOUS
    <3>1. i + 1 = j + 1
      BY <2>1 DEF TasksInv, ReportsApart
    <3>. QED
      BY <1>3, <1>4, <3>1
  <2>. QED
    BY <1>1, <1>5, <2>1, <2>2 DEF TasksInv, ReportsApart, queue, counts, workers
<1>9. exception_queue[1] \in Reports /\ Reports' = Reports \ {exception_queue[1]}
  <2>1. \A i \in DOMAIN exception_queue : exception_queue[i] = exception_queue[1] => i = 1
    BY <1>3, <1>4 DEF TasksInv, ReportsApart
  <2>2. exception_queue[1] \in Reports
    BY <1>3, <1>4 DEF Reports
  <2>3. ASSUME NEW k \in Reports' PROVE k \in Reports \ {exception_queue[1]}
    <3>1. PICK i \in DOMAIN exception_queue' : k = exception_queue'[i]
      BY <2>3 DEF Reports
    <3>2. i + 1 \in DOMAIN exception_queue /\ i + 1 # 1 /\ k = exception_queue[i + 1]
      BY <1>3, <1>4, <3>1
    <3>. QED
      BY <2>1, <3>2 DEF Reports
  <2>4. ASSUME NEW k \in Reports, k # exception_queue[1] PROVE k \in Reports'
    <3>1. PICK i \in DOMAIN exception_queue : k = exception_queue[i]
      BY DEF Reports
    <3>2. i - 1 \in DOMAIN exception_queue' /\ exception_queue'[i - 1] = k
      BY <1>3, <1>4, <2>4, <3>1
    <3>. QED
      BY <3>2 DEF Reports
  <2>. QED
    BY <2>2, <2>3, <2>4
<1>10. TaskState' = TaskState
  BY <1>1 DEF TaskState, Held, counts, queue, workers
<1>11. Promise!Throw(c)
  BY <1>5, <1>9, <1>10 DEF Promise!Throw, Reports
<1>. QED
  BY <1>6, <1>7, <1>8, <1>11 DEF TasksInv, Promise!Next

\* The other steps of join().
LEMMA JoinTasks ==
  ASSUME TasksInv, NEW c \in Callers,
         \/ CallPoolJoin(c) \/ WaitUntilEmpty(c) \/ JoinDone(c) \/ JoinSleep(c)
         \/ EventSpurious(c)
  PROVE  TasksInv' /\ [Promise!Next]_(Promise!poolPromise)
<1>. DEFINE Pcs == {"idle", "empty", "enter", "event", "spawn", "restart", "flush", "last"}
<1>1. PoolTypeOK /\ pc \in [Callers -> Pcs] /\ eventAsleep \subseteq {d \in Callers : pc[d] = "event"}
      /\ together \subseteq Joiners
  BY DEF TasksInv, PoolTypeOK
<1>2. /\ UNCHANGED <<settings, queue, exception_queue, counts, workers, groupVars>>
      /\ waiting_on_join' \in BOOLEAN /\ pc' \in [Callers -> Pcs]
      /\ eventAsleep' \subseteq {d \in Callers : pc'[d] = "event"}
      /\ together' \subseteq Joiners'
      /\ \/ CallPoolJoin(c) /\ Joiners' = Joiners \cup {c}
         \/ JoinDone(c) /\ Joiners' = Joiners \ {c} /\ c \in Joiners
         \/ Joiners' = Joiners
  <2>1. CASE CallPoolJoin(c)
    <3>1. /\ pc[c] = "idle" /\ pc' = [pc EXCEPT ![c] = "empty"]
          /\ together' = IF Joiners = {} THEN together ELSE together \cup Joiners \cup {c}
          /\ UNCHANGED <<settings, queue, events, counts, workers, groupVars>>
      BY <2>1 DEF CallPoolJoin
    <3>2. Joiners' = Joiners \cup {c}
      BY <1>1, <3>1 DEF Joiners
    <3>3. pc' \in [Callers -> Pcs] /\ \A d \in Callers \ {c} : pc'[d] = pc[d]
      BY <1>1, <3>1
    <3>4. together' \subseteq Joiners' /\ eventAsleep' \subseteq {d \in Callers : pc'[d] = "event"}
      BY <1>1, <3>1, <3>2, <3>3 DEF events
    <3>. QED
      BY <1>1, <2>1, <3>1, <3>2, <3>3, <3>4 DEF events, PoolTypeOK
  <2>2. CASE WaitUntilEmpty(c)
    <3>1. /\ pc[c] = "empty" /\ pc' = [pc EXCEPT ![c] = "enter"]
          /\ UNCHANGED <<settings, queue, events, counts, workers, together, groupVars>>
      BY <2>2 DEF WaitUntilEmpty
    <3>2. pc' \in [Callers -> Pcs] /\ \A d \in Callers \ {c} : pc'[d] = pc[d]
      BY <1>1, <3>1
    <3>3. Joiners' = Joiners
      BY <1>1, <3>1 DEF Joiners
    <3>. QED
      BY <1>1, <3>1, <3>2, <3>3 DEF events, PoolTypeOK
  <2>3. CASE JoinDone(c)
    <3>1. /\ pc[c] \in {"enter", "event"} /\ pc' = [pc EXCEPT ![c] = "idle"]
          /\ pc[c] = "event" => c \notin eventAsleep
          /\ together' = together \ {c} /\ waiting_on_join' = FALSE
          /\ UNCHANGED <<settings, queue, exception_queue, eventAsleep, counts, workers, groupVars>>
      BY <2>3 DEF JoinDone, AtEvents, LeaveJoin
    <3>2. pc' \in [Callers -> Pcs] /\ \A d \in Callers \ {c} : pc'[d] = pc[d]
      BY <1>1, <3>1
    <3>3. Joiners' = Joiners \ {c} /\ c \in Joiners
      BY <1>1, <3>1 DEF Joiners
    <3>4. eventAsleep' \subseteq {d \in Callers : pc'[d] = "event"} /\ together' \subseteq Joiners'
      BY <1>1, <3>1, <3>2, <3>3
    <3>. QED
      BY <2>3, <3>1, <3>2, <3>3, <3>4
  <2>4. CASE JoinSleep(c)
    <3>1. /\ pc[c] \in {"enter", "event"} /\ pc' = [pc EXCEPT ![c] = "event"]
          /\ waiting_on_join' \in BOOLEAN /\ eventAsleep' = eventAsleep \cup {c}
          /\ UNCHANGED <<settings, queue, exception_queue, counts, workers, together, groupVars>>
      BY <2>4, Zenon DEF JoinSleep, AtEvents, PoolTypeOK
    <3>2. pc' \in [Callers -> Pcs] /\ pc'[c] = "event" /\ \A d \in Callers \ {c} : pc'[d] = pc[d]
      BY <1>1, <3>1
    <3>3. Joiners' = Joiners
      BY <1>1, <3>1 DEF Joiners
    <3>4. eventAsleep' \subseteq {d \in Callers : pc'[d] = "event"}
      BY <1>1, <3>1, <3>2
    <3>. QED
      BY <1>1, <3>1, <3>2, <3>3, <3>4
  <2>5. CASE EventSpurious(c)
    BY <1>1, <2>5 DEF EventSpurious, clients, Joiners, PoolTypeOK
  <2>. QED
    BY <2>1, <2>2, <2>3, <2>4, <2>5
<1>3. PoolTypeOK'
  BY <1>1, <1>2 DEF PoolTypeOK, settings, queue, counts, workers
<1>4. Busy \subseteq Running'
  BY <1>2 DEF TasksInv, EntriesKept, Running, groupVars, threadState
<1>5. TasksInv' /\ TaskState' = TaskState /\ Reports' = Reports
  BY <1>2, <1>3, <1>4, TasksQuiet DEF queue, workers
<1>6. CASE CallPoolJoin(c) /\ Joiners' = Joiners \cup {c}
  BY <1>5, <1>6 DEF Promise!Next, Promise!CallJoin, Reports
<1>7. CASE JoinDone(c) /\ Joiners' = Joiners \ {c} /\ c \in Joiners
  <2>1. exception_queue = <<>> /\ tasks_completed = tasks_inserted
    BY <1>7 DEF JoinDone
  <2>2. Promise!AllDone
    BY <2>1, AllCounted
  <2>3. Reports = {}
    BY <2>1 DEF Reports
  <2>. QED
    BY <1>5, <1>7, <2>2, <2>3 DEF Promise!Next, Promise!Return, Reports
<1>8. CASE Joiners' = Joiners
  BY <1>5, <1>8 DEF Promise!poolPromise, Reports
<1>. QED
  BY <1>2, <1>5, <1>6, <1>7, <1>8

\* A new pool has no tasks, and an old one has none left.
LEMMA ConstructTasks ==
  ASSUME TasksInv, NEW n \in Sizes, NEW affinity \in Affinities, Construct(n, affinity),
         spawn_queue = <<>>, Busy = {}, Joiners = {}
  PROVE  TasksInv' /\ [Promise!Next]_(Promise!poolPromise)
<1>1. /\ pc[Owner] = "idle" /\ pool_size' = n /\ cpu_affinity' = affinity
      /\ spawn_queue' = <<>> /\ stopped' = FALSE /\ tasks_inserted' = 0 /\ tasks_completed' = 0
      /\ exception_queue' = <<>> /\ waiting_on_join' = FALSE /\ restarts' = 0
      /\ pc' = [pc EXCEPT ![Owner] = "spawn"]
      /\ UNCHANGED <<exists, spawned, eventAsleep, workers, together, groupVars>>
  BY DEF Construct
<1>2. PoolTypeOK /\ EntriesKept /\ Owner \in Callers /\ affinity \in BOOLEAN /\ MaxTasks \in Nat
      /\ MaxRestarts \in Nat
  BY PoolAssumption DEF TasksInv
<1>3. Busy' = {} /\ Running' = Running /\ Joiners' = {}
  BY <1>1, <1>2 DEF Busy, Running, Joiners, PoolTypeOK, workers, groupVars, threadState
<1>4. PoolTypeOK'
  <2>1. /\ pc' \in [Callers -> {"idle", "empty", "enter", "event",
                                "spawn", "restart", "flush", "last"}]
        /\ eventAsleep' \subseteq {c \in Callers : pc'[c] = "event"}
    BY <1>1, <1>2 DEF PoolTypeOK
  <2>2. /\ {tasks_inserted', tasks_completed'} \subseteq 0 .. MaxTasks
        /\ restarts' \in 0 .. MaxRestarts
    BY <1>1, <1>2
  <2>3. spawn_queue' \in Seq(TaskOf) /\ exception_queue' \in Seq(TaskNrs)
    BY <1>1, EmptySeq
  <2>. QED
    BY <1>1, <1>2, <1>3, <2>1, <2>2, <2>3 DEF PoolTypeOK, workers
<1>5. EntriesKept'
  BY <1>1, <1>2, <1>3 DEF EntriesKept, Busy, workers
<1>6. TasksCounted'
  BY <1>1, <1>3, FS_EmptySet, EmptySeq DEF TasksCounted
<1>7. TasksApart' /\ ReportsApart'
  BY <1>1, <1>3 DEF TasksApart, ReportsApart
<1>8. TaskState' = [k \in TaskNrs |-> "new"]
  <2>1. \A k \in TaskNrs : k > tasks_inserted'
    BY <1>1 DEF TaskNrs
  <2>. QED
    BY <2>1 DEF TaskState
<1>9. Reports' = {}
  BY <1>1 DEF Reports
<1>10. Promise!AllDone
  BY AllCounted
<1>11. Promise!Renew
  BY <1>3, <1>8, <1>9, <1>10 DEF Promise!Renew, Promise!Tasks, Reports, TaskNrs
<1>. QED
  BY <1>4, <1>5, <1>6, <1>7, <1>11 DEF TasksInv, Promise!Next

\* The other steps of the owner are none of TaskPool.
LEMMA OwnerTasks ==
  ASSUME TasksInv, stage \in [Threads -> {"free", "running", "exiting", "ended"}],
         \/ Spawn \/ SpawnDone \/ Restart \/ Destroy \/ Flush \/ Destroyed
         \/ OwnerJoinStep \/ OwnerSpurious
         \/ \E n \in Sizes : Resize(n)
         \/ \E affinity \in BOOLEAN : SetCpuAffinity(affinity)
  PROVE  TasksInv' /\ [Promise!Next]_(Promise!poolPromise)
<1>. DEFINE Pcs == {"idle", "empty", "enter", "event", "spawn", "restart", "flush", "last"}
            Away == {"idle", "spawn", "restart", "flush", "last"}
<1>1. /\ PoolTypeOK /\ pc \in [Callers -> Pcs] /\ Owner \in Callers
      /\ spawned \in Nat /\ restarts \in 0 .. MaxRestarts /\ MaxRestarts \in Nat
      /\ pool_size \in Sizes \cup {0} /\ stopped \in BOOLEAN /\ cpu_affinity \in BOOLEAN
      /\ exists \in BOOLEAN
  BY PoolAssumption DEF TasksInv, PoolTypeOK
<1>2. UNCHANGED <<spawn_queue, exception_queue, counts, events, workers, together>>
  <2>1. CASE Spawn \/ SpawnDone \/ Destroy \/ Destroyed \/ Restart \/ Flush
    BY <2>1 DEF Spawn, SpawnDone, Destroy, Destroyed, Restart, Flush, queue, clients,
       events
  <2>2. CASE OwnerJoinStep \/ OwnerSpurious
    BY <2>2 DEF OwnerJoinStep, OwnerSpurious, poolVars, queue, clients, events
  <2>3. CASE StopWorkers
    BY <2>3 DEF StopWorkers, events
  <2>. QED
    BY <2>1, <2>2, <2>3 DEF Resize, SetCpuAffinity
<1>3. /\ stopped' \in BOOLEAN /\ cpu_affinity' \in BOOLEAN /\ exists' \in BOOLEAN
      /\ pool_size' \in Sizes \cup {0}
  <2>1. CASE Spawn \/ SpawnDone \/ Destroy \/ Destroyed \/ Restart \/ Flush
    BY <1>1, <2>1, Zenon DEF Spawn, SpawnDone, Destroy, Destroyed, Restart, Flush, settings, queue
  <2>2. CASE OwnerJoinStep \/ OwnerSpurious
    BY <1>1, <2>2, Zenon DEF OwnerJoinStep, OwnerSpurious, poolVars, settings, queue
  <2>3. ASSUME NEW n \in Sizes, Resize(n) PROVE <1>3!:
    BY <1>1, <2>3, Zenon DEF Resize, StopWorkers
  <2>4. ASSUME NEW affinity \in BOOLEAN, SetCpuAffinity(affinity) PROVE <1>3!:
    BY <1>1, <2>4, Zenon DEF SetCpuAffinity, StopWorkers
  <2>. QED
    BY <2>1, <2>2, <2>3, <2>4
<1>4. spawned' \in Nat /\ restarts' \in 0 .. MaxRestarts
  <2>1. spawned' \in {spawned, spawned + 1, 0}
    BY DEF Spawn, SpawnDone, Destroy, Destroyed, Restart, Flush, OwnerJoinStep, OwnerSpurious,
       Resize, SetCpuAffinity, StopWorkers, poolVars, settings
  <2>2. restarts' = restarts \/ (restarts < MaxRestarts /\ restarts' = restarts + 1)
    BY DEF Spawn, SpawnDone, Destroy, Destroyed, Restart, Flush, OwnerJoinStep, OwnerSpurious,
       Resize, SetCpuAffinity, StopWorkers, poolVars, settings
  <2>. QED
    BY <1>1, <2>1, <2>2
<1>5. pc' = pc \/ (pc[Owner] \in Away /\ \E x \in Away : pc' = [pc EXCEPT ![Owner] = x])
  BY Zenon DEF Spawn, SpawnDone, Destroy, Destroyed, Restart, Flush, OwnerJoinStep, OwnerSpurious,
     Resize, SetCpuAffinity, StopWorkers, poolVars, clients, OwnerIdle
<1>6. /\ pc' \in [Callers -> Pcs] /\ Joiners' = Joiners
      /\ \A c \in Callers : pc[c] = "event" => pc'[c] = "event"
  <2>1. CASE pc' = pc
    BY <1>1, <2>1 DEF Joiners
  <2>2. ASSUME pc[Owner] \in Away, NEW x \in Away, pc' = [pc EXCEPT ![Owner] = x]
        PROVE  <1>6!:
    <3>1. pc'[Owner] = x /\ \A c \in Callers \ {Owner} : pc'[c] = pc[c]
      BY <1>1, <2>2
    <3>2. \A c \in Callers : \A s \in {"empty", "enter", "event"} : pc'[c] = s <=> pc[c] = s
      BY <2>2, <3>1
    <3>. QED
      BY <1>1, <2>2, <3>2 DEF Joiners
  <2>. QED
    BY <1>5, <2>1, <2>2
<1>7. PoolTypeOK'
  <2>1. eventAsleep' \subseteq {c \in Callers : pc'[c] = "event"}
    BY <1>1, <1>2, <1>6 DEF PoolTypeOK, events
  <2>. QED
    BY <1>1, <1>2, <1>6, <1>3, <1>4, <2>1 DEF PoolTypeOK, events, counts, workers
<1>8. Running \subseteq Running'
  <2>1. \/ UNCHANGED stage
        \/ \E t : stage' = [stage EXCEPT ![t] = "running"]
        \/ \E t : stage[t] = "ended" /\ stage' = [stage EXCEPT ![t] = "free"]
    <3>1. CASE Spawn
      BY <3>1, Zenon DEF Spawn, TakeId, LaunchStep, StoreCounter, CountThread, CreateThread, threadState
    <3>2. CASE SpawnDone \/ Restart \/ Destroy \/ Flush \/ Destroyed \/ OwnerSpurious
      BY <3>2 DEF SpawnDone, Restart, Destroy, Flush, Destroyed, OwnerSpurious, CallJoin,
         GroupSpurious, threadState, groupVars
    <3>3. CASE OwnerJoinStep
      BY <3>3, Zenon DEF OwnerJoinStep, JoinStep, JoinReturn, JoinWait, JoinPop, JoinThread, threadState
    <3>4. CASE StopWorkers
      BY <3>4 DEF StopWorkers, CallJoin, threadState
    <3>. QED
      BY <3>1, <3>2, <3>3, <3>4 DEF Resize, SetCpuAffinity
  <2>. QED
    BY <2>1 DEF Running
<1>9. TasksInv' /\ TaskState' = TaskState /\ Reports' = Reports
  <2>1. Busy \subseteq Running'
    BY <1>8 DEF TasksInv, EntriesKept
  <2>. QED
    BY <1>2, <1>7, <2>1, TasksQuiet DEF workers
<1>. QED
  BY <1>6, <1>9 DEF Promise!poolPromise, Reports

\* A worker that ends has no task.
LEMMA WorkerEndTasks ==
  ASSUME TasksInv, stage \in [Threads -> {"free", "running", "exiting", "ended"}],
         NEW t \in Threads, Quit(t) \/ ExitWorker(t)
  PROVE  TasksInv' /\ [Promise!Next]_(Promise!poolPromise)
<1>1. /\ UNCHANGED <<settings, queue, events, counts, worker, entry, cur_thread_id, clients>>
      /\ renamed' \subseteq renamed
  BY DEF Quit, ExitWorker, poolVars, workers
<1>2. PoolTypeOK'
  BY <1>1 DEF TasksInv, PoolTypeOK, settings, queue, events, counts, clients, Joiners
<1>3. Busy \subseteq Running'
  <2>1. t \notin Busy /\ (stage' = [stage EXCEPT ![t] = "exiting"] \/ stage' = [stage EXCEPT ![t] = "ended"])
    BY DEF Quit, ExitWorker, ThreadFinish, ThreadEnd, Busy, TasksInv, EntriesKept, Running
  <2>. QED
    BY <2>1 DEF TasksInv, EntriesKept, Running
<1>4. TasksInv' /\ TaskState' = TaskState /\ Reports' = Reports
  BY <1>1, <1>2, <1>3, TasksQuiet DEF queue, events
<1>5. Joiners' = Joiners
  BY <1>1 DEF Joiners, clients
<1>. QED
  BY <1>4, <1>5 DEF Promise!poolPromise, Reports

-----------------------------------------------------------------------------
(* The group under the pool.                                                *)

\* A worker changes its own id and nothing else of the group.
LEMMA RenameKeepsGroup ==
  ASSUME GroupIInv, id' \in [Threads -> Nat],
         UNCHANGED <<groupCounts, joinqueue, groupAsleep, stage, cpu, groupLocals>>
  PROVE  GroupIInv'
<1>1. UNCHANGED <<m_thread_counter, threads_running, overlapped, joinqueue, groupAsleep,
                  stage, cpu, at, newid, joining, shared>>
  BY DEF groupCounts, groupLocals
<1>2. /\ Running' = Running /\ Free' = Free /\ Creating' = Creating /\ Launching' = Launching
  BY <1>1 DEF Running, Free, Creating, Launching
<1>3. GroupTypeOK' /\ IdsBounded'
  BY <1>1 DEF GroupIInv, GroupTypeOK, IdsBounded
<1>. QED
  BY <1>1, <1>2, <1>3, GroupQuietStep DEF GroupIInv

\* Every step of the pool keeps the invariant of its group.
LEMMA PoolKeepsGroup ==
  ASSUME GroupIInv, TasksInv, PoolNext
  PROVE  GroupIInv'
<1>0. Owner \in Callers /\ Ncpus \in Nat \ {0}
  BY PoolAssumption, GroupAssumption
<1>1. ASSUME UNCHANGED groupVars PROVE GroupIInv'
  BY <1>1, GroupStepInvariant
<1>2. ASSUME CallJoin(Owner) \/ JoinStep(Owner) \/ GroupSpurious(Owner) PROVE GroupIInv'
  BY <1>0, <1>2, JoinInvariant
<1>3. CASE Spawn
  <2>1. CASE TakeId(Owner)
    <3>1. AnyCpu \in Nat \cup {AnyCpu}
      OBVIOUS
    <3>. QED
      BY <1>0, <2>1, <3>1, LaunchInvariant
  <2>2. ASSUME LaunchStep(Owner, IF cpu_affinity THEN spawned % Ncpus ELSE AnyCpu)
        PROVE  GroupIInv'
    <3>1. spawned % Ncpus \in Nat
      BY <1>0 DEF TasksInv, PoolTypeOK
    <3>2. (IF cpu_affinity THEN spawned % Ncpus ELSE AnyCpu) \in Nat \cup {AnyCpu}
      BY <3>1
    <3>. QED
      BY <1>0, <2>2, <3>2, LaunchInvariant
  <2>. QED
    BY <1>3, <2>1, <2>2 DEF Spawn
<1>4. CASE \/ SpawnDone \/ Restart \/ Destroy \/ Destroyed
           \/ \E n \in Sizes, affinity \in Affinities : Construct(n, affinity)
           \/ \E c \in Callers, vid \in VirtualIds \cup {NoVid} : Launch(c, vid)
           \/ \E c \in Callers : CallPoolJoin(c) \/ PoolJoinStep(c) \/ EventSpurious(c)
  BY <1>1, <1>4 DEF SpawnDone, Restart, Destroy, Destroyed, Construct, Launch, CallPoolJoin,
     PoolJoinStep, WaitUntilEmpty, JoinThrow, JoinDone, JoinSleep, LeaveJoin, EventSpurious
<1>5. CASE \/ Flush \/ OwnerJoinStep \/ OwnerSpurious
           \/ \E n \in Sizes : Resize(n)
           \/ \E affinity \in BOOLEAN : SetCpuAffinity(affinity)
  BY <1>2, <1>5 DEF Flush, OwnerJoinStep, OwnerSpurious, Resize, SetCpuAffinity, StopWorkers
<1>6. ASSUME NEW t \in Threads, WorkerStep(t) PROVE GroupIInv'
  <2>1. id \in [Threads -> Nat] /\ cur_thread_id \in [Threads -> Nat]
    BY DEF GroupIInv, GroupTypeOK, TasksInv, EntriesKept
  <2>2. CASE TakeTask(t)
    <3>1. Head(spawn_queue) \in TaskOf
      <4>1. spawn_queue \in Seq(TaskOf) /\ spawn_queue # <<>>
        BY <2>2 DEF TasksInv, PoolTypeOK, TakeTask
      <4>. QED
        BY <4>1
    <3>2. Head(spawn_queue).vid # NoVid => Head(spawn_queue).vid \in Nat
      BY <3>1, PoolAssumption DEF TaskOf
    <3>3. id' = [id EXCEPT ![t] = IF Head(spawn_queue).vid # NoVid
                                   THEN Head(spawn_queue).vid ELSE id[t]]
      BY <2>2 DEF TakeTask, SetThreadId
    <3>4. id' \in [Threads -> Nat]
      BY <2>1, <3>2, <3>3
    <3>. QED
      BY <2>2, <3>4, RenameKeepsGroup DEF TakeTask
  <2>3. CASE TaskReturns(t)
    <3>1. id' \in [Threads -> Nat]
      BY <2>1, <2>3 DEF TaskReturns, SetThreadId
    <3>. QED
      BY <2>3, <3>1, RenameKeepsGroup DEF TaskReturns
  <2>4. CASE TaskThrows(t) \/ CountTask(t)
    BY <1>1, <2>4 DEF TaskThrows, CountTask
  <2>5. CASE Quit(t)
    BY <2>5, ThreadInvariant DEF Quit, ThreadStep
  <2>6. CASE ExitWorker(t)
    BY <2>6, ThreadInvariant DEF ExitWorker, ThreadStep
  <2>. QED
    BY <1>6, <2>2, <2>3, <2>4, <2>5, <2>6 DEF WorkerStep
<1>. QED
  BY <1>3, <1>4, <1>5, <1>6 DEF PoolNext, OwnerStep

-----------------------------------------------------------------------------
(* The owner and the workers.                                               *)

\* The workers keep their ids and CPUs.
LEMMA ConfiguredSame ==
  ASSUME Configured, Running' = Running, Size' = Size, renamed \subseteq renamed',
         UNCHANGED <<cpu, cpu_affinity>>,
         \A t \in Running \ renamed' : OwnId'[t] = OwnId[t]
  PROVE  Configured'
BY DEF Configured

\* No worker starts a task.
LEMMA NamesSame ==
  ASSUME NamesKept, renamed' \subseteq Running',
         \A t \in Threads : worker'[t] = "run" =>
           /\ worker[t] = "run" /\ id'[t] = id[t] /\ entry'[t] = entry[t]
           /\ cur_thread_id'[t] = cur_thread_id[t]
  PROVE  NamesKept'
BY DEF NamesKept, OwnId

\* The owner stays where it is.
LEMMA CourseSame ==
  ASSUME OwnerCourse,
         UNCHANGED <<pc, exists, spawned, pool_size, groupCounts, at, newid, joining>>,
         \A i \in DOMAIN joinqueue' : ~joinqueue'[i].failed,
         ~exists /\ spawn_queue = <<>> => spawn_queue' = <<>>
  PROVE  OwnerCourse'
<1>1. GroupOwned'
  BY DEF OwnerCourse, GroupOwned, groupCounts
<1>2. OwnerPlaces' /\ SpawnUnderWay' /\ (GroupJoined => threads_running = 0)'
  BY DEF OwnerCourse, OwnerPlaces, SpawnUnderWay, GroupJoined, groupCounts
<1>3. exists => pc[Owner] # "last"
  BY DEF OwnerCourse, OwnerPlaces
<1>. QED
  BY <1>1, <1>2, <1>3 DEF OwnerCourse

\* A client moves through join().
LEMMA CourseClient ==
  ASSUME OwnerCourse, exists, NEW c \in Callers,
         pc \in [Callers -> {"idle", "empty", "enter", "event", "spawn", "restart", "flush", "last"}],
         NEW x \in {"idle", "empty", "enter", "event"},
         pc[c] \in {"idle", "empty", "enter", "event"}, pc' = [pc EXCEPT ![c] = x],
         UNCHANGED <<settings, spawn_queue, groupVars>>
  PROVE  OwnerCourse' /\ (Staffed' <=> Staffed) /\ Size' = Size
<1>1. UNCHANGED <<pool_size, exists, spawned, m_thread_counter, threads_running,
                  joinqueue, at, newid, joining>>
  BY DEF settings, groupVars, groupCounts, groupLocals
<1>2. \A d \in Callers : pc'[d] = IF d = c THEN x ELSE pc[d]
  OBVIOUS
<1>3. Owner \in Callers
  BY PoolAssumption
<1>4. OwnerPlaces'
  <2>1. \A d \in Others : pc'[d] \in {"idle", "empty", "enter", "event"}
    BY <1>2 DEF OwnerCourse, OwnerPlaces, Others
  <2>2. CASE c = Owner
    BY <1>1, <1>2, <1>3, <2>1, <2>2 DEF OwnerCourse, OwnerPlaces
  <2>3. CASE c # Owner
    <3>1. pc'[Owner] = pc[Owner]
      BY <1>2, <1>3, <2>3
    <3>. QED
      BY <1>1, <2>1, <3>1 DEF OwnerCourse, OwnerPlaces
  <2>. QED
    BY <2>2, <2>3
<1>5. pc'[Owner] = pc[Owner] \/ {pc[Owner], pc'[Owner]} \subseteq {"idle", "empty", "enter", "event"}
  BY <1>2, <1>3
<1>6. GroupOwned' /\ SpawnUnderWay'
  BY <1>1, <1>5 DEF OwnerCourse, GroupOwned, SpawnUnderWay, OwnerPlaces
<1>7. (GroupJoined => threads_running = 0)'
  BY <1>1, <1>5 DEF OwnerCourse, GroupJoined
<1>. QED
  BY <1>1, <1>4, <1>5, <1>6, <1>7 DEF OwnerCourse, Staffed, InUse, Size

\* A worker that has work to do keeps its own id, and takes no task from a
\* queue that is empty.
LEMMA WorkerOwner ==
  ASSUME GroupTypeOK, TasksInv, OwnerInv, NEW t \in Threads,
         TakeTask(t) \/ TaskReturns(t) \/ TaskThrows(t) \/ CountTask(t)
  PROVE  OwnerInv'
<1>1. /\ UNCHANGED <<pc, settings, stopped, groupCounts, joinqueue, stage, cpu, groupLocals>>
      /\ renamed \subseteq renamed' /\ renamed' \subseteq renamed \cup {t}
      /\ spawn_queue = <<>> => spawn_queue' = <<>>
  BY DEF TakeTask, TaskReturns, TaskThrows, CountTask, clients, queue, workers, groupVars, threadState
<1>2. UNCHANGED <<pc, exists, spawned, pool_size, cpu_affinity, at, newid, joining, Running,
                  Staffed, Size>>
  BY <1>1 DEF settings, groupLocals, Running, Staffed, InUse, Size
<1>3. OwnerCourse'
  BY <1>1, <1>2, CourseSame DEF OwnerInv, OwnerCourse, GroupOwned
<1>4. /\ worker \in [Threads -> {"dequeue", "run", "ran", "threw"}]
      /\ entry \in [Threads -> TaskOf \cup {NoTask}]
      /\ cur_thread_id \in [Threads -> Nat] /\ id \in [Threads -> Nat]
      /\ Busy \subseteq Running
  BY DEF TasksInv, PoolTypeOK, EntriesKept, GroupTypeOK
<1>5. t \in Running
  BY <1>4 DEF TakeTask, TaskReturns, TaskThrows, CountTask, Busy
<1>6. renamed' \subseteq Running'
  BY <1>1, <1>2, <1>5 DEF OwnerInv, NamesKept
<1>7. NamesKept' /\ \A u \in Threads \ renamed' : OwnId'[u] = OwnId[u]
  <2>1. CASE TakeTask(t)
    <3>1. /\ worker' = [worker EXCEPT ![t] = "run"] /\ worker[t] = "dequeue"
          /\ cur_thread_id' = [cur_thread_id EXCEPT ![t] = id[t]]
          /\ entry' = [entry EXCEPT ![t] = Head(spawn_queue)]
          /\ id' = [id EXCEPT ![t] = IF Head(spawn_queue).vid # NoVid
                                     THEN Head(spawn_queue).vid ELSE id[t]]
      BY <2>1 DEF TakeTask, SetThreadId
    <3>2. /\ worker'[t] = "run" /\ cur_thread_id'[t] = id[t] /\ entry'[t] = Head(spawn_queue)
          /\ id'[t] = IF entry'[t].vid # NoVid THEN entry'[t].vid ELSE cur_thread_id'[t]
      BY <1>4, <3>1
    <3>3. \A u \in Threads \ {t} : /\ worker'[u] = worker[u] /\ cur_thread_id'[u] = cur_thread_id[u]
                                   /\ entry'[u] = entry[u] /\ id'[u] = id[u]
      BY <1>4, <3>1
    <3>4. OwnId' = OwnId
      BY <1>4, <3>1, <3>2, <3>3 DEF OwnId
    <3>. QED
      BY <1>6, <3>2, <3>3, <3>4 DEF OwnerInv, NamesKept, OwnId
  <2>2. CASE TaskReturns(t)
    <3>1. /\ worker' = [worker EXCEPT ![t] = "ran"] /\ worker[t] = "run"
          /\ id' = [id EXCEPT ![t] = cur_thread_id[t]]
          /\ UNCHANGED <<cur_thread_id, entry>>
      BY <2>2 DEF TaskReturns, SetThreadId
    <3>2. /\ worker'[t] = "ran" /\ id'[t] = cur_thread_id[t]
          /\ \A u \in Threads \ {t} : worker'[u] = worker[u] /\ id'[u] = id[u]
      BY <1>4, <3>1
    <3>3. OwnId' = OwnId
      BY <1>4, <3>1, <3>2 DEF OwnId
    <3>4. NamesKept'
      BY <1>6, <3>1, <3>2, NamesSame DEF OwnerInv
    <3>. QED
      BY <3>3, <3>4
  <2>3. CASE TaskThrows(t)
    <3>1. /\ worker' = [worker EXCEPT ![t] = "threw"] /\ worker[t] = "run"
          /\ renamed' = IF entry[t].vid # NoVid THEN renamed \cup {t} ELSE renamed
          /\ UNCHANGED <<cur_thread_id, entry, id>>
      BY <2>3 DEF TaskThrows, groupVars, threadState
    <3>2. worker'[t] = "threw" /\ \A u \in Threads \ {t} : worker'[u] = worker[u]
      BY <1>4, <3>1
    <3>3. t \in renamed' \/ id[t] = cur_thread_id[t]
      BY <3>1 DEF OwnerInv, NamesKept, OwnId
    <3>4. \A u \in Threads \ renamed' : OwnId'[u] = OwnId[u]
      BY <1>4, <3>1, <3>2, <3>3 DEF OwnId
    <3>5. NamesKept'
      BY <1>6, <3>1, <3>2, NamesSame DEF OwnerInv
    <3>. QED
      BY <3>4, <3>5
  <2>4. CASE CountTask(t)
    <3>1. /\ worker' = [worker EXCEPT ![t] = "dequeue"] /\ worker[t] \in {"ran", "threw"}
          /\ cur_thread_id' = [cur_thread_id EXCEPT ![t] = 0]
          /\ entry' = [entry EXCEPT ![t] = NoTask] /\ UNCHANGED id
      BY <2>4 DEF CountTask, groupVars, threadState
    <3>2. /\ worker'[t] = "dequeue"
          /\ \A u \in Threads \ {t} : /\ worker'[u] = worker[u] /\ entry'[u] = entry[u]
                                      /\ cur_thread_id'[u] = cur_thread_id[u]
      BY <1>4, <3>1
    <3>3. OwnId' = OwnId
      BY <1>4, <3>1, <3>2 DEF OwnId
    <3>4. NamesKept'
      BY <1>6, <3>1, <3>2, NamesSame DEF OwnerInv
    <3>. QED
      BY <3>3, <3>4
  <2>. QED
    BY <2>1, <2>2, <2>3, <2>4
<1>8. \A u \in Running \ renamed' : OwnId'[u] = OwnId[u]
  BY <1>7 DEF Running
<1>9. Staffed' => ~stopped' /\ Configured'
  <2>1. SUFFICES ASSUME Staffed PROVE ~stopped' /\ Configured'
    BY <1>2
  <2>2. ~stopped /\ Configured
    BY <2>1 DEF OwnerInv
  <2>. QED
    BY <1>1, <1>2, <1>8, <2>2, ConfiguredSame
<1>. QED
  BY <1>3, <1>7, <1>9 DEF OwnerInv

\* A worker leaves the group only when the owner has stopped the queue, and
\* then the workers are not counted on.
LEMMA LeavingOwner ==
  ASSUME GroupTypeOK, TasksInv, OwnerInv, NEW t \in Threads, Quit(t) \/ ExitWorker(t)
  PROVE  OwnerInv'
<1>1. /\ UNCHANGED <<pc, settings, stopped, spawn_queue, groupCounts, groupLocals, id, cpu,
                     worker, entry, cur_thread_id>>
      /\ renamed' = IF Quit(t) THEN renamed \ {t} ELSE renamed
  <2>1. CASE Quit(t)
    BY <2>1 DEF Quit, ThreadFinish, queue, clients
  <2>2. CASE ExitWorker(t) /\ ~Quit(t)
    BY <2>2 DEF ExitWorker, ThreadEnd, poolVars, queue, clients, workers
  <2>. QED
    BY <2>1, <2>2
<1>2. UNCHANGED <<pc, exists, spawned, pool_size, cpu_affinity, at, newid, joining, Staffed, Size>>
  BY <1>1 DEF settings, groupLocals, Staffed, InUse, Size
<1>3. \A i \in DOMAIN joinqueue' : ~joinqueue'[i].failed
  <2>1. CASE Quit(t)
    <3>1. /\ joinqueue \in Seq([thread : SUBSET Threads, failed : BOOLEAN])
          /\ joinqueue' = Append(joinqueue, [thread |-> {t}, failed |-> FALSE])
          /\ [thread |-> {t}, failed |-> FALSE] \in [thread : SUBSET Threads, failed : BOOLEAN]
      BY <2>1 DEF Quit, ThreadFinish, GroupTypeOK
    <3>2. \A i \in DOMAIN joinqueue : ~joinqueue[i].failed
      BY DEF OwnerInv, OwnerCourse, GroupOwned
    <3>. QED
      BY <3>1, <3>2, AppendProperties
  <2>2. CASE ExitWorker(t)
    BY <2>2 DEF ExitWorker, ThreadEnd, OwnerInv, OwnerCourse, GroupOwned
  <2>. QED
    BY <2>1, <2>2
<1>4. OwnerCourse'
  BY <1>1, <1>2, <1>3, CourseSame DEF OwnerInv
<1>5. stage \in [Threads -> {"free", "running", "exiting", "ended"}]
  BY DEF GroupTypeOK
<1>6. /\ Quit(t) => Running' = Running \ {t} /\ stopped
      /\ ExitWorker(t) => Running' = Running
  BY <1>5 DEF Quit, ExitWorker, ThreadFinish, ThreadEnd, Running
<1>7. renamed' \subseteq Running'
  BY <1>1, <1>6 DEF OwnerInv, NamesKept
<1>8. NamesKept'
  BY <1>1, <1>7, NamesSame DEF OwnerInv
<1>9. OwnId' = OwnId
  BY <1>1 DEF OwnId
<1>10. Staffed' => ~stopped' /\ Configured'
  <2>1. SUFFICES ASSUME Staffed PROVE ~stopped' /\ Configured'
    BY <1>2
  <2>2. ~stopped /\ Configured
    BY <2>1 DEF OwnerInv
  <2>3. ExitWorker(t) /\ ~Quit(t)
    BY <1>6, <2>2
  <2>. QED
    BY <1>1, <1>2, <1>6, <1>9, <2>2, <2>3, ConfiguredSame
<1>. QED
  BY <1>4, <1>8, <1>10 DEF OwnerInv

\* launch() and join() leave the group of workers alone.
LEMMA ClientOwner ==
  ASSUME PoolTypeOK, OwnerInv, NEW c \in Callers, NEW vid \in VirtualIds \cup {NoVid},
         Launch(c, vid) \/ CallPoolJoin(c) \/ PoolJoinStep(c) \/ EventSpurious(c)
  PROVE  OwnerInv'
<1>1. UNCHANGED <<settings, stopped, workers, groupVars>>
  BY DEF Launch, CallPoolJoin, PoolJoinStep, WaitUntilEmpty, JoinThrow, JoinDone, JoinSleep,
     LeaveJoin, EventSpurious, queue
<1>2. UNCHANGED <<exists, spawned, pool_size, cpu_affinity, groupCounts, joinqueue, at, newid,
                  joining, stage, id, cpu, worker, entry, cur_thread_id, renamed, Running, OwnId>>
  BY <1>1 DEF settings, workers, groupVars, groupLocals, threadState, Running, OwnId
<1>3. NamesKept'
  BY <1>2, NamesSame DEF OwnerInv, NamesKept
<1>4. OwnerCourse' /\ (Staffed' <=> Staffed) /\ Size' = Size
  <2>1. CASE Launch(c, vid) \/ EventSpurious(c)
    <3>1. UNCHANGED pc /\ (~exists => UNCHANGED spawn_queue)
      BY <2>1 DEF Launch, EventSpurious, clients, queue
    <3>2. OwnerCourse'
      BY <1>2, <3>1, CourseSame DEF OwnerInv, OwnerCourse, GroupOwned
    <3>. QED
      BY <1>2, <3>1, <3>2 DEF Staffed, InUse, Size
  <2>2. CASE CallPoolJoin(c) \/ PoolJoinStep(c)
    <3>1. /\ pc[c] \in {"idle", "empty", "enter", "event"} /\ UNCHANGED spawn_queue
          /\ \/ pc[c] = "idle" /\ exists
             \/ pc[c] # "idle"
          /\ \/ pc' = [pc EXCEPT ![c] = "idle"] \/ pc' = [pc EXCEPT ![c] = "empty"]
             \/ pc' = [pc EXCEPT ![c] = "enter"] \/ pc' = [pc EXCEPT ![c] = "event"]
      BY <2>2 DEF CallPoolJoin, PoolJoinStep, WaitUntilEmpty, JoinThrow, JoinDone, JoinSleep,
         AtEvents, LeaveJoin, queue
    <3>2. exists
      BY <3>1 DEF OwnerInv, OwnerCourse, OwnerPlaces, Others
    <3>3. pc \in [Callers -> {"idle", "empty", "enter", "event", "spawn", "restart", "flush", "last"}]
      BY DEF PoolTypeOK
    <3>. QED
      BY <1>1, <3>1, <3>2, <3>3, CourseClient DEF OwnerInv
  <2>. QED
    BY <2>1, <2>2
<1>5. Staffed' => ~stopped' /\ Configured'
  <2>1. SUFFICES ASSUME Staffed PROVE ~stopped' /\ Configured'
    BY <1>4
  <2>2. ~stopped /\ Configured
    BY <2>1 DEF OwnerInv
  <2>. QED
    BY <1>1, <1>2, <1>4, <2>2, ConfiguredSame
<1>. QED
  BY <1>3, <1>4, <1>5 DEF OwnerInv

\* Once the owner has joined its group nobody is in it.
LEMMA NobodyRuns ==
  ASSUME GroupIInv, threads_running = 0
  PROVE  Running = {} /\ joinqueue = <<>>
<1>1. joinqueue \in Seq([thread : SUBSET Threads, failed : BOOLEAN]) /\ Len(joinqueue) \in Nat
  BY DEF GroupIInv, GroupTypeOK
<1>2. Cardinality(Running) = 0 /\ Len(joinqueue) = 0
  BY <1>1, AllFinite DEF GroupIInv, RunningCounted
<1>. QED
  BY <1>1, <1>2, AllFinite, FS_EmptySet

\* The owner starts to spawn workers when there are none.
LEMMA SpawningStarts ==
  ASSUME GroupIInv, OwnerInv, GroupJoined, PoolTypeOK, pc' = [pc EXCEPT ![Owner] = "spawn"],
         UNCHANGED <<exists, spawned, workers, groupVars>>, pool_size' \in Nat, ~stopped'
  PROVE  OwnerInv'
<1>1. /\ Owner \in Callers
      /\ pc \in [Callers -> {"idle", "empty", "enter", "event", "spawn", "restart", "flush", "last"}]
  BY PoolAssumption DEF PoolTypeOK
<1>2. pc'[Owner] = "spawn" /\ \A c \in Others : pc'[c] = pc[c]
  BY <1>1 DEF Others
<1>3. UNCHANGED <<m_thread_counter, threads_running, joinqueue, at, newid, joining, stage, id, cpu,
                  worker, entry, cur_thread_id, renamed, Running, OwnId>>
  BY DEF groupVars, groupCounts, groupLocals, threadState, workers, Running, OwnId
<1>4. /\ pc[Owner] \in {"idle", "restart", "last"} /\ at[Owner] = "idle" /\ spawned = 0
      /\ threads_running = 0 /\ m_thread_counter = 0
  BY DEF OwnerInv, OwnerCourse, GroupOwned, GroupJoined, OwnerPlaces
<1>5. Running = {} /\ renamed = {}
  BY <1>4, NobodyRuns DEF OwnerInv, NamesKept
<1>6. NamesKept'
  BY <1>3, <1>5, NamesSame DEF OwnerInv
<1>7. OwnerCourse'
  <2>1. GroupOwned' /\ SpawnUnderWay'
    BY <1>2, <1>3, <1>4 DEF OwnerInv, OwnerCourse, GroupOwned, SpawnUnderWay
  <2>2. OwnerPlaces'
    BY <1>2, <1>3, <1>4 DEF OwnerInv, OwnerCourse, OwnerPlaces
  <2>. QED
    BY <1>2, <2>1, <2>2 DEF OwnerCourse, GroupJoined
<1>8. Configured'
  BY <1>2, <1>3, <1>4, <1>5, FS_EmptySet DEF Configured, Size
<1>. QED
  BY <1>6, <1>7, <1>8 DEF OwnerInv

\* The constructor, resize() and set_cpu_affinity() find the group empty.
LEMMA ConstructOwner ==
  ASSUME PoolIInv, NEW n \in Sizes, NEW affinity \in Affinities, Construct(n, affinity)
  PROVE  OwnerInv' /\ spawn_queue = <<>> /\ Busy = {} /\ Joiners = {}
<1>1. pc[Owner] = "idle" /\ ~exists
  BY DEF Construct
<1>2. GroupJoined /\ spawn_queue = <<>> /\ Joiners = {}
  BY <1>1 DEF PoolIInv, OwnerInv, OwnerCourse, OwnerPlaces, Others, GroupJoined, Joiners
<1>3. Busy = {}
  BY <1>2, NobodyRuns DEF PoolIInv, OwnerInv, OwnerCourse, TasksInv, EntriesKept
<1>4. n \in Nat
  BY PoolAssumption
<1>5. OwnerInv'
  BY <1>2, <1>4, SpawningStarts DEF PoolIInv, TasksInv, Construct
<1>. QED
  BY <1>2, <1>3, <1>5

LEMMA RestartOwner ==
  ASSUME PoolIInv, Restart
  PROVE  OwnerInv'
<1>1. pool_size \in Nat /\ pool_size' = pool_size
  BY PoolAssumption DEF PoolIInv, TasksInv, PoolTypeOK, Restart, settings
<1>. QED
  BY <1>1, SpawningStarts DEF PoolIInv, TasksInv, Restart, GroupJoined, settings

\* When all workers are there, the pool is in use.
LEMMA SpawnDoneOwner ==
  ASSUME PoolTypeOK, OwnerInv, SpawnDone
  PROVE  OwnerInv'
<1>1. /\ Owner \in Callers
      /\ pc \in [Callers -> {"idle", "empty", "enter", "event", "spawn", "restart", "flush", "last"}]
  BY PoolAssumption DEF PoolTypeOK
<1>2. pc[Owner] = "spawn" /\ pc'[Owner] = "idle" /\ \A c \in Others : pc'[c] = pc[c]
  BY <1>1 DEF SpawnDone, Others
<1>3. UNCHANGED <<pool_size, cpu_affinity, stopped, spawn_queue, m_thread_counter, threads_running,
                  joinqueue, at, newid, joining, stage, id, cpu,
                  worker, entry, cur_thread_id, renamed, Running, OwnId>>
  BY DEF SpawnDone, queue, groupVars, groupCounts, groupLocals, threadState, workers, Running, OwnId
<1>4. at[Owner] = "idle" /\ spawned = pool_size /\ spawned' = 0 /\ exists'
  BY DEF SpawnDone
<1>5. Staffed /\ Size' = Size
  BY <1>2, <1>3, <1>4 DEF Staffed, Size
<1>6. OwnerCourse'
  <2>1. GroupOwned' /\ SpawnUnderWay' /\ ~GroupJoined'
    BY <1>2, <1>3, <1>4 DEF OwnerInv, OwnerCourse, GroupOwned, SpawnUnderWay, GroupJoined
  <2>2. OwnerPlaces'
    BY <1>2, <1>3, <1>4 DEF OwnerInv, OwnerCourse, OwnerPlaces
  <2>. QED
    BY <1>2, <1>4, <2>1, <2>2 DEF OwnerCourse
<1>7. NamesKept'
  BY <1>3, NamesSame DEF OwnerInv, NamesKept
<1>8. ~stopped' /\ Configured'
  BY <1>3, <1>5, ConfiguredSame DEF OwnerInv
<1>. QED
  BY <1>6, <1>7, <1>8 DEF OwnerInv

\* The owner leaves its workers to themselves, or to threads.join().
LEMMA LeavesWorkersOwner ==
  ASSUME PoolTypeOK, OwnerInv, GroupTypeOK,
         \/ Destroy \/ Flush \/ Destroyed
         \/ \E n \in Sizes : Resize(n)
         \/ \E affinity \in BOOLEAN : SetCpuAffinity(affinity)
  PROVE  OwnerInv'
<1>1. /\ Owner \in Callers /\ at \in [Callers -> {"idle", "store", "count", "create",
                                                   "test", "wait", "pthread_join"}]
      /\ pc \in [Callers -> {"idle", "empty", "enter", "event", "spawn", "restart", "flush", "last"}]
  BY PoolAssumption DEF PoolTypeOK, GroupTypeOK
<1>2. /\ UNCHANGED <<spawned, spawn_queue, workers, groupCounts, joinqueue, threadState, newid, joining>>
      /\ at[Owner] = "idle"
      /\ \/ /\ pc[Owner] = "idle" /\ pc' = [pc EXCEPT ![Owner] = "flush"] /\ at' = at /\ ~exists'
            /\ \A c \in Callers : pc[c] = "idle"
         \/ /\ pc[Owner] = "flush" /\ pc' = [pc EXCEPT ![Owner] = "last"]
            /\ at' = [at EXCEPT ![Owner] = "test"] /\ exists' = exists /\ spawn_queue = <<>>
         \/ /\ pc[Owner] = "last" /\ pc' = [pc EXCEPT ![Owner] = "idle"] /\ at' = at /\ exists' = exists
         \/ /\ pc[Owner] = "idle" /\ exists /\ pc' = [pc EXCEPT ![Owner] = "restart"]
            /\ at' = [at EXCEPT ![Owner] = "test"] /\ exists'
  <2>1. CASE Destroy
    BY <2>1 DEF Destroy, OwnerIdle, queue, groupVars, groupLocals, OwnerInv, OwnerCourse, OwnerPlaces
  <2>2. CASE Flush
    BY <2>2 DEF Flush, CallJoin, settings
  <2>3. CASE Destroyed
    BY <2>3 DEF Destroyed, settings, queue, groupVars, groupLocals
  <2>4. CASE StopWorkers
    BY <2>4 DEF StopWorkers, OwnerIdle, CallJoin
  <2>. QED
    BY <2>1, <2>2, <2>3, <2>4 DEF Resize, SetCpuAffinity
<1>3. /\ pc'[Owner] \in {"flush", "last", "idle", "restart"} /\ \A c \in Others : pc'[c] = pc[c]
      /\ \A c \in Others : at'[c] = at[c]
  BY <1>1, <1>2 DEF Others
<1>4. UNCHANGED <<m_thread_counter, threads_running, stage, id, cpu, worker, entry, cur_thread_id,
                  renamed, Running>>
  BY <1>2 DEF groupCounts, threadState, workers, Running
<1>5. ~Staffed'
  BY <1>1, <1>2 DEF Staffed, InUse, OwnerInv, OwnerCourse, OwnerPlaces
<1>6. NamesKept'
  BY <1>4, NamesSame DEF OwnerInv, NamesKept
<1>7. GroupOwned'
  BY <1>1, <1>2, <1>3, <1>4 DEF OwnerInv, OwnerCourse, GroupOwned
<1>8. OwnerPlaces'
  BY <1>1, <1>2, <1>3 DEF OwnerInv, OwnerCourse, OwnerPlaces, Others
<1>9. (GroupJoined => threads_running = 0)'
  BY <1>1, <1>2, <1>4 DEF OwnerInv, OwnerCourse, OwnerPlaces, GroupJoined
<1>. QED
  BY <1>1, <1>2, <1>3, <1>5, <1>6, <1>7, <1>8, <1>9 DEF OwnerInv, OwnerCourse, SpawnUnderWay

\* threads.join(): it takes the workers away, and throws nothing.
LEMMA JoinOwner ==
  ASSUME PoolTypeOK, EntriesKept, GroupIInv, OwnerInv, JoinStep(Owner), UNCHANGED poolVars
  PROVE  OwnerInv'
<1>. DEFINE Ats == {"idle", "store", "count", "create", "test", "wait", "pthread_join"}
            Exit == [thread : SUBSET Threads, failed : BOOLEAN]
<1>1. /\ Owner \in Callers /\ at \in [Callers -> Ats] /\ joinqueue \in Seq(Exit)
      /\ joining \in [Callers -> Exit] /\ threads_running \in Nat
      /\ stage \in [Threads -> {"free", "running", "exiting", "ended"}]
      /\ id \in [Threads -> Nat]
      /\ pc \in [Callers -> {"idle", "empty", "enter", "event", "spawn", "restart", "flush", "last"}]
  BY PoolAssumption DEF PoolTypeOK, GroupIInv, GroupTypeOK
<1>2. UNCHANGED <<spawned, stopped, spawn_queue, pc, exists, pool_size, worker, entry, cur_thread_id,
                  renamed>>
  BY DEF poolVars, settings, queue, clients, workers
<1>3. at[Owner] \in {"test", "wait", "pthread_join"}
  BY DEF JoinStep, JoinReturn, JoinWait, JoinPop, JoinThread, AtJoinQueue
<1>4. pc[Owner] \in {"restart", "last"}
  BY <1>1, <1>3 DEF OwnerInv, OwnerCourse, OwnerPlaces
<1>5. Running' = Running
  <2>1. \/ UNCHANGED stage
        \/ \E t : stage[t] = "ended" /\ stage' = [stage EXCEPT ![t] = "free"]
    BY Zenon DEF JoinStep, JoinReturn, JoinWait, JoinPop, JoinThread, threadState
  <2>. QED
    BY <1>1, <2>1 DEF Running
<1>6. \A t \in Running : id'[t] = id[t]
  <2>1. \/ UNCHANGED id
        \/ \E t : stage[t] = "ended" /\ id' = [id EXCEPT ![t] = 0]
    BY Zenon DEF JoinStep, JoinReturn, JoinWait, JoinPop, JoinThread, threadState
  <2>. QED
    BY <1>1, <2>1 DEF Running
<1>7. NamesKept'
  <2>1. \A t \in Threads : worker[t] = "run" => t \in Running
    BY DEF EntriesKept, Busy
  <2>. QED
    BY <1>2, <1>5, <1>6, <2>1, NamesSame DEF OwnerInv, NamesKept
<1>8. /\ \A c \in Others : at'[c] = at[c]
      /\ at'[Owner] \in {"idle", "test", "wait", "pthread_join"}
      /\ at'[Owner] = "idle" => threads_running' = 0
      /\ \A i \in DOMAIN joinqueue' : ~joinqueue'[i].failed
      /\ ~joining'[Owner].failed
      /\ threads_running' = 0 => m_thread_counter' = 0
  <2>0. /\ ~joining[Owner].failed /\ \A i \in DOMAIN joinqueue : ~joinqueue[i].failed
        /\ threads_running = 0 => m_thread_counter = 0
    BY <1>3 DEF OwnerInv, OwnerCourse, GroupOwned
  <2>1. CASE JoinReturn(Owner)
    BY <1>1, <2>0, <2>1 DEF JoinReturn, groupCounts, Others
  <2>2. CASE JoinWait(Owner)
    BY <1>1, <2>0, <2>2 DEF JoinWait, groupCounts, Others
  <2>3. CASE JoinPop(Owner)
    <3>1. /\ joinqueue # <<>> /\ joinqueue' = Tail(joinqueue)
          /\ joining' = [joining EXCEPT ![Owner] = Head(joinqueue)]
          /\ at' = [at EXCEPT ![Owner] = "pthread_join"]
          /\ threads_running' = 0 => m_thread_counter' = 0
      BY <2>3 DEF JoinPop
    <3>2. joining'[Owner] = joinqueue[1] /\ 1 \in DOMAIN joinqueue
      BY <1>1, <3>1, HeadTailProperties
    <3>3. \A i \in DOMAIN joinqueue' : i + 1 \in DOMAIN joinqueue /\ joinqueue'[i] = joinqueue[i + 1]
      BY <1>1, <3>1
    <3>4. at'[Owner] = "pthread_join" /\ \A c \in Others : at'[c] = at[c]
      BY <1>1, <3>1 DEF Others
    <3>. QED
      BY <2>0, <3>1, <3>2, <3>3, <3>4
  <2>4. CASE JoinThread(Owner)
    <3>1. /\ joining' = [joining EXCEPT ![Owner] = NoThread] /\ at' = [at EXCEPT ![Owner] = "test"]
          /\ UNCHANGED <<groupCounts, joinqueue>>
      BY <2>0, <2>4 DEF JoinThread
    <3>2. /\ at'[Owner] = "test" /\ joining'[Owner] = NoThread
          /\ \A c \in Others : at'[c] = at[c]
      BY <1>1, <3>1 DEF Others
    <3>. QED
      BY <2>0, <3>1, <3>2 DEF groupCounts, NoThread
  <2>. QED
    BY <2>1, <2>2, <2>3, <2>4 DEF JoinStep
<1>9. GroupOwned'
  BY <1>8 DEF OwnerInv, OwnerCourse, GroupOwned
<1>10. OwnerPlaces'
  BY <1>2, <1>4, <1>8 DEF OwnerInv, OwnerCourse, OwnerPlaces
<1>11. (GroupJoined => threads_running = 0)' /\ SpawnUnderWay' /\ ~Staffed'
  BY <1>2, <1>4, <1>8 DEF GroupJoined, SpawnUnderWay, Staffed, InUse
<1>. QED
  BY <1>2, <1>4, <1>7, <1>9, <1>10, <1>11 DEF OwnerInv, OwnerCourse

LEMMA SpuriousOwner ==
  ASSUME OwnerInv, OwnerSpurious
  PROVE  OwnerInv'
<1>1. UNCHANGED <<pc, exists, spawned, pool_size, cpu_affinity, stopped, spawn_queue, groupCounts,
                  at, newid, joining, joinqueue, stage, id, cpu, worker, entry, cur_thread_id,
                  renamed>>
  BY DEF OwnerSpurious, GroupSpurious, groupLocals, threadState, poolVars, settings, queue, clients,
     workers
<1>2. UNCHANGED <<Running, OwnId, Staffed, Size>>
  BY <1>1 DEF Running, OwnId, Staffed, InUse, Size
<1>3. OwnerCourse'
  BY <1>1, CourseSame DEF OwnerInv, OwnerCourse, GroupOwned
<1>4. NamesKept'
  BY <1>1, <1>2, NamesSame DEF OwnerInv, NamesKept
<1>5. Configured => Configured'
  BY <1>1, <1>2, ConfiguredSame
<1>. QED
  BY <1>1, <1>2, <1>3, <1>4, <1>5 DEF OwnerInv

\* spawn_thread_group: one more worker, with the next id.
LEMMA SpawnOwner ==
  ASSUME PoolTypeOK, EntriesKept, GroupIInv, OwnerInv, Spawn
  PROVE  OwnerInv'
<1>. DEFINE Ats == {"idle", "store", "count", "create", "test", "wait", "pthread_join"}
<1>1. /\ Owner \in Callers /\ at \in [Callers -> Ats] /\ newid \in [Callers -> 0 .. MaxCounter]
      /\ stage \in [Threads -> {"free", "running", "exiting", "ended"}]
      /\ id \in [Threads -> Nat] /\ cpu \in [Threads -> Cpus]
      /\ spawned \in Nat /\ pool_size \in Nat /\ Ncpus \in Nat \ {0}
      /\ m_thread_counter \in Nat /\ threads_running \in Nat
      /\ worker \in [Threads -> {"dequeue", "run", "ran", "threw"}]
  BY PoolAssumption, GroupAssumption DEF PoolTypeOK, GroupIInv, GroupTypeOK
<1>2. /\ pc[Owner] = "spawn" /\ pc' = pc
      /\ UNCHANGED <<pool_size, cpu_affinity, exists, stopped, spawn_queue,
                     worker, entry, cur_thread_id, renamed>>
      /\ spawned' = IF at[Owner] = "create" THEN spawned + 1 ELSE spawned
  BY DEF Spawn, queue, workers, clients
<1>3. /\ ~stopped /\ Configured /\ Size = spawned
      /\ spawned <= pool_size
      /\ at[Owner] # "idle" => newid[Owner] = spawned /\ spawned < pool_size
      /\ m_thread_counter = IF at[Owner] \in {"count", "create"} THEN spawned + 1 ELSE spawned
      /\ at[Owner] \in {"idle", "store", "count", "create"}
  BY <1>2 DEF OwnerInv, OwnerCourse, OwnerPlaces, SpawnUnderWay, Staffed, Size
<1>4. UNCHANGED <<joinqueue, joining>>
  BY DEF Spawn, TakeId, LaunchStep, StoreCounter, CountThread, CreateThread
<1>5. ~GroupJoined'
  BY <1>2 DEF GroupJoined
<1>6. CASE at[Owner] # "create"
  <2>1. /\ UNCHANGED <<stage, id, cpu>> /\ spawned' = spawned
        /\ \/ /\ at[Owner] = "idle" /\ spawned < pool_size /\ at' = [at EXCEPT ![Owner] = "store"]
              /\ newid' = [newid EXCEPT ![Owner] = m_thread_counter]
              /\ UNCHANGED <<m_thread_counter, threads_running>>
           \/ /\ at[Owner] = "store" /\ at' = [at EXCEPT ![Owner] = "count"]
              /\ m_thread_counter' = newid[Owner] + 1 /\ UNCHANGED <<threads_running, newid>>
           \/ /\ at[Owner] = "count" /\ at' = [at EXCEPT ![Owner] = "create"]
              /\ threads_running' = threads_running + 1 /\ UNCHANGED <<m_thread_counter, newid>>
    BY <1>2, <1>6 DEF Spawn, TakeId, LaunchStep, StoreCounter, CountThread, CreateThread, threadState
  <2>2. /\ at'[Owner] \in {"store", "count", "create"} /\ newid'[Owner] = spawned
        /\ \A c \in Others : at'[c] = at[c]
        /\ spawned < pool_size
        /\ m_thread_counter' = IF at'[Owner] \in {"count", "create"} THEN spawned + 1 ELSE spawned
    BY <1>1, <1>3, <2>1 DEF Others
  <2>3. GroupOwned'
    <3>1. threads_running' = 0 /\ at'[Owner] # "count" => m_thread_counter' = 0
      BY <1>1, <1>3, <2>1, <2>2 DEF OwnerInv, OwnerCourse, GroupOwned
    <3>. QED
      BY <1>4, <2>2, <3>1 DEF OwnerInv, OwnerCourse, GroupOwned
  <2>4. OwnerPlaces'
    BY <1>2, <2>1, <2>2 DEF OwnerInv, OwnerCourse, OwnerPlaces
  <2>5. SpawnUnderWay'
    BY <1>2, <1>3, <2>1, <2>2 DEF SpawnUnderWay
  <2>6. UNCHANGED <<Running, OwnId, Size>>
    BY <1>2, <2>1 DEF Running, OwnId, Size
  <2>7. NamesKept'
    BY <1>2, <2>1, <2>6, NamesSame DEF OwnerInv, NamesKept
  <2>8. Configured'
    BY <1>2, <1>3, <2>1, <2>6, ConfiguredSame
  <2>. QED
    BY <1>2, <1>3, <1>5, <2>3, <2>4, <2>5, <2>7, <2>8 DEF OwnerInv, OwnerCourse
<1>7. CASE at[Owner] = "create"
  <2>. DEFINE k == IF cpu_affinity THEN spawned % Ncpus ELSE AnyCpu
              t == CHOOSE u \in Threads : stage[u] = "free"
  <2>1. CreateThread(Owner, k)
    BY <1>2, <1>7 DEF Spawn, LaunchStep, StoreCounter, CountThread
  <2>2. t \in Threads /\ stage[t] = "free"
    <3>1. Free # {}
      <4>1. Owner \in Launching
        BY <1>1, <1>7 DEF Launching
      <4>2. Cardinality(Launching) # 0
        BY <4>1, AllFinite, FS_EmptySet
      <4>3. Cardinality(Free) # 0
        BY <4>2, AllFinite DEF GroupIInv, SlotsKept
      <4>. QED
        BY <4>3, FS_EmptySet
    <3>2. \E u \in Threads : stage[u] = "free"
      BY <3>1 DEF Free
    <3>. QED
      BY <3>2
  <2>3. /\ stage' = [stage EXCEPT ![t] = "running"]
        /\ id' = [id EXCEPT ![t] = spawned]
        /\ cpu' = [cpu EXCEPT ![t] = BoundCpu(k)]
        /\ at' = [at EXCEPT ![Owner] = "idle"]
        /\ newid' = [newid EXCEPT ![Owner] = 0]
        /\ UNCHANGED <<m_thread_counter, threads_running>>
    BY <1>3, <1>7, <2>1 DEF CreateThread, SetThreadId, groupCounts
  <2>4. BoundCpu(k) = k
    <3>1. CASE cpu_affinity
      <4>1. spawned % Ncpus \in 0 .. Ncpus - 1
        BY <1>1
      <4>2. (spawned % Ncpus) % Ncpus = spawned % Ncpus
        BY <1>1, <4>1
      <4>3. k = spawned % Ncpus
        BY <3>1
      <4>. QED
        BY <1>1, <4>1, <4>2, <4>3 DEF BoundCpu, AnyCpu
    <3>2. CASE ~cpu_affinity
      BY <3>2 DEF BoundCpu
    <3>. QED
      BY <3>1, <3>2
  <2>5. PICK w \in Threads : w = t
    BY <2>2
  <2>6. /\ w \notin Running /\ Running' = Running \cup {w}
        /\ worker[w] = "dequeue" /\ w \notin renamed
    BY <1>1, <2>2, <2>3, <2>5 DEF Running, EntriesKept, Busy, OwnerInv, NamesKept
  <2>7. Cardinality(Running') = Cardinality(Running) + 1
    BY <2>6, AllFinite, FS_AddElement
  <2>8. /\ OwnId'[w] = spawned
        /\ cpu'[w] = IF cpu_affinity THEN spawned % Ncpus ELSE AnyCpu
        /\ \A u \in Threads \ {w} : OwnId'[u] = OwnId[u] /\ cpu'[u] = cpu[u] /\ id'[u] = id[u]
    BY <1>1, <1>2, <2>3, <2>4, <2>5, <2>6 DEF OwnId
  <2>9. spawned' = spawned + 1 /\ Size' = spawned + 1
    BY <1>2, <1>7 DEF Size
  <2>10. Configured'
    <3>0. /\ Cardinality(Running) = spawned
          /\ \A u \in Running \ renamed :
               /\ OwnId[u] \in 0 .. spawned - 1
               /\ cpu[u] = IF cpu_affinity THEN OwnId[u] % Ncpus ELSE AnyCpu
               /\ \A v \in Running \ renamed : OwnId[u] = OwnId[v] => u = v
      BY <1>3 DEF Configured
    <3>1. Cardinality(Running') = Size'
      BY <2>7, <2>9, <3>0
    <3>2. \A u \in Running' \ renamed' :
            /\ OwnId'[u] \in 0 .. spawned
            /\ cpu'[u] = IF cpu_affinity THEN OwnId'[u] % Ncpus ELSE AnyCpu
      BY <1>1, <1>2, <2>6, <2>8, <3>0 DEF Running
    <3>3. \A u, v \in Running' \ renamed' : OwnId'[u] = OwnId'[v] => u = v
      <4>1. \A u \in Running \ renamed : OwnId'[u] # spawned /\ OwnId'[u] = OwnId[u]
        BY <1>1, <2>6, <2>8, <3>0 DEF Running
      <4>. QED
        BY <1>2, <2>6, <2>8, <3>0, <4>1
    <3>4. 0 .. spawned = 0 .. Size' - 1
      BY <1>1, <2>9
    <3>. QED
      BY <1>2, <3>1, <3>2, <3>3, <3>4 DEF Configured
  <2>11. NamesKept'
    <3>1. \A u \in Threads : worker[u] = "run" => id'[u] = id[u]
      BY <2>6, <2>8
    <3>. QED
      BY <1>2, <2>6, <3>1, NamesSame DEF OwnerInv, NamesKept
  <2>12. at'[Owner] = "idle" /\ \A c \in Others : at'[c] = at[c]
    BY <1>1, <2>3 DEF Others
  <2>13. threads_running' # 0
    <3>1. Cardinality(Creating) # 0
      BY <1>1, <1>7, AllFinite, FS_EmptySet DEF Creating
    <3>2. Len(joinqueue) \in Nat
      BY DEF GroupIInv, GroupTypeOK
    <3>. QED
      BY <2>3, <3>1, <3>2, AllFinite DEF GroupIInv, RunningCounted
  <2>14. GroupOwned'
    BY <1>4, <2>12, <2>13 DEF OwnerInv, OwnerCourse, GroupOwned
  <2>15. OwnerPlaces'
    BY <1>2, <2>12 DEF OwnerInv, OwnerCourse, OwnerPlaces
  <2>16. SpawnUnderWay'
    BY <1>1, <1>2, <1>3, <1>7, <2>3, <2>9, <2>12 DEF SpawnUnderWay
  <2>. QED
    BY <1>2, <1>3, <1>5, <2>10, <2>11, <2>14, <2>15, <2>16 DEF OwnerInv, OwnerCourse
<1>. QED
  BY <1>6, <1>7

-----------------------------------------------------------------------------
(* The pool.                                                                *)

\* There is no pool at first, no task, and nobody in an operation of a pool.
THEOREM PoolInitInvariant == PoolInit => PoolIInv /\ Promise!Init
<1>. SUFFICES ASSUME PoolInit PROVE PoolIInv /\ Promise!Init
  OBVIOUS
<1>1. Owner \in Callers
  BY PoolAssumption
<1>2. Busy = {} /\ Running = {} /\ Joiners = {}
  BY DEF PoolInit, GroupInit, Busy, Running, Joiners
<1>3. PoolTypeOK
  <2>1. spawn_queue \in Seq(TaskOf) /\ exception_queue \in Seq(TaskNrs)
    BY EmptySeq DEF PoolInit
  <2>2. /\ pc \in [Callers -> {"idle", "empty", "enter", "event", "spawn", "restart", "flush", "last"}]
        /\ worker \in [Threads -> {"dequeue", "run", "ran", "threw"}]
        /\ entry \in [Threads -> TaskOf \cup {NoTask}] /\ cur_thread_id \in [Threads -> Int]
    BY DEF PoolInit
  <2>3. /\ {stopped, cpu_affinity, waiting_on_join, exists} \subseteq BOOLEAN
        /\ pool_size \in Sizes \cup {0} /\ spawned \in Nat
    BY DEF PoolInit
  <2>4. {tasks_inserted, tasks_completed} \subseteq 0 .. MaxTasks /\ restarts \in 0 .. MaxRestarts
    BY PoolAssumption DEF PoolInit
  <2>5. eventAsleep = {} /\ together = {} /\ renamed = {}
    BY DEF PoolInit
  <2>. QED
    BY <2>1, <2>2, <2>3, <2>4, <2>5 DEF PoolTypeOK
<1>4. EntriesKept
  BY <1>2 DEF PoolInit, EntriesKept
<1>5. TasksCounted /\ TasksApart /\ ReportsApart
  BY <1>2, FS_EmptySet DEF PoolInit, TasksCounted, TasksApart, ReportsApart
<1>6. OwnerCourse
  BY <1>1 DEF PoolInit, GroupInit, OwnerCourse, GroupOwned, OwnerPlaces, SpawnUnderWay, GroupJoined,
     Others, NoThread
<1>7. NamesKept /\ ~Staffed
  BY <1>1 DEF PoolInit, NamesKept, Staffed, InUse
<1>8. GroupIInv
  BY GroupInitInvariant DEF PoolInit
<1>9. TaskState = [k \in TaskNrs |-> "new"]
  <2>1. \A k \in TaskNrs : k > tasks_inserted
    BY DEF PoolInit, TaskNrs
  <2>. QED
    BY <2>1 DEF TaskState
<1>10. Promise!Init
  BY <1>2, <1>9 DEF PoolInit, Promise!Init, Promise!Tasks, TaskNrs
<1>. QED
  BY <1>3, <1>4, <1>5, <1>6, <1>7, <1>8, <1>10 DEF PoolIInv, TasksInv, OwnerInv

\* Every step of the owner, of a client and of a worker keeps the invariant,
\* and is a step of TaskPool or none at all.
THEOREM PoolStepInvariant ==
  PoolIInv /\ [PoolNext]_<<poolVars, groupVars>> =>
    PoolIInv' /\ [Promise!Next]_(Promise!poolPromise)
<1>. SUFFICES ASSUME PoolIInv, [PoolNext]_<<poolVars, groupVars>>
              PROVE  PoolIInv' /\ [Promise!Next]_(Promise!poolPromise)
  OBVIOUS
<1>1. /\ GroupIInv /\ TasksInv /\ OwnerInv /\ PoolTypeOK /\ EntriesKept /\ GroupTypeOK
      /\ id \in [Threads -> Nat] /\ stage \in [Threads -> {"free", "running", "exiting", "ended"}]
  BY DEF PoolIInv, TasksInv, GroupIInv, GroupTypeOK
<1>2. PoolNext => GroupIInv'
  BY <1>1, PoolKeepsGroup
<1>3. CASE UNCHANGED <<poolVars, groupVars>>
  <2>1. UNCHANGED <<spawn_queue, stopped, pool_size, cpu_affinity, tasks_inserted, tasks_completed,
                    exception_queue, waiting_on_join, eventAsleep, exists, spawned, restarts, pc,
                    worker, entry, cur_thread_id, together, renamed, stage, id, cpu, at, newid,
                    joining, joinqueue, threads_running, m_thread_counter, Running>>
    BY <1>3 DEF poolVars, settings, queue, events, counts, workers, clients, groupVars, groupCounts,
       groupLocals, threadState, Running
  <2>2. GroupIInv'
    BY <1>1, <1>3, GroupStepInvariant
  <2>3. PoolTypeOK' /\ Joiners' = Joiners
    BY <1>1, <2>1 DEF PoolTypeOK, Joiners
  <2>4. TasksInv' /\ TaskState' = TaskState /\ Reports' = Reports
    BY <1>1, <2>1, <2>3, TasksQuiet DEF counts, EntriesKept
  <2>5. OwnerCourse'
    <3>1. UNCHANGED groupCounts
      BY <1>3 DEF groupVars
    <3>2. \A i \in DOMAIN joinqueue' : ~joinqueue'[i].failed
      BY <1>1, <2>1 DEF OwnerInv, OwnerCourse, GroupOwned
    <3>. QED
      BY <1>1, <2>1, <3>1, <3>2, CourseSame DEF OwnerInv
  <2>9. NamesKept'
    BY <1>1, <2>1, NamesSame DEF OwnerInv, NamesKept
  <2>6. UNCHANGED <<OwnId, Staffed, Size>>
    BY <2>1 DEF OwnId, Staffed, InUse, Size
  <2>7. Configured => Configured'
    BY <2>1, <2>6, ConfiguredSame
  <2>8. OwnerInv'
    BY <1>1, <2>1, <2>5, <2>6, <2>7, <2>9 DEF OwnerInv
  <2>. QED
    BY <2>2, <2>3, <2>4, <2>8 DEF PoolIInv, Promise!poolPromise, Reports
<1>4. ASSUME NEW n \in Sizes, NEW affinity \in Affinities, Construct(n, affinity)
      PROVE  TasksInv' /\ OwnerInv' /\ [Promise!Next]_(Promise!poolPromise)
  BY <1>1, <1>4, ConstructOwner, ConstructTasks
<1>5. ASSUME \/ Spawn \/ SpawnDone \/ Restart \/ Destroy \/ Flush \/ Destroyed
             \/ OwnerJoinStep \/ OwnerSpurious
             \/ \E n \in Sizes : Resize(n)
             \/ \E affinity \in BOOLEAN : SetCpuAffinity(affinity)
      PROVE  TasksInv' /\ OwnerInv' /\ [Promise!Next]_(Promise!poolPromise)
  <2>1. TasksInv' /\ [Promise!Next]_(Promise!poolPromise)
    BY <1>1, <1>5, OwnerTasks
  <2>2. ASSUME \/ Destroy \/ Flush \/ Destroyed
               \/ \E n \in Sizes : Resize(n)
               \/ \E affinity \in BOOLEAN : SetCpuAffinity(affinity)
        PROVE  OwnerInv'
    BY <1>1, <2>2, LeavesWorkersOwner
  <2>3. ASSUME Spawn PROVE OwnerInv'
    BY <1>1, <2>3, SpawnOwner
  <2>4. ASSUME SpawnDone PROVE OwnerInv'
    BY <1>1, <2>4, SpawnDoneOwner
  <2>5. ASSUME Restart PROVE OwnerInv'
    BY <2>5, RestartOwner
  <2>6. ASSUME OwnerJoinStep PROVE OwnerInv'
    BY <1>1, <2>6, JoinOwner DEF OwnerJoinStep
  <2>7. ASSUME OwnerSpurious PROVE OwnerInv'
    BY <1>1, <2>7, SpuriousOwner
  <2>8. OwnerInv'
    BY <1>5, <2>2, <2>3, <2>4, <2>5, <2>6, <2>7
  <2>. QED
    BY <2>1, <2>8
<1>6. ASSUME NEW c \in Callers, NEW vid \in VirtualIds \cup {NoVid}, Launch(c, vid)
      PROVE  TasksInv' /\ OwnerInv' /\ [Promise!Next]_(Promise!poolPromise)
  BY <1>1, <1>6, LaunchTasks, ClientOwner
<1>7. ASSUME NEW c \in Callers, CallPoolJoin(c) \/ PoolJoinStep(c) \/ EventSpurious(c)
      PROVE  TasksInv' /\ OwnerInv' /\ [Promise!Next]_(Promise!poolPromise)
  <2>1. TasksInv' /\ [Promise!Next]_(Promise!poolPromise)
    BY <1>1, <1>7, JoinTasks, JoinThrowTasks DEF PoolJoinStep
  <2>2. NoVid \in VirtualIds \cup {NoVid}
    OBVIOUS
  <2>. QED
    BY <1>1, <1>7, <2>1, <2>2, ClientOwner
<1>8. ASSUME NEW t \in Threads, WorkerStep(t)
      PROVE  TasksInv' /\ OwnerInv' /\ [Promise!Next]_(Promise!poolPromise)
  <2>1. TasksInv' /\ [Promise!Next]_(Promise!poolPromise)
    BY <1>1, <1>8, TakeTaskTasks, TaskReturnsTasks, TaskThrowsTasks, CountTaskTasks, WorkerEndTasks
       DEF WorkerStep
  <2>. QED
    BY <1>1, <1>8, <2>1, WorkerOwner, LeavingOwner DEF WorkerStep
<1>9. ASSUME PoolNext
      PROVE  TasksInv' /\ OwnerInv' /\ [Promise!Next]_(Promise!poolPromise)
  BY <1>9, <1>4, <1>5, <1>6, <1>7, <1>8 DEF PoolNext, OwnerStep
<1>. QED
  BY <1>2, <1>3, <1>9, Zenon DEF PoolIInv

\* The invariant holds in every reachable state.
THEOREM PoolInvariance == PoolSpec => []PoolIInv
<1>. QED
  BY PoolInitInvariant, PoolStepInvariant, PTL DEF PoolSpec

\* The pool's variables keep their types; whoever sleeps on event_condition
\* is in join().
THEOREM PoolTypeCorrect == PoolSpec => []PoolTypeOK
<1>1. PoolIInv => PoolTypeOK
  BY DEF PoolIInv, TasksInv
<1>. QED
  BY <1>1, PoolInvariance, PTL

\* An idle owner's pool has its workers, each with a name of its own.
LEMMA PoolInvAsConfigured == PoolIInv => WorkersAsConfigured
<1>. SUFFICES ASSUME PoolIInv, OwnerIdle PROVE WorkersAsConfigured
  BY DEF WorkersAsConfigured
<1>1. NamesKept /\ Configured /\ Size = pool_size
  BY DEF OwnerIdle, PoolIInv, OwnerInv, Staffed, InUse, Size
<1>2. \A t \in Running : OwnId[t] = IF worker[t] = "run" THEN cur_thread_id[t] ELSE id[t]
  BY DEF OwnId, Running
<1>. QED
  BY <1>1, <1>2 DEF WorkersAsConfigured, Configured, NamesKept, Running

\* Whatever was resized and rebound before, between two operations of its
\* owner the pool has the workers that it was asked for, each with an id and
\* a CPU of its own, and a task sees the virtual id that it was launched with.
THEOREM WorkersAlwaysAsConfigured == PoolSpec => []WorkersAsConfigured
<1>. QED
  BY PoolInvAsConfigured, PoolInvariance, PTL

\* thread_pool implements TaskPool: a task that is launched runs once, join()
\* returns when all have run or hands out one exception of a task that threw,
\* and neither resize() nor set_cpu_affinity() shows.
THEOREM PoolRefines == PoolSpec => IsTaskPool
<1>. QED
  BY PoolInitInvariant, PoolStepInvariant, PoolInvariance, PTL DEF PoolSpec, IsTaskPool, Promise!Spec

-----------------------------------------------------------------------------
(* The four parts side by side.                                             *)

ThreadsIInv ==
  /\ SemIInv /\ BarIInv /\ GroupIInv /\ PoolTypeOK
  /\ part # "pool" => IdsInv
  /\ IF part = "group" THEN ~exists ELSE PoolIInv

\* One part moves and keeps its invariant; the others stay as they are.
THEOREM ThreadsInvariance == Spec => []ThreadsIInv
<1>1. Init => ThreadsIInv
  <2>1. Init => SemIInv /\ BarIInv /\ PoolIInv
    BY SemInitInvariant, BarInitInvariant, PoolInitInvariant DEF Init
  <2>2. Init => IdsInv
    BY IdsInit DEF Init, PoolInit
  <2>3. Init => ~exists
    BY DEF Init, PoolInit
  <2>. QED
    BY <2>1, <2>2, <2>3 DEF ThreadsIInv, PoolIInv, TasksInv
<1>2. ThreadsIInv /\ [Next]_allVars => ThreadsIInv'
  <2>. SUFFICES ASSUME ThreadsIInv, [Next]_allVars PROVE ThreadsIInv'
    OBVIOUS
  <2>1. part' = part
    BY DEF Next, InSemaphore, InBarrier, InGroup, InPool, allVars
  <2>2. [SemNext]_semVars /\ [BarNext]_barVars
    BY DEF Next, InSemaphore, InBarrier, InGroup, InPool, allVars
  <2>3. SemIInv' /\ BarIInv'
    BY <2>2, SemStepInvariant, BarStepInvariant DEF ThreadsIInv
  <2>4. CASE part = "group"
    <3>1. [GroupNext]_groupVars /\ UNCHANGED poolVars
      BY <2>4 DEF Next, InSemaphore, InBarrier, InGroup, InPool, allVars, pool
    <3>2. GroupIInv' /\ IdsInv'
      BY <2>4, <3>1, GroupStepInvariant, IdsInvariant DEF ThreadsIInv
    <3>3. PoolTypeOK'
      BY <3>1 DEF ThreadsIInv, PoolTypeOK, poolVars, settings, queue, events, counts, workers,
         clients, Joiners
    <3>4. ~exists'
      BY <2>4, <3>1 DEF ThreadsIInv, poolVars, settings
    <3>. QED
      BY <2>1, <2>3, <2>4, <3>2, <3>3, <3>4 DEF ThreadsIInv
  <2>5. CASE part # "group"
    <3>1. [PoolNext]_<<poolVars, groupVars>>
      BY <2>5 DEF Next, InSemaphore, InBarrier, InGroup, InPool, allVars, pool
    <3>2. PoolIInv'
      BY <2>5, <3>1, PoolStepInvariant DEF ThreadsIInv
    <3>3. part # "pool" => IdsInv'
      <4>1. SUFFICES ASSUME part # "pool" PROVE UNCHANGED groupVars
        BY <4>1, IdsInvariant DEF ThreadsIInv
      <4>. QED
        BY <2>5, <4>1 DEF Next, InSemaphore, InBarrier, InGroup, InPool, allVars, pool
    <3>. QED
      BY <2>1, <2>3, <2>5, <3>2, <3>3 DEF ThreadsIInv, PoolIInv, TasksInv
  <2>. QED
    BY <2>4, <2>5
<1>. QED
  BY <1>1, <1>2, PTL DEF Spec

\* The variables of the semaphore, the barrier, the group and the pool keep
\* their types.
THEOREM ThreadsTypeCorrect == Spec => []TypeOK
<1>1. ThreadsIInv => TypeOK
  BY DEF ThreadsIInv, SemIInv, BarIInv, GroupIInv, TypeOK
<1>. QED
  BY <1>1, ThreadsInvariance, PTL

\* The ids of a group that no pool owns are distinct, as in IdsAlwaysDistinct.
THEOREM GroupIdsAlwaysDistinct == Spec => []GroupIdsDistinct
<1>1. ThreadsIInv => GroupIdsDistinct
  BY DEF ThreadsIInv, GroupIdsDistinct, IdsInv, IdsApart, IdsDistinct, Running
<1>. QED
  BY <1>1, ThreadsInvariance, PTL

\* No post is lost, as in PostsNeverLost.
THEOREM ThreadsLoseNoPost == Spec => []NoPostLost
<1>1. ThreadsIInv => NoPostLost
  BY DEF ThreadsIInv, SemIInv
<1>. QED
  BY <1>1, ThreadsInvariance, PTL

\* Nobody passes the barrier early, as in NobodyEverPassesEarly.
THEOREM ThreadsPassNoneEarly == Spec => []NobodyPassesEarly
<1>1. ThreadsIInv => NobodyPassesEarly
  BY DEF ThreadsIInv, BarIInv
<1>. QED
  BY <1>1, ThreadsInvariance, PTL

\* The workers are as configured, as in WorkersAlwaysAsConfigured; where a group
\* moves by itself there is no pool that an owner could leave between two
\* operations.
THEOREM ThreadsWorkersAsConfigured == Spec => []WorkersAsConfigured
<1>1. ThreadsIInv => WorkersAsConfigured
  <2>1. CASE part = "group"
    BY <2>1 DEF ThreadsIInv, WorkersAsConfigured, OwnerIdle
  <2>2. CASE part # "group"
    BY <2>2, PoolInvAsConfigured DEF ThreadsIInv
  <2>. QED
    BY <2>1, <2>2
<1>. QED
  BY <1>1, ThreadsInvariance, PTL

\* A step of the pool keeps TaskPool's promise and a step of any other part
\* is a stutter of it.
THEOREM ThreadsRefine == Spec => IsTaskPool
<1>1. Init => Promise!Init
  BY PoolInitInvariant DEF Init
<1>2. ThreadsIInv /\ [Next]_allVars => [Promise!Next]_(Promise!poolPromise)
  <2>. SUFFICES ASSUME ThreadsIInv, [Next]_allVars PROVE [Promise!Next]_(Promise!poolPromise)
    OBVIOUS
  <2>1. CASE part = "group"
    <3>1. UNCHANGED poolVars
      BY <2>1 DEF Next, InSemaphore, InBarrier, InGroup, InPool, allVars, pool
    <3>. QED
      BY <3>1, Zenon DEF Promise!poolPromise, TaskState, Held, Joiners, poolVars, settings, queue,
         events, counts, workers, clients
  <2>2. CASE part # "group"
    <3>1. [PoolNext]_<<poolVars, groupVars>>
      BY <2>2 DEF Next, InSemaphore, InBarrier, InGroup, InPool, allVars, pool
    <3>. QED
      BY <2>2, <3>1, PoolStepInvariant DEF ThreadsIInv
  <2>. QED
    BY <2>1, <2>2
<1>. QED
  BY <1>1, <1>2, ThreadsInvariance, PTL DEF Spec, IsTaskPool, Promise!Spec

\* Every step of the pool moves its group as a caller or a thread may.
LEMMA PoolMovesGroup == ASSUME TasksInv, PoolNext PROVE GroupMove
<1>0. Owner \in Callers /\ Ncpus \in Nat \ {0}
  BY PoolAssumption, GroupAssumption
<1>1. CASE Spawn
  <2>1. (IF cpu_affinity THEN spawned % Ncpus ELSE AnyCpu) \in Nat \cup {AnyCpu}
    BY <1>0 DEF TasksInv, PoolTypeOK
  <2>. QED
    BY <1>0, <1>1, <2>1 DEF Spawn, GroupMove
<1>2. CASE \/ SpawnDone \/ Restart \/ Destroy \/ Destroyed
           \/ \E n \in Sizes, affinity \in Affinities : Construct(n, affinity)
           \/ \E c \in Callers, vid \in VirtualIds \cup {NoVid} : Launch(c, vid)
           \/ \E c \in Callers : CallPoolJoin(c) \/ PoolJoinStep(c) \/ EventSpurious(c)
  BY <1>2 DEF GroupMove, SpawnDone, Restart, Destroy, Destroyed, Construct, Launch,
     CallPoolJoin, PoolJoinStep, WaitUntilEmpty, JoinThrow, JoinDone, JoinSleep, LeaveJoin,
     EventSpurious, groupVars, groupLocals
<1>3. CASE \/ Flush \/ OwnerJoinStep \/ OwnerSpurious
           \/ \E n \in Sizes : Resize(n)
           \/ \E affinity \in BOOLEAN : SetCpuAffinity(affinity)
  BY <1>0, <1>3 DEF GroupMove, Flush, OwnerJoinStep, OwnerSpurious, Resize, SetCpuAffinity,
     StopWorkers
<1>4. CASE \E t \in Threads : TakeTask(t) \/ TaskReturns(t) \/ TaskThrows(t) \/ CountTask(t)
  BY <1>4 DEF GroupMove, TakeTask, TaskReturns, TaskThrows, CountTask, groupVars, groupLocals
<1>5. CASE \E t \in Threads : Quit(t) \/ ExitWorker(t)
  BY <1>5 DEF GroupMove, Quit, ExitWorker, ThreadStep
<1>. QED
  BY <1>1, <1>2, <1>3, <1>4, <1>5 DEF PoolNext, OwnerStep, WorkerStep

\* Whether a group moves by itself or under a pool that stops its workers,
\* join() without an exception leaves no function running.
THEOREM ThreadsJoinWaits == Spec => JoinWaitsForAll
<1>. DEFINE Waits == \A c \in Callers : at[c] = "test" /\ at'[c] = "idle"
                       => \A t \in Threads : stage[t] # "running"
<1>1. ThreadsIInv /\ [Next]_allVars => [Waits]_groupVars
  <2>. SUFFICES ASSUME ThreadsIInv, [Next]_allVars, ~UNCHANGED groupVars PROVE Waits
    OBVIOUS
  <2>1. CASE GroupNext
    <3>1. GroupMove
      BY <2>1, GroupAssumption DEF GroupNext, GroupMove
    <3>. QED
      BY <3>1, LeavingWaits DEF ThreadsIInv
  <2>2. CASE part = "pool" /\ PoolNext
    <3>1. GroupMove
      BY <2>2, PoolMovesGroup DEF ThreadsIInv, PoolIInv
    <3>. QED
      BY <3>1, LeavingWaits DEF ThreadsIInv
  <2>. QED
    BY <2>1, <2>2 DEF Next, InSemaphore, InBarrier, InGroup, InPool, allVars, pool
<1>. QED
  BY <1>1, ThreadsInvariance, PTL DEF Spec, JoinWaitsForAll
=============================================================================
