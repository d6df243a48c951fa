--------------------------- MODULE ConditionalProofs ---------------------------
(***************************************************************************)
(* The classes that wait on a conditional.                                 *)
(*                                                                         *)
(* semaphore, for any finite set of threads and any largest value:         *)
(* waitercount is exact and no post is lost to a thread that sleeps on.    *)
(* cancellable_barrier, for any finite set of threads and any sizes:       *)
(* nobody passes early, however many generations fall and however often it *)
(* is resized.  thread_group, for any number of callers and threads, on    *)
(* any number of CPUs: join() without an exception means that no launched  *)
(* function still runs, and the ids of the running threads are distinct as *)
(* long as no launch() met another one's increment or a reset.             *)
(***************************************************************************)
EXTENDS Semaphore, CancellableBarrier, ThreadGroup, FiniteSetTheorems,
        SequenceTheorems, TLAPS

-----------------------------------------------------------------------------
(* semaphore                                                                *)

(* The two properties are inductive together: the case of Post that signals *)
(* nobody needs waitercount to be exact, and every other case counts the    *)
(* woken threads before and after.                                          *)
SemIInv == SemTypeOK /\ NoPostLost

\* The threads that were woken and have not run yet.
SemWoken == semIn \ semAsleep

\* The threads inside and the woken ones can be counted.
LEMMA SemFinite ==
  ASSUME SemTypeOK
  PROVE  /\ IsFiniteSet(semIn) /\ IsFiniteSet(SemWoken)
         /\ Cardinality(semIn) \in Nat /\ Cardinality(SemWoken) \in Nat
         /\ Cardinality(semIn) = 0 <=> semIn = {}
         /\ Cardinality(SemWoken) = 0 <=> SemWoken = {}
<1>1. IsFiniteSet(SemThreads) /\ semIn \in SUBSET SemThreads /\ SemWoken \in SUBSET semIn
  BY SemaphoreAssumption DEF SemTypeOK, SemWoken
<1>2. IsFiniteSet(semIn)
  BY <1>1, FS_Subset
<1>3. IsFiniteSet(SemWoken)
  BY <1>1, <1>2, FS_Subset
<1>. QED
  BY <1>2, <1>3, FS_EmptySet, FS_CardinalityType

\* The semaphore is born with nobody inside.
THEOREM SemInitInvariant == SemInit => SemIInv
BY SemaphoreAssumption, FS_EmptySet DEF SemInit, SemIInv, SemTypeOK, NoPostLost, WaitersExact

\* Every operation, every wake-up and every spurious wake-up keeps both.
THEOREM SemStepInvariant == SemIInv /\ [SemNext]_semVars => SemIInv'
<1>. SUFFICES ASSUME SemIInv, [SemNext]_semVars PROVE SemIInv'
  OBVIOUS
<1>. USE DEF SemIInv
<1>0. /\ IsFiniteSet(semIn) /\ IsFiniteSet(SemWoken)
      /\ Cardinality(semIn) \in Nat /\ Cardinality(SemWoken) \in Nat
      /\ Cardinality(semIn) = 0 <=> semIn = {}
      /\ Cardinality(SemWoken) = 0 <=> SemWoken = {}
  BY SemFinite
<1>1. CASE UNCHANGED semVars
  BY <1>1 DEF semVars, SemTypeOK, NoPostLost, WaitersExact
<1>2. ASSUME NEW t \in SemThreads, SemStep(t) PROVE SemIInv'
  <2>1. CASE Post(t)
    <3>1. CASE waitercount = 0
      <4>1. semIn = {} /\ semAsleep = {}
        BY <1>0, <3>1 DEF SemTypeOK, NoPostLost, WaitersExact
      <4>2. UNCHANGED <<waitercount, semIn, semAsleep>> /\ semvalue' = semvalue + 1
        BY <2>1, <3>1 DEF Post
      <4>. QED
        BY <2>1, <4>1, <4>2, SemaphoreAssumption DEF Post, SemTypeOK, NoPostLost, WaitersExact
    <3>2. CASE waitercount > 0
      <4>1. /\ UNCHANGED <<waitercount, semIn>> /\ semvalue' = semvalue + 1
            /\ semAsleep' \in AfterSignal(semAsleep)
        BY <2>1, <3>2 DEF Post
      <4>2. CASE semAsleep = {}
        BY <2>1, <4>1, <4>2, SemaphoreAssumption
        DEF Post, AfterSignal, SemTypeOK, NoPostLost, WaitersExact
      <4>3. CASE semAsleep # {}
        <5>1. PICK u \in semAsleep : semAsleep' = semAsleep \ {u}
          BY <4>1, <4>3 DEF AfterSignal
        <5>2. SemWoken' = SemWoken \cup {u} /\ u \notin SemWoken
          BY <4>1, <5>1 DEF SemWoken, SemTypeOK
        <5>3. Cardinality(SemWoken') = Cardinality(SemWoken) + 1
          BY <1>0, <5>2, FS_AddElement
        <5>4. semvalue <= Cardinality(SemWoken)
          BY <4>3 DEF NoPostLost, SemWoken
        <5>5. SemTypeOK'
          BY <2>1, <4>1, <5>1, SemaphoreAssumption DEF Post, SemTypeOK
        <5>6. semvalue' <= Cardinality(SemWoken')
          BY <1>0, <4>1, <5>3, <5>4 DEF SemTypeOK
        <5>. QED
          BY <4>1, <5>5, <5>6 DEF NoPostLost, WaitersExact, SemWoken
      <4>. QED
        BY <4>2, <4>3
    <3>. QED
      BY <3>1, <3>2 DEF SemTypeOK
  <2>2. CASE Take(t)
    <3>1. /\ UNCHANGED <<waitercount, semIn, semAsleep, SemWoken>>
          /\ semvalue > 0 /\ semvalue' = semvalue - 1
      BY <2>2 DEF Take, SemWoken
    <3>. QED
      BY <1>0, <3>1, SemaphoreAssumption DEF SemTypeOK, NoPostLost, WaitersExact, SemWoken
  <2>3. CASE Sleep(t)
    <3>1. /\ t \notin semIn /\ semIn' = semIn \cup {t} /\ semAsleep' = semAsleep \cup {t}
          /\ semvalue = 0 /\ semvalue' = 0 /\ waitercount' = waitercount + 1
      BY <2>3 DEF Sleep
    <3>2. Cardinality(semIn') = Cardinality(semIn) + 1
      BY <1>0, <3>1, FS_AddElement
    <3>3. SemWoken' = SemWoken
      BY <3>1 DEF SemWoken, SemTypeOK
    <3>. QED
      BY <1>0, <3>1, <3>2, <3>3 DEF SemTypeOK, NoPostLost, WaitersExact, SemWoken
  <2>4. CASE TakeLate(t)
    <3>1. /\ t \in SemWoken /\ semIn' = semIn \ {t} /\ UNCHANGED semAsleep
          /\ semvalue > 0 /\ semvalue' = semvalue - 1 /\ waitercount' = waitercount - 1
      BY <2>4 DEF TakeLate, SemWoken
    <3>2. SemWoken' = SemWoken \ {t} /\ t \in semIn /\ t \notin semAsleep
      BY <3>1 DEF SemWoken
    <3>3. Cardinality(semIn') = Cardinality(semIn) - 1
      BY <1>0, <3>1, <3>2, FS_RemoveElement
    <3>4. Cardinality(SemWoken') = Cardinality(SemWoken) - 1
      BY <1>0, <3>1, <3>2, FS_RemoveElement
    <3>5. Cardinality(semIn) # 0 /\ semIn' \subseteq semIn
      BY <1>0, <3>1, <3>2
    <3>6. SemTypeOK'
      BY <1>0, <3>1, <3>2, <3>5, SemaphoreAssumption DEF SemTypeOK, NoPostLost, WaitersExact
    <3>7. WaitersExact'
      BY <1>0, <3>1, <3>3 DEF NoPostLost, WaitersExact
    <3>8. semAsleep' # {} => semvalue' <= Cardinality(SemWoken')
      BY <1>0, <3>1, <3>4 DEF SemTypeOK, NoPostLost, SemWoken
    <3>. QED
      BY <3>6, <3>7, <3>8 DEF NoPostLost, SemWoken
  <2>5. CASE SleepAgain(t)
    <3>1. /\ UNCHANGED <<waitercount, semIn, semvalue>> /\ semvalue = 0
          /\ semAsleep' = semAsleep \cup {t} /\ t \in semIn
      BY <2>5 DEF SleepAgain
    <3>2. SemTypeOK'
      BY <3>1 DEF SemTypeOK
    <3>3. SemWoken' \in SUBSET SemWoken
      BY <3>1 DEF SemWoken
    <3>4. IsFiniteSet(SemWoken')
      BY <1>0, <3>3, FS_Subset
    <3>5. Cardinality(SemWoken') \in Nat
      BY <3>4, FS_CardinalityType
    <3>. QED
      BY <3>1, <3>2, <3>5 DEF NoPostLost, WaitersExact, SemWoken
  <2>6. CASE SemSpurious(t)
    <3>1. /\ UNCHANGED <<waitercount, semIn, semvalue>>
          /\ t \in semAsleep /\ semAsleep' = semAsleep \ {t}
      BY <2>6 DEF SemSpurious
    <3>2. SemWoken' = SemWoken \cup {t} /\ t \notin SemWoken
      BY <3>1 DEF SemWoken, SemTypeOK
    <3>3. Cardinality(SemWoken') = Cardinality(SemWoken) + 1
      BY <1>0, <3>2, FS_AddElement
    <3>4. semvalue <= Cardinality(SemWoken)
      BY <3>1 DEF NoPostLost, SemWoken
    <3>. QED
      BY <1>0, <3>1, <3>3, <3>4 DEF SemTypeOK, NoPostLost, WaitersExact, SemWoken
  <2>. QED
    BY <1>2, <2>1, <2>2, <2>3, <2>4, <2>5, <2>6 DEF SemStep
<1>. QED
  BY <1>1, <1>2 DEF SemNext

\* The invariant holds in every reachable state.
THEOREM SemInvariance == SemSpec => []SemIInv
<1>. QED
  BY SemInitInvariant, SemStepInvariant, PTL DEF SemSpec

\* The value stays within its bounds and sleepers are counted waiters.
THEOREM SemTypeCorrect == SemSpec => []SemTypeOK
<1>1. SemIInv => SemTypeOK
  BY DEF SemIInv
<1>. QED
  BY <1>1, SemInvariance, PTL

\* No post is lost: while a thread sleeps in wait(), every value that post()
\* made has a thread that was woken and will look for one.
THEOREM PostsNeverLost == SemSpec => []NoPostLost
<1>1. SemIInv => NoPostLost
  BY DEF SemIInv
<1>. QED
  BY <1>1, SemInvariance, PTL

-----------------------------------------------------------------------------
(* cancellable_barrier                                                      *)

(* The inductive invariant.  That the two flags are opposite between the    *)
(* operations makes a thread that arrives listen to the flag that is not    *)
(* released.                                                                *)
FlagsOpposite == barrier_release = ~barrier_sense

BarIInv == BarTypeOK /\ NobodyPassesEarly /\ FlagsOpposite

\* The waiters whose generation has not fallen.
Unfallen == BarWaiting \ fallen

\* They are finitely many.
LEMMA UnfallenFinite ==
  /\ IsFiniteSet(Unfallen)
  /\ Cardinality(Unfallen) \in Nat
<1>1. IsFiniteSet(BarThreads) /\ Unfallen \in SUBSET BarThreads
  BY BarrierAssumption DEF Unfallen, BarWaiting
<1>. QED
  BY <1>1, FS_Subset, FS_CardinalityType

\* A broadcast moves threads inside wait() and lets none in or out.
LEMMA WokenKeepsWaiting ==
  ASSUME BarTypeOK, NEW asleep, barAt' = Woken(asleep)
  PROVE  /\ BarWaiting' = BarWaiting
         /\ barAt' \in [BarThreads ->
                         {"out", "enter", "test", "sleep", "asleep", "relock"}]
BY DEF BarTypeOK, Woken, BarAsleep, BarWaiting

\* A step that leaves the count, the flags and the waiters alone keeps the
\* two facts about them.
LEMMA BarQuietStep ==
  ASSUME NobodyPassesEarly, FlagsOpposite, BarWaiting' = BarWaiting,
         UNCHANGED <<barFlags, listening_on, fallen>>, alive' => alive
  PROVE  NobodyPassesEarly' /\ FlagsOpposite'
BY DEF NobodyPassesEarly, FlagsOpposite, barFlags

\* The barrier is born with nobody inside and its flags opposite.
THEOREM BarInitInvariant == BarInit => BarIInv
<1>. SUFFICES ASSUME BarInit PROVE BarIInv
  OBVIOUS
<1>1. BarWaiting = {}
  BY DEF BarInit, BarWaiting
<1>2. BarTypeOK
  BY <1>1, BarrierAssumption DEF BarInit, BarTypeOK
<1>3. NobodyPassesEarly
  BY <1>1, FS_EmptySet DEF BarInit, NobodyPassesEarly
<1>. QED
  BY <1>2, <1>3 DEF BarInit, BarIInv, FlagsOpposite

\* Every step keeps it, those of cancel() between the steps of wait() included.
THEOREM BarStepInvariant == BarIInv /\ [BarNext]_barVars => BarIInv'
<1>. SUFFICES ASSUME BarIInv, [BarNext]_barVars PROVE BarIInv'
  OBVIOUS
<1>. USE DEF BarIInv
<1>1. CASE UNCHANGED barVars
  <2>1. UNCHANGED <<needed, called, barrier_sense, barrier_release, alive, cancelled,
                    barMutex, barAt, listening_on, fallen, raced>>
    BY <1>1 DEF barVars, barFlags, barLocal
  <2>. QED
    BY <2>1 DEF BarTypeOK, NobodyPassesEarly, FlagsOpposite, BarWaiting
<1>2. ASSUME NEW n \in BarSizes, ResizeUnsafe(n) PROVE BarIInv'
  BY <1>2, BarQuietStep DEF ResizeUnsafe, BarTypeOK, barFlags, barLocal, BarWaiting
<1>3. CASE CancelClear
  BY <1>3, BarQuietStep DEF CancelClear, BarTypeOK, barFlags, barLocal, BarWaiting
<1>4. CASE CancelBroadcast
  <2>1. /\ barAt' = Woken(AfterBroadcast(BarAsleep))
        /\ UNCHANGED <<needed, barFlags, alive, barMutex, listening_on, fallen>>
        /\ cancelled' = TRUE
        /\ raced' = raced \cup {t \in BarThreads : barAt[t] = "sleep"}
    BY <1>4 DEF CancelBroadcast
  <2>2. /\ BarWaiting' = BarWaiting
        /\ barAt' \in [BarThreads ->
                        {"out", "enter", "test", "sleep", "asleep", "relock"}]
    BY <2>1, WokenKeepsWaiting
  <2>3. raced' \subseteq BarWaiting
    BY <2>1 DEF BarTypeOK, BarWaiting
  <2>4. BarTypeOK'
    BY <2>1, <2>2, <2>3 DEF BarTypeOK, barFlags
  <2>. QED
    BY <2>1, <2>2, <2>4, BarQuietStep
<1>5. ASSUME NEW t \in BarThreads, CallWait(t) \/ BarProgress(t) \/ BarSpurious(t)
      PROVE  BarIInv'
  <2>1. CASE CallWait(t)
    <3>1. BarWaiting' = BarWaiting
      BY <2>1 DEF CallWait, BarTypeOK, BarWaiting
    <3>2. BarTypeOK'
      BY <2>1, <3>1 DEF CallWait, BarTypeOK, barFlags, barLocal
    <3>. QED
      BY <2>1, <3>1, <3>2, BarQuietStep DEF CallWait, barFlags, barLocal
  <2>2. CASE StayIn(t) \/ FallAsleep(t) \/ BarSpurious(t) \/ Relock(t)
    <3>1. BarWaiting' = BarWaiting
      BY <2>2 DEF StayIn, FallAsleep, BarSpurious, Relock, BarTypeOK, BarWaiting
    <3>2. BarTypeOK'
      BY <2>2, <3>1 DEF StayIn, FallAsleep, BarSpurious, Relock, BarTypeOK, barFlags, barLocal
    <3>. QED
      BY <2>2, <3>1, <3>2, BarQuietStep
      DEF StayIn, FallAsleep, BarSpurious, Relock, barFlags, barLocal
  <2>3. CASE Arrive(t)
    <3>1. BarWaiting' = BarWaiting \cup {t} /\ t \notin BarWaiting
      BY <2>3 DEF Arrive, BarTypeOK, BarWaiting
    <3>2. Unfallen' = Unfallen \cup {t} /\ t \notin Unfallen
      BY <2>3, <3>1 DEF Arrive, BarTypeOK, Unfallen
    <3>3. Cardinality(Unfallen') = Cardinality(Unfallen) + 1
      BY <3>2, UnfallenFinite, FS_AddElement
    <3>4. called' = called + 1 /\ (alive' <=> alive)
      BY <2>3 DEF Arrive
    <3>5. alive' => called' = Cardinality(Unfallen')
      BY <3>3, <3>4 DEF NobodyPassesEarly, Unfallen
    <3>6. \A u \in Unfallen' : barrier_release' # listening_on'[u]
      BY <2>3, <3>2 DEF Arrive, BarTypeOK, NobodyPassesEarly, FlagsOpposite, Unfallen, BarWaiting
    <3>7. BarTypeOK'
      BY <2>3, <3>1 DEF Arrive, BarTypeOK
    <3>. QED
      BY <2>3, <3>5, <3>6, <3>7 DEF Arrive, NobodyPassesEarly, FlagsOpposite, Unfallen
  <2>4. CASE Fall(t)
    <3>1. BarWaiting' = BarWaiting
      BY <2>4 DEF Fall, Woken, BarAsleep, BarTypeOK, BarWaiting
    <3>2. Unfallen' = {}
      BY <2>4, <3>1 DEF Fall, Unfallen
    <3>3. called' = 0 /\ Cardinality(Unfallen') = 0
      BY <2>4, <3>2, FS_EmptySet DEF Fall
    <3>4. NobodyPassesEarly'
      BY <3>2, <3>3 DEF NobodyPassesEarly, Unfallen
    <3>5. FlagsOpposite'
      BY <2>4 DEF Fall, FlagsOpposite, BarTypeOK
    <3>6. barAt' \in [BarThreads ->
                       {"out", "enter", "test", "sleep", "asleep", "relock"}]
      BY <2>4 DEF Fall, Woken, BarTypeOK
    <3>7. BarTypeOK'
      BY <2>4, <3>1, <3>6 DEF Fall, BarTypeOK
    <3>. QED
      BY <3>4, <3>5, <3>7
  <2>5. CASE Leave(t)
    <3>1. BarWaiting' = BarWaiting \ {t}
      BY <2>5 DEF Leave, BarTypeOK, BarWaiting
    <3>2. t \in BarWaiting
      BY <2>5 DEF Leave, BarWaiting
    <3>3. alive => t \in fallen
      BY <2>5, <3>2 DEF Leave, NobodyPassesEarly
    <3>4. alive => Unfallen' = Unfallen
      BY <2>5, <3>1, <3>3 DEF Leave, Unfallen
    <3>5. Unfallen' \subseteq Unfallen
      BY <2>5, <3>1 DEF Leave, Unfallen
    <3>6. NobodyPassesEarly'
      BY <2>5, <3>4, <3>5 DEF Leave, NobodyPassesEarly, Unfallen, barFlags
    <3>7. BarTypeOK'
      BY <2>5, <3>1 DEF Leave, BarTypeOK, barFlags
    <3>. QED
      BY <2>5, <3>6, <3>7 DEF Leave, FlagsOpposite, barFlags
  <2>. QED
    BY <1>5, <2>1, <2>2, <2>3, <2>4, <2>5 DEF BarProgress
<1>. QED
  BY <1>1, <1>2, <1>3, <1>4, <1>5 DEF BarNext

\* The invariant holds in every reachable state.
THEOREM BarInvariance == BarSpec => []BarIInv
<1>. QED
  BY BarInitInvariant, BarStepInvariant, PTL DEF BarSpec

\* The variables keep their types; the observers' variables only ever name
\* threads that are inside wait().
THEOREM BarTypeCorrect == BarSpec => []BarTypeOK
<1>1. BarIInv => BarTypeOK
  BY DEF BarIInv
<1>. QED
  BY <1>1, BarInvariance, PTL

\* No waiter finds the barrier released before the last thread of its own
\* generation has arrived, and called counts that generation.
THEOREM NobodyEverPassesEarly == BarSpec => []NobodyPassesEarly
<1>1. BarIInv => NobodyPassesEarly
  BY DEF BarIInv
<1>. QED
  BY <1>1, BarInvariance, PTL

-----------------------------------------------------------------------------
(* thread_group                                                             *)

(* What a thread is counted for in threads_running: it is about to be       *)
(* created, it runs, or it waits in joinqueue.                              *)
Creating == {c \in Callers : at[c] = "create"}

RunningCounted ==
  threads_running = Cardinality(Running) + Len(joinqueue) + Cardinality(Creating)

(* A thread object is there for every launch() under way.                   *)
Free == {t \in Threads : stage[t] = "free"}
SlotsKept == Cardinality(Launching) <= Cardinality(Free)

(* The inductive invariant.  The types rest on the bound of the counter.    *)
IdsBounded == \A c \in Callers : at[c] = "store" => newid[c] < MaxCounter

GroupIInv == GroupTypeOK /\ IdsBounded /\ RunningCounted /\ SlotsKept

\* All the sets that are counted are finite.
LEMMA AllFinite ==
  /\ IsFiniteSet(Running) /\ IsFiniteSet(Creating)
  /\ IsFiniteSet(Free) /\ IsFiniteSet(Launching)
  /\ Cardinality(Running) \in Nat /\ Cardinality(Creating) \in Nat
  /\ Cardinality(Free) \in Nat /\ Cardinality(Launching) \in Nat
<1>1. IsFiniteSet(Threads) /\ IsFiniteSet(Callers)
  BY GroupAssumption
<1>2. /\ Running \in SUBSET Threads /\ Free \in SUBSET Threads
      /\ Creating \in SUBSET Callers /\ Launching \in SUBSET Callers
  BY DEF Running, Free, Creating, Launching
<1>3. /\ IsFiniteSet(Running) /\ IsFiniteSet(Free)
      /\ IsFiniteSet(Creating) /\ IsFiniteSet(Launching)
  BY <1>1, <1>2, FS_Subset
<1>. QED
  BY <1>3, FS_CardinalityType

\* A step that leaves the queue, the threads and the launches alone.
LEMMA GroupQuietStep ==
  ASSUME RunningCounted, SlotsKept, UNCHANGED <<threads_running, joinqueue>>,
         Running' = Running, Free' = Free, Creating' = Creating, Launching' = Launching
  PROVE  RunningCounted' /\ SlotsKept'
BY DEF RunningCounted, SlotsKept

\* launch() never asks thread::launch() for a CPU that is not there.
LEMMA BoundCpuIsThere ==
  ASSUME NEW cpu_id \in Nat \cup {AnyCpu}
  PROVE  BoundCpu(cpu_id) \in Cpus
<1>1. CASE cpu_id = AnyCpu \/ Ncpus = 0
  BY <1>1 DEF BoundCpu, Cpus
<1>2. CASE cpu_id # AnyCpu /\ Ncpus # 0
  <2>1. cpu_id \in Nat /\ Ncpus \in Nat /\ Ncpus > 0
    BY <1>2, GroupAssumption
  <2>2. cpu_id % Ncpus \in 0 .. Ncpus - 1
    BY <2>1
  <2>. QED
    BY <1>2, <2>2 DEF BoundCpu, Cpus
<1>. QED
  BY <1>1, <1>2

\* The group starts with nothing to wait for.
THEOREM GroupInitInvariant == GroupInit => GroupIInv
<1>. SUFFICES ASSUME GroupInit PROVE GroupIInv
  OBVIOUS
<1>1. Running = {} /\ Creating = {} /\ Launching = {}
  BY DEF GroupInit, Running, Creating, Launching
<1>2. RunningCounted
  BY <1>1, FS_EmptySet DEF GroupInit, RunningCounted
<1>3. SlotsKept
  BY <1>1, FS_EmptySet, AllFinite DEF SlotsKept
<1>4. GroupTypeOK
  <2>1. /\ NoThread \in [thread : SUBSET Threads, failed : BOOLEAN]
        /\ AnyCpu \in Cpus
    BY DEF NoThread, Cpus
  <2>2. joinqueue \in Seq([thread : SUBSET Threads, failed : BOOLEAN])
    BY DEF GroupInit
  <2>3. /\ stage \in [Threads -> {"free", "running", "exiting", "ended"}]
        /\ id \in [Threads -> Nat] /\ cpu \in [Threads -> Cpus]
    BY <2>1 DEF GroupInit
  <2>4. /\ at \in [Callers -> {"idle", "store", "count", "create",
                               "test", "wait", "pthread_join"}]
        /\ newid \in [Callers -> 0 .. MaxCounter]
        /\ joining \in [Callers -> [thread : SUBSET Threads, failed : BOOLEAN]]
    BY <2>1, GroupAssumption DEF GroupInit
  <2>5. /\ m_thread_counter \in 0 .. MaxCounter /\ threads_running \in Nat
    BY GroupAssumption DEF GroupInit
  <2>6. /\ groupAsleep \subseteq {c \in Callers : at[c] = "wait"}
        /\ shared \subseteq Callers
    BY DEF GroupInit
  <2>7. overlapped \in BOOLEAN
    BY DEF GroupInit
  <2>. QED
    BY <2>2, <2>3, <2>4, <2>5, <2>6, <2>7 DEF GroupTypeOK
<1>. QED
  BY <1>2, <1>3, <1>4 DEF GroupInit, GroupIInv, IdsBounded

\* A call of launch() keeps the invariant.
LEMMA LaunchInvariant ==
  ASSUME GroupIInv, NEW c \in Callers, NEW cpu_id \in Nat \cup {AnyCpu},
         TakeId(c) \/ LaunchStep(c, cpu_id)
  PROVE  GroupIInv'
<1>. USE DEF GroupIInv
<1>1. CASE TakeId(c)
  <2>1. GroupTypeOK' /\ IdsBounded'
    BY <1>1, GroupAssumption DEF TakeId, GroupTypeOK, IdsBounded, threadState
  <2>2. /\ Running' = Running /\ Free' = Free /\ Creating' = Creating
        /\ UNCHANGED <<threads_running, joinqueue>>
    BY <1>1 DEF TakeId, GroupTypeOK, Running, Free, Creating, threadState
  <2>3. Launching' = Launching \cup {c} /\ c \notin Launching
    BY <1>1 DEF TakeId, GroupTypeOK, Launching
  <2>4. Cardinality(Launching') = Cardinality(Launching) + 1
    BY <2>3, AllFinite, FS_AddElement
  <2>5. Cardinality(Free) > Cardinality(Launching)
    BY <1>1 DEF TakeId, Free
  <2>6. SlotsKept'
    BY <2>2, <2>4, <2>5, AllFinite DEF SlotsKept
  <2>. QED
    BY <2>1, <2>2, <2>6 DEF RunningCounted
<1>2. CASE StoreCounter(c)
  <2>1. GroupTypeOK' /\ IdsBounded'
    BY <1>2, GroupAssumption DEF StoreCounter, GroupTypeOK, IdsBounded, threadState
  <2>2. /\ Running' = Running /\ Free' = Free /\ Creating' = Creating
        /\ Launching' = Launching /\ UNCHANGED <<threads_running, joinqueue>>
    BY <1>2 DEF StoreCounter, GroupTypeOK, Running, Free, Creating, Launching, threadState
  <2>. QED
    BY <2>1, <2>2, GroupQuietStep
<1>3. CASE CountThread(c)
  <2>1. GroupTypeOK' /\ IdsBounded'
    BY <1>3 DEF CountThread, GroupTypeOK, IdsBounded, threadState
  <2>2. /\ Running' = Running /\ Free' = Free /\ Launching' = Launching
        /\ threads_running' = threads_running + 1 /\ UNCHANGED joinqueue
    BY <1>3 DEF CountThread, GroupTypeOK, Running, Free, Launching, threadState
  <2>3. Creating' = Creating \cup {c} /\ c \notin Creating
    BY <1>3 DEF CountThread, GroupTypeOK, Creating
  <2>4. Cardinality(Creating') = Cardinality(Creating) + 1
    BY <2>3, AllFinite, FS_AddElement
  <2>5. Len(joinqueue) \in Nat
    BY DEF GroupTypeOK
  <2>. QED
    BY <2>1, <2>2, <2>4, <2>5, AllFinite DEF RunningCounted, SlotsKept
<1>4. CASE CreateThread(c, cpu_id)
  <2>. DEFINE t == CHOOSE u \in Threads : stage[u] = "free"
  <2>1. t \in Threads /\ stage[t] = "free"
    <3>1. c \in Launching
      BY <1>4 DEF CreateThread, Launching
    <3>2. Cardinality(Launching) # 0
      BY <3>1, AllFinite, FS_EmptySet
    <3>3. Cardinality(Free) # 0
      BY <3>2, AllFinite DEF SlotsKept
    <3>4. Free # {}
      BY <3>3, FS_EmptySet
    <3>. QED
      BY <3>4 DEF Free
  <2>. HIDE DEF t
  <2>2. /\ stage' = [stage EXCEPT ![t] = "running"]
        /\ id' = [id EXCEPT ![t] = newid[c]]
        /\ cpu' = [cpu EXCEPT ![t] = BoundCpu(cpu_id)]
        /\ at[c] = "create" /\ at' = [at EXCEPT ![c] = "idle"]
        /\ newid' = [newid EXCEPT ![c] = 0]
        /\ UNCHANGED <<groupCounts, joinqueue, groupAsleep, joining, shared>>
    BY <1>4 DEF CreateThread, SetThreadId, t
  <2>3. BoundCpu(cpu_id) \in Cpus
    BY BoundCpuIsThere
  <2>4. GroupTypeOK' /\ IdsBounded'
    BY <2>1, <2>2, <2>3, GroupAssumption DEF GroupTypeOK, IdsBounded, groupCounts
  <2>5. /\ Running' = Running \cup {t} /\ t \notin Running
        /\ Free' = Free \ {t} /\ t \in Free
    BY <2>1, <2>2 DEF GroupTypeOK, Running, Free
  <2>6. /\ Creating' = Creating \ {c} /\ c \in Creating
        /\ Launching' = Launching \ {c} /\ c \in Launching
    BY <2>2 DEF GroupTypeOK, Creating, Launching
  <2>7. /\ Cardinality(Running') = Cardinality(Running) + 1
        /\ Cardinality(Free') = Cardinality(Free) - 1
    BY <2>5, AllFinite, FS_AddElement, FS_RemoveElement
  <2>8. /\ Cardinality(Creating') = Cardinality(Creating) - 1
        /\ Cardinality(Launching') = Cardinality(Launching) - 1
    BY <2>6, AllFinite, FS_RemoveElement
  <2>9. UNCHANGED <<threads_running, joinqueue>> /\ Len(joinqueue) \in Nat
    BY <2>2 DEF groupCounts, GroupTypeOK
  <2>. QED
    BY <2>4, <2>7, <2>8, <2>9, AllFinite DEF RunningCounted, SlotsKept
<1>. QED
  BY <1>1, <1>2, <1>3, <1>4 DEF LaunchStep

\* A thread that finishes or ends keeps the invariant.
LEMMA ThreadInvariant ==
  ASSUME GroupIInv, NEW t \in Threads, ThreadStep(t)
  PROVE  GroupIInv'
<1>. USE DEF GroupIInv
<1>1. ASSUME NEW failed \in BOOLEAN, ThreadFinish(t, failed) PROVE GroupIInv'
  <2>1. groupAsleep' \subseteq groupAsleep
    BY <1>1 DEF ThreadFinish, AfterSignal
  <2>2. /\ joinqueue' = Append(joinqueue, [thread |-> {t}, failed |-> failed])
        /\ [thread |-> {t}, failed |-> failed] \in [thread : SUBSET Threads, failed : BOOLEAN]
        /\ joinqueue \in Seq([thread : SUBSET Threads, failed : BOOLEAN])
    BY <1>1 DEF ThreadFinish, GroupTypeOK
  <2>3. /\ joinqueue' \in Seq([thread : SUBSET Threads, failed : BOOLEAN])
        /\ Len(joinqueue') = Len(joinqueue) + 1 /\ Len(joinqueue) \in Nat
    BY <2>2
  <2>4. stage' \in [Threads -> {"free", "running", "exiting", "ended"}]
    BY <1>1 DEF ThreadFinish, GroupTypeOK
  <2>5. GroupTypeOK' /\ IdsBounded'
    BY <1>1, <2>1, <2>3, <2>4 DEF ThreadFinish, GroupTypeOK, IdsBounded, groupCounts, groupLocals
  <2>6. Running' = Running \ {t} /\ t \in Running /\ Free' = Free
    BY <1>1 DEF ThreadFinish, GroupTypeOK, Running, Free
  <2>7. Creating' = Creating /\ Launching' = Launching /\ UNCHANGED threads_running
    BY <1>1 DEF ThreadFinish, Creating, Launching, groupLocals, groupCounts
  <2>8. Cardinality(Running') = Cardinality(Running) - 1
    BY <2>6, AllFinite, FS_RemoveElement
  <2>. QED
    BY <2>3, <2>5, <2>6, <2>7, <2>8, AllFinite DEF RunningCounted, SlotsKept
<1>2. CASE ThreadEnd(t)
  <2>1. GroupTypeOK' /\ IdsBounded'
    BY <1>2 DEF ThreadEnd, GroupTypeOK, IdsBounded, groupCounts, groupLocals
  <2>2. /\ Running' = Running /\ Free' = Free /\ Creating' = Creating
        /\ Launching' = Launching /\ UNCHANGED <<threads_running, joinqueue>>
    BY <1>2 DEF ThreadEnd, GroupTypeOK, Running, Free, Creating, Launching,
       groupCounts, groupLocals
  <2>. QED
    BY <2>1, <2>2, GroupQuietStep
<1>. QED
  BY <1>1, <1>2 DEF ThreadStep

\* The end of a joined thread gives its object back.
LEMMA FreeGrows ==
  ASSUME NEW t \in Free', Free' = Free \cup {t}, t \notin Free
  PROVE  Cardinality(Free') = Cardinality(Free) + 1
BY AllFinite, FS_AddElement

\* A call of join(), alone or together with others, keeps the invariant.
LEMMA JoinInvariant ==
  ASSUME GroupIInv, NEW c \in Callers, CallJoin(c) \/ JoinStep(c) \/ GroupSpurious(c)
  PROVE  GroupIInv'
<1>. USE DEF GroupIInv
<1>1. CASE CallJoin(c) \/ JoinReturn(c) \/ JoinWait(c) \/ GroupSpurious(c)
  <2>1. /\ Running' = Running /\ Free' = Free /\ Creating' = Creating
        /\ Launching' = Launching /\ UNCHANGED <<threads_running, joinqueue>>
    BY <1>1 DEF CallJoin, JoinReturn, JoinWait, GroupSpurious, AtJoinQueue, GroupTypeOK,
       Running, Free, Creating, Launching, groupCounts, groupLocals, threadState
  <2>2. CASE CallJoin(c)
    <3>1. shared' \subseteq Callers
      BY <2>2 DEF CallJoin, GroupTypeOK, InJoin
    <3>2. at' \in [Callers -> {"idle", "store", "count", "create",
                               "test", "wait", "pthread_join"}]
      BY <2>2 DEF CallJoin, GroupTypeOK
    <3>3. groupAsleep' \subseteq {d \in Callers : at'[d] = "wait"}
      BY <2>2 DEF CallJoin, GroupTypeOK
    <3>4. IdsBounded'
      BY <2>2 DEF CallJoin, GroupTypeOK, IdsBounded
    <3>5. GroupTypeOK'
      BY <2>2, <3>1, <3>2, <3>3 DEF CallJoin, GroupTypeOK, groupCounts, threadState
    <3>. QED
      BY <2>1, <3>4, <3>5, GroupQuietStep
  <2>3. CASE JoinReturn(c)
    <3>1. GroupTypeOK' /\ IdsBounded'
      BY <2>3 DEF JoinReturn, GroupTypeOK, IdsBounded, groupCounts, threadState
    <3>. QED
      BY <2>1, <3>1, GroupQuietStep
  <2>4. CASE JoinWait(c)
    <3>1. GroupTypeOK' /\ IdsBounded'
      BY <2>4 DEF JoinWait, AtJoinQueue, GroupTypeOK, IdsBounded, groupCounts, threadState
    <3>. QED
      BY <2>1, <3>1, GroupQuietStep
  <2>5. CASE GroupSpurious(c)
    <3>1. GroupTypeOK' /\ IdsBounded'
      BY <2>5 DEF GroupSpurious, GroupTypeOK, IdsBounded, groupCounts, threadState, groupLocals
    <3>. QED
      BY <2>1, <3>1, GroupQuietStep
  <2>. QED
    BY <1>1, <2>2, <2>3, <2>4, <2>5
<1>2. CASE JoinPop(c)
  <2>. DEFINE Exits == [thread : SUBSET Threads, failed : BOOLEAN]
  <2>1. /\ joinqueue \in Seq(Exits) /\ joinqueue # <<>>
        /\ joining' = [joining EXCEPT ![c] = Head(joinqueue)]
        /\ joinqueue' = Tail(joinqueue)
        /\ threads_running' = threads_running - 1
        /\ at' = [at EXCEPT ![c] = "pthread_join"]
        /\ at[c] \in {"test", "wait"} /\ c \notin groupAsleep
        /\ UNCHANGED <<groupAsleep, stage, id, cpu, newid, shared>>
    BY <1>2 DEF JoinPop, AtJoinQueue, GroupTypeOK, threadState
  <2>2. /\ joinqueue' \in Seq(Exits) /\ Head(joinqueue) \in Exits
        /\ Len(joinqueue) \in Nat /\ Len(joinqueue) # 0
        /\ Len(joinqueue') = Len(joinqueue) - 1
    BY <2>1, HeadTailProperties, EmptySeq, LenProperties
  <2>3. /\ Running' = Running /\ Free' = Free /\ Creating' = Creating
        /\ Launching' = Launching
    BY <2>1 DEF GroupTypeOK, Running, Free, Creating, Launching
  <2>4. RunningCounted' /\ SlotsKept'
    BY <2>1, <2>2, <2>3, AllFinite DEF RunningCounted, SlotsKept
  <2>5. threads_running' \in Nat
    BY <2>1, <2>2, AllFinite DEF GroupTypeOK, RunningCounted
  <2>6. m_thread_counter' \in 0 .. MaxCounter /\ overlapped' \in BOOLEAN
    <3>1. m_thread_counter' = 0 \/ m_thread_counter' = m_thread_counter
      BY <1>2 DEF JoinPop
    <3>2. overlapped' = (Launching # {}) \/ overlapped' = overlapped
      BY <1>2, Zenon DEF JoinPop
    <3>3. m_thread_counter' \in 0 .. MaxCounter
      BY <3>1, GroupAssumption DEF GroupTypeOK
    <3>4. overlapped' \in BOOLEAN
      BY <3>2, Zenon DEF GroupTypeOK
    <3>. QED
      BY <3>3, <3>4
  <2>7. joining' \in [Callers -> Exits]
    BY <2>1, <2>2 DEF GroupTypeOK
  <2>8. groupAsleep' \subseteq {d \in Callers : at'[d] = "wait"}
    BY <2>1 DEF GroupTypeOK
  <2>9. GroupTypeOK' /\ IdsBounded'
    BY <2>1, <2>2, <2>5, <2>6, <2>7, <2>8 DEF GroupTypeOK, IdsBounded
  <2>. QED
    BY <2>4, <2>9
<1>3. CASE JoinThread(c)
  <2>1. PICK t \in joining[c].thread :
          /\ stage[t] = "ended"
          /\ stage' = [stage EXCEPT ![t] = "free"]
          /\ id' = [id EXCEPT ![t] = 0]
          /\ cpu' = [cpu EXCEPT ![t] = AnyCpu]
    BY <1>3 DEF JoinThread
  <2>2. t \in Threads
    BY <2>1 DEF GroupTypeOK
  <2>3. /\ at[c] = "pthread_join" /\ joining' = [joining EXCEPT ![c] = NoThread]
        /\ \/ at' = [at EXCEPT ![c] = "idle"] /\ shared' = shared \ {c}
           \/ at' = [at EXCEPT ![c] = "test"] /\ UNCHANGED shared
        /\ UNCHANGED <<groupCounts, joinqueue, groupAsleep, newid>>
    BY <1>3 DEF JoinThread
  <2>4. /\ NoThread \in [thread : SUBSET Threads, failed : BOOLEAN]
        /\ AnyCpu \in Cpus
    BY DEF NoThread, Cpus
  <2>5. /\ stage' \in [Threads -> {"free", "running", "exiting", "ended"}]
        /\ id' \in [Threads -> Nat] /\ cpu' \in [Threads -> Cpus]
    BY <2>1, <2>2, <2>4 DEF GroupTypeOK
  <2>6. at' \in [Callers -> {"idle", "store", "count", "create",
                             "test", "wait", "pthread_join"}]
    BY <2>3 DEF GroupTypeOK
  <2>7. groupAsleep' \subseteq {d \in Callers : at'[d] = "wait"}
    BY <2>3 DEF GroupTypeOK
  <2>8. GroupTypeOK' /\ IdsBounded'
    BY <2>3, <2>4, <2>5, <2>6, <2>7 DEF GroupTypeOK, IdsBounded, groupCounts
  <2>9. /\ Running' = Running /\ Free' = Free \cup {t} /\ t \notin Free
        /\ Creating' = Creating /\ Launching' = Launching
    BY <2>1, <2>2, <2>3 DEF GroupTypeOK, Running, Free, Creating, Launching
  <2>10. Cardinality(Free') = Cardinality(Free) + 1
    BY <2>9, FreeGrows
  <2>11. UNCHANGED <<threads_running, joinqueue>>
    BY <2>3 DEF groupCounts
  <2>. QED
    BY <2>8, <2>9, <2>10, <2>11, AllFinite DEF RunningCounted, SlotsKept
<1>. QED
  BY <1>1, <1>2, <1>3 DEF JoinStep

\* Every step of every caller and thread keeps the invariant.
THEOREM GroupStepInvariant == GroupIInv /\ [GroupNext]_groupVars => GroupIInv'
<1>. SUFFICES ASSUME GroupIInv, [GroupNext]_groupVars PROVE GroupIInv'
  OBVIOUS
<1>1. CASE UNCHANGED groupVars
  <2>1. UNCHANGED <<m_thread_counter, threads_running, overlapped, joinqueue, groupAsleep,
                    stage, id, cpu, at, newid, joining, shared>>
    BY <1>1 DEF groupVars, groupCounts, threadState, groupLocals
  <2>2. /\ Running' = Running /\ Free' = Free /\ Creating' = Creating
        /\ Launching' = Launching
    BY <2>1 DEF Running, Free, Creating, Launching
  <2>3. GroupTypeOK' /\ IdsBounded'
    BY <2>1 DEF GroupIInv, GroupTypeOK, IdsBounded
  <2>. QED
    BY <2>1, <2>2, <2>3, GroupQuietStep DEF GroupIInv
<1>2. ASSUME NEW c \in Callers,
             TakeId(c) \/ CallJoin(c) \/ JoinStep(c) \/ GroupSpurious(c)
      PROVE  GroupIInv'
  <2>1. AnyCpu \in Nat \cup {AnyCpu}
    OBVIOUS
  <2>. QED
    BY <1>2, <2>1, LaunchInvariant, JoinInvariant
<1>3. ASSUME NEW c \in Callers, NEW cpu_id \in AskedCpus \cup {AnyCpu},
             LaunchStep(c, cpu_id)
      PROVE  GroupIInv'
  BY <1>3, LaunchInvariant, GroupAssumption
<1>4. ASSUME NEW t \in Threads, ThreadStep(t) PROVE GroupIInv'
  BY <1>4, ThreadInvariant
<1>. QED
  BY <1>1, <1>2, <1>3, <1>4 DEF GroupNext

(* Why the ids of running threads differ: a launch() between its increment  *)
(* and its thread keeps an id that nobody else has, below the counter.      *)
Storing == {c \in Callers : at[c] = "store"}
Named   == {c \in Callers : at[c] \in {"count", "create"}}

IdsApart ==
  /\ \A c, d \in Storing : c = d
  /\ \A c \in Storing : newid[c] = m_thread_counter
  /\ \A c \in Named : newid[c] < m_thread_counter
  /\ \A t \in Running : id[t] < m_thread_counter
  /\ \A c, d \in Named : newid[c] = newid[d] => c = d
  /\ \A t, u \in Running : id[t] = id[u] => t = u
  /\ \A t \in Running, c \in Named : id[t] # newid[c]

IdsInv == ~overlapped => IdsApart

\* A step that names and starts no thread takes no id that is in use.
LEMMA IdsQuiet ==
  ASSUME IdsInv, overlapped' = overlapped, m_thread_counter' = m_thread_counter,
         Storing' = Storing, Named' = Named, Running' \subseteq Running,
         \A t \in Running' : id'[t] = id[t],
         \A c \in Storing \cup Named : newid'[c] = newid[c]
  PROVE  IdsInv'
BY DEF IdsInv, IdsApart

\* A launch() keeps the ids apart, unless it meets another one's increment.
LEMMA IdsLaunch ==
  ASSUME GroupIInv, IdsInv, NEW c \in Callers, NEW cpu_id \in Nat \cup {AnyCpu},
         TakeId(c) \/ LaunchStep(c, cpu_id)
  PROVE  IdsInv'
<1>0. GroupTypeOK /\ m_thread_counter \in Nat
  BY GroupAssumption DEF GroupIInv, GroupTypeOK
<1>1. CASE TakeId(c)
  <2>1. /\ at[c] = "idle" /\ at' = [at EXCEPT ![c] = "store"]
        /\ newid' = [newid EXCEPT ![c] = m_thread_counter]
        /\ overlapped' = (overlapped \/ Storing # {})
        /\ UNCHANGED <<m_thread_counter, stage, id>>
    BY <1>1, Zenon DEF TakeId, Storing, threadState
  <2>2. SUFFICES ASSUME ~overlapped' PROVE IdsApart'
    BY DEF IdsInv
  <2>3. ~overlapped /\ Storing = {} /\ IdsApart
    BY <2>1, <2>2 DEF IdsInv
  <2>4. /\ Storing' = {c} /\ Named' = Named /\ Running' = Running
        /\ newid'[c] = m_thread_counter /\ \A d \in Named : newid'[d] = newid[d]
    BY <1>0, <2>1, <2>3 DEF Storing, Named, Running, GroupTypeOK
  <2>. QED
    BY <2>1, <2>3, <2>4 DEF IdsApart
<1>2. CASE StoreCounter(c)
  <2>1. /\ at[c] = "store" /\ at' = [at EXCEPT ![c] = "count"]
        /\ m_thread_counter' = newid[c] + 1
        /\ UNCHANGED <<overlapped, stage, id, newid>>
    BY <1>2 DEF StoreCounter, threadState
  <2>2. SUFFICES ASSUME ~overlapped' PROVE IdsApart'
    BY DEF IdsInv
  <2>3. IdsApart /\ c \in Storing /\ newid[c] = m_thread_counter /\ Storing = {c}
    BY <2>1, <2>2 DEF IdsInv, IdsApart, Storing
  <2>4. Storing' = {} /\ Named' = Named \cup {c} /\ Running' = Running
    BY <1>0, <2>1, <2>3 DEF Storing, Named, Running, GroupTypeOK
  <2>5. /\ \A d \in Named : newid[d] \in Nat /\ newid[d] < m_thread_counter
        /\ \A t \in Running : id[t] \in Nat /\ id[t] < m_thread_counter
    BY <1>0, <2>3, GroupAssumption DEF IdsApart, Named, Running, GroupTypeOK
  <2>6. m_thread_counter' = m_thread_counter + 1
    BY <2>1, <2>3
  <2>7. /\ \A d \in Named' : newid[d] < m_thread_counter'
        /\ \A t \in Running : id[t] < m_thread_counter' /\ \A d \in Named' : id[t] # newid[d]
    BY <1>0, <2>3, <2>4, <2>5, <2>6 DEF IdsApart
  <2>8. \A d, e \in Named' : newid[d] = newid[e] => d = e
    BY <1>0, <2>3, <2>4, <2>5 DEF IdsApart
  <2>. QED
    BY <2>1, <2>3, <2>4, <2>7, <2>8 DEF IdsApart
<1>3. CASE CountThread(c)
  <2>1. /\ Storing' = Storing /\ Named' = Named /\ Running' = Running
        /\ UNCHANGED <<m_thread_counter, overlapped, id, newid>>
    BY <1>0, <1>3 DEF CountThread, Storing, Named, Running, GroupTypeOK, threadState
  <2>. QED
    BY <2>1, IdsQuiet
<1>4. CASE CreateThread(c, cpu_id)
  <2>. DEFINE t == CHOOSE u \in Threads : stage[u] = "free"
  <2>1. t \in Threads /\ stage[t] = "free"
    <3>1. c \in Launching
      BY <1>4 DEF CreateThread, Launching
    <3>2. Free # {}
      BY <3>1, AllFinite, FS_EmptySet DEF GroupIInv, SlotsKept
    <3>. QED
      BY <3>2 DEF Free
  <2>. HIDE DEF t
  <2>2. /\ stage' = [stage EXCEPT ![t] = "running"] /\ id' = [id EXCEPT ![t] = newid[c]]
        /\ at[c] = "create" /\ at' = [at EXCEPT ![c] = "idle"]
        /\ newid' = [newid EXCEPT ![c] = 0]
        /\ UNCHANGED <<m_thread_counter, overlapped>>
    BY <1>4 DEF CreateThread, SetThreadId, t, groupCounts
  <2>3. SUFFICES ASSUME ~overlapped' PROVE IdsApart'
    BY DEF IdsInv
  <2>4. IdsApart /\ c \in Named
    BY <2>2, <2>3 DEF IdsInv, Named
  <2>5. /\ Storing' = Storing /\ Named' = Named \ {c}
        /\ Running' = Running \cup {t} /\ t \notin Running
    BY <1>0, <2>1, <2>2 DEF Storing, Named, Running, GroupTypeOK
  <2>6. /\ \A d \in Storing \cup Named' : newid'[d] = newid[d]
        /\ id'[t] = newid[c] /\ \A u \in Running : id'[u] = id[u]
    BY <1>0, <2>1, <2>2, <2>5 DEF Storing, Named, Running, GroupTypeOK
  <2>. QED
    BY <2>2, <2>4, <2>5, <2>6 DEF IdsApart
<1>. QED
  BY <1>1, <1>2, <1>3, <1>4 DEF LaunchStep

\* Once the counter is reset by the last thread, no id is in use.
LEMMA IdsJoin ==
  ASSUME GroupIInv, IdsInv, NEW c \in Callers, CallJoin(c) \/ JoinStep(c) \/ GroupSpurious(c)
  PROVE  IdsInv'
<1>0. GroupTypeOK
  BY DEF GroupIInv
<1>1. CASE CallJoin(c) \/ JoinReturn(c) \/ JoinWait(c) \/ GroupSpurious(c)
  <2>1. /\ Storing' = Storing /\ Named' = Named /\ Running' = Running
        /\ UNCHANGED <<m_thread_counter, overlapped, id, newid>>
    BY <1>0, <1>1 DEF CallJoin, JoinReturn, JoinWait, GroupSpurious, AtJoinQueue, Storing,
       Named, Running, GroupTypeOK, threadState, groupCounts, groupLocals
  <2>. QED
    BY <2>1, IdsQuiet
<1>2. CASE JoinPop(c)
  <2>1. /\ threads_running' = threads_running - 1 /\ UNCHANGED <<stage, id, newid>>
        /\ joinqueue # <<>> /\ at' = [at EXCEPT ![c] = "pthread_join"]
        /\ at[c] \in {"test", "wait"}
    BY <1>2 DEF JoinPop, AtJoinQueue, threadState
  <2>2. Storing' = Storing /\ Named' = Named /\ Running' = Running
    BY <1>0, <2>1 DEF Storing, Named, Running, GroupTypeOK
  <2>3. CASE threads_running' = 0
    <3>1. overlapped' = (Launching # {})
      BY <1>2, <2>3 DEF JoinPop
    <3>2. Len(joinqueue) \in Nat /\ Len(joinqueue) # 0 /\ threads_running \in Nat
      BY <1>0, <2>1, EmptySeq DEF GroupTypeOK
    <3>3. Cardinality(Running) = 0
      BY <2>1, <2>3, <3>2, AllFinite DEF GroupIInv, RunningCounted
    <3>4. Running = {}
      BY <3>3, AllFinite, FS_EmptySet
    <3>5. Launching = {} => Storing = {} /\ Named = {}
      BY DEF Launching, Storing, Named
    <3>. QED
      BY <2>2, <3>1, <3>4, <3>5 DEF IdsInv, IdsApart
  <2>4. CASE threads_running' # 0
    <3>1. UNCHANGED <<m_thread_counter, overlapped>>
      BY <1>2, <2>4 DEF JoinPop
    <3>. QED
      BY <2>1, <2>2, <3>1, IdsQuiet
  <2>. QED
    BY <2>3, <2>4
<1>3. CASE JoinThread(c)
  <2>1. PICK t \in joining[c].thread :
          /\ stage[t] = "ended" /\ stage' = [stage EXCEPT ![t] = "free"]
          /\ id' = [id EXCEPT ![t] = 0]
    BY <1>3 DEF JoinThread
  <2>2. t \in Threads
    BY <1>0, <2>1 DEF GroupTypeOK
  <2>3. /\ at[c] = "pthread_join"
        /\ at' = [at EXCEPT ![c] = "idle"] \/ at' = [at EXCEPT ![c] = "test"]
        /\ UNCHANGED <<m_thread_counter, overlapped, newid>>
    BY <1>3 DEF JoinThread, groupCounts
  <2>4. Storing' = Storing /\ Named' = Named
    BY <1>0, <2>3 DEF Storing, Named, GroupTypeOK
  <2>5. Running' = Running /\ \A u \in Running : id'[u] = id[u]
    BY <1>0, <2>1, <2>2 DEF Running, GroupTypeOK
  <2>. QED
    BY <2>3, <2>4, <2>5, IdsQuiet
<1>. QED
  BY <1>1, <1>2, <1>3 DEF JoinStep

LEMMA IdsInvariant ==
  ASSUME GroupIInv, IdsInv, [GroupNext]_groupVars
  PROVE  IdsInv'
<1>1. CASE UNCHANGED groupVars
  <2>1. UNCHANGED <<m_thread_counter, overlapped, stage, id, newid, Storing, Named, Running>>
    BY <1>1 DEF groupVars, groupCounts, threadState, groupLocals, Storing, Named, Running
  <2>. QED
    BY <2>1, IdsQuiet
<1>2. ASSUME NEW c \in Callers, TakeId(c) \/ CallJoin(c) \/ JoinStep(c) \/ GroupSpurious(c)
      PROVE  IdsInv'
  <2>1. AnyCpu \in Nat \cup {AnyCpu}
    OBVIOUS
  <2>. QED
    BY <1>2, <2>1, IdsLaunch, IdsJoin
<1>3. ASSUME NEW c \in Callers, NEW cpu_id \in AskedCpus \cup {AnyCpu}, LaunchStep(c, cpu_id)
      PROVE  IdsInv'
  BY <1>3, IdsLaunch, GroupAssumption
<1>4. ASSUME NEW t \in Threads, ThreadStep(t) PROVE IdsInv'
  <2>1. /\ Storing' = Storing /\ Named' = Named /\ Running' \subseteq Running
        /\ UNCHANGED <<m_thread_counter, overlapped, id, newid>>
    BY <1>4 DEF ThreadStep, ThreadFinish, ThreadEnd, Storing, Named, Running, GroupIInv,
       GroupTypeOK, groupCounts, groupLocals
  <2>. QED
    BY <2>1, IdsQuiet
<1>. QED
  BY <1>1, <1>2, <1>3, <1>4 DEF GroupNext

LEMMA IdsInit == GroupInit => IdsInv
BY DEF GroupInit, IdsInv, IdsApart, Storing, Named, Running

\* The invariant holds in every reachable state.
THEOREM GroupInvariance == GroupSpec => []GroupIInv
<1>. QED
  BY GroupInitInvariant, GroupStepInvariant, PTL DEF GroupSpec

\* The group's variables keep their types, the CPU of a thread is one of the
\* machine's, and whoever sleeps is in join().
THEOREM GroupTypeCorrect == GroupSpec => []GroupTypeOK
<1>1. GroupIInv => GroupTypeOK
  BY DEF GroupIInv
<1>. QED
  BY <1>1, GroupInvariance, PTL

\* threads_running counts the threads that launch() announced and join() has
\* not taken, at every moment and whatever the callers do together.
THEOREM RunningAlwaysCounted == GroupSpec => []RunningCounted
<1>1. GroupIInv => RunningCounted
  BY DEF GroupIInv
<1>. QED
  BY <1>1, GroupInvariance, PTL

\* What a caller or a thread of a group may do; with nothing changed in `at`
\* besides, as when the pool's own variables move.
GroupMove ==
  \/ UNCHANGED at
  \/ \E c \in Callers : TakeId(c) \/ CallJoin(c) \/ GroupSpurious(c) \/ JoinStep(c)
  \/ \E c \in Callers, cpu_id \in Nat \cup {AnyCpu} : LaunchStep(c, cpu_id)
  \/ \E t \in Threads : ThreadStep(t)

\* The test that lets a caller out of join() finds the count at zero, and the
\* count covers every function that runs.
LEMMA LeavingWaits ==
  ASSUME GroupIInv, GroupMove, NEW d \in Callers, at[d] = "test", at'[d] = "idle"
  PROVE  \A t \in Threads : stage[t] # "running"
<1>1. threads_running = 0
  <2>1. at \in [Callers -> {"idle", "store", "count", "create",
                            "test", "wait", "pthread_join"}]
    BY DEF GroupIInv, GroupTypeOK
  <2>2. ASSUME NEW c \in Callers, TakeId(c) \/ CallJoin(c) \/ GroupSpurious(c) PROVE FALSE
    BY <2>1, <2>2 DEF TakeId, CallJoin, GroupSpurious, groupLocals
  <2>3. ASSUME NEW c \in Callers, JoinStep(c) PROVE threads_running = 0
    BY <2>1, <2>3 DEF JoinStep, JoinReturn, JoinWait, JoinPop, JoinThread
  <2>4. ASSUME NEW c \in Callers, NEW cpu_id \in Nat \cup {AnyCpu}, LaunchStep(c, cpu_id)
        PROVE  FALSE
    BY <2>1, <2>4 DEF LaunchStep, StoreCounter, CountThread, CreateThread
  <2>5. ASSUME NEW t \in Threads, ThreadStep(t) PROVE FALSE
    BY <2>1, <2>5 DEF ThreadStep, ThreadFinish, ThreadEnd, groupLocals
  <2>. QED
    BY <2>2, <2>3, <2>4, <2>5 DEF GroupMove
<1>2. Len(joinqueue) \in Nat
  BY DEF GroupIInv, GroupTypeOK
<1>3. Cardinality(Running) = 0
  BY <1>1, <1>2, AllFinite DEF GroupIInv, RunningCounted
<1>4. Running = {}
  BY <1>3, AllFinite, FS_EmptySet
<1>. QED
  BY <1>4 DEF Running

\* A join() that returns without an exception leaves no function running,
\* however many others launch and join together with it.
THEOREM JoinAlwaysWaitsForAll == GroupSpec => JoinWaitsForAll
<1>. DEFINE Waits == \A c \in Callers : at[c] = "test" /\ at'[c] = "idle"
                       => \A t \in Threads : stage[t] # "running"
<1>1. GroupNext => GroupMove
  BY GroupAssumption DEF GroupNext, GroupMove
<1>2. GroupIInv /\ [GroupNext]_groupVars => [Waits]_groupVars
  BY <1>1, LeavingWaits
<1>. QED
  BY <1>2, GroupInvariance, PTL DEF GroupSpec, JoinWaitsForAll

\* The ids of the running threads of a group are distinct, for any number of
\* launches and joins, while no launch() meets another's increment or a reset.
THEOREM IdsAlwaysDistinct == GroupSpec => []IdsDistinct
<1>1. GroupInit => IdsInv
  BY IdsInit
<1>2. GroupIInv /\ IdsInv /\ [GroupNext]_groupVars => IdsInv'
  BY IdsInvariant
<1>3. IdsInv => IdsDistinct
  BY DEF IdsInv, IdsApart, IdsDistinct, Running
<1>. QED
  BY <1>1, <1>2, <1>3, GroupInvariance, PTL DEF GroupSpec
=============================================================================
