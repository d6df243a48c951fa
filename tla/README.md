# TLA+ verification of akl

This directory specifies and checks the synchronisation library in this
repository: `akl/` (the part that CMake builds: `atomic<T>`, the spin lock, the
mutex and the pthread shim) and `delete-me/` (the legacy library that is being
ported to it: readers/writer locks, a lock-free container, condition-variable
based barriers, semaphores, thread groups and thread pools). Each module is
translated from the source, not from the comments; the comments, assertions and
documents are where the promises come from.

## 1. The system

The library has no process of its own: its components are objects that the
threads of a program share, and every behaviour comes from how the threads'
calls interleave.

| component | state | operations | interacts with |
|---|---|---|---|
| `atomic<T>` (`akl/atomic.hpp`, `sync.c`, `kern_lib.c`, `float.h`, `double.h`) | one word | `inc`, `dec`, `inc_ret_last`, `dec_ret_last`, `exchange`, operators | counters of the queued lock, `lockfree_push_back`, `thread_group` |
| `spinrwlock2` | word `l`: wait bit, write bit, reader count | `writelock`, `wrunlock`, `readlock`, `rdunlock` | the `__sync` macros of `macro.hpp` |
| `queued_rw_lock` | `tail`, `reader_count`, `next_writer`; per request `next`, `successor_class`, `blocked` | the same four | `atomic`, `__sync` builtins; requests live on the callers' stacks |
| `deferred_rwlock` | list `head`..`tail`, `reader_count`, `writer` | `readlock`, `writelock`, both with priority, `rdunlock`, `wrunlock` | `simple_spinlock`; the unlocker gets the released requests |
| `spinrwlock` | three 8-bit tickets, `writing` | lock, unlock for either class, `unlock` that guesses the class | `macro.hpp` |
| `lockfree_push_back` | `idx`, reference count with a resize flag, container | `push_back`, `query`, `query_unsafe`, `size`, `set_size` | `atomic`, the container |
| `conditional`, `mutex`, `pthread.c` | a pthread object | wait, timed waits, signal, broadcast, lock, unlock | everything below |
| `semaphore` (Apple build) | value, number of waiters | `post`, `wait` | `mutex`, `conditional` |
| `cancellable_barrier` | `called`, generation flags, `alive` | `wait`, `cancel`, resize | `mutex`, `conditional` |
| `thread_group` | running count, join queue of (thread, error) | `launch`, `join` | `thread`, `mutex`, `conditional`, exceptions |
| `thread_pool` | queue of tasks, counters of tasks, workers | `launch`, `join`, `resize`, destruction | `thread_group`, blocking queue |
| object lifetime, kernel runtime, logging | table of 128 destructors | register, finalise | the C++ runtime |

What makes them hard: all threads write the same words with no lock around them
(the spin locks, the atomics, the container), a step is taken on the strength of
something read several steps before (compare-and-swap on a stale copy, a
decrement whose result is used later), a thread is let in by another one that
follows a link a third one is still writing (queued lock), one unlock lets in
whole lists (deferred lock), and wakeups can be missed (everything over
condition variables). What makes them correct:

* atomics: each call takes effect at one instant, with the effect and the result
  that its name says; the loops are lock-free;
* readers/writer locks: a writer is alone; the words and counters say exactly who
  is inside; nobody waits for a lock that is free; where the lock is fair, order
  and no starvation;
* container: no element that was pushed is lost in a resize, and no access is beyond its end;
* condition variables: no lost wakeup; every join, wait and barrier returns once
  its condition holds; errors of threads are delivered once.

`PROJECT.json` lists each component with its status, and the hazards by source line.

## 2. Modules

| module | models | role |
|---|---|---|
| `ReadersWriter` | | what any readers/writer lock promises: who is inside |
| `SpinRWLock2` | `delete-me/spinrwlock2.hpp`, `macro.hpp` | one step per load of `l` and per `__sync` operation |
| `SpinRWLock2Proofs` | | theorems about it |
| `QueuedRWLock` | `delete-me/queued_rw_lock.hpp` | one step per access to a word that others write |
| `DeferredRWLock` | `delete-me/deferred_rwlock.hpp` | one step per operation (they run under a spin lock) |
| `SpinRWLock` | `delete-me/spinrwlock.hpp` | one step per access to a byte of the word or to `writing` |
| `LockfreePushBack` | `delete-me/lockfree_push_back.hpp` | one step per access to the counters, the mutex, the container |
| `AtomicCell` | promises of `akl/atomic.hpp` | call, effect at one instant, return; `ReturnsNew` says which methods return the new value |
| `Atomics` | `akl/atomic.hpp`, `sync.c`, `float.h`, `double.h` | one step per machine operation |
| `AtomicsProofs` | | theorems about it |
| `Conditional` | `delete-me/conditional.hpp` | what signal and broadcast do to the set of sleepers |
| `Semaphore` | `delete-me/semaphore.hpp`, the build over a condition variable | one step per critical section |
| `CancellableBarrier` | `delete-me/cancellable_barrier.hpp` | `wait` in five steps, `cancel` in two, with the mutex |
| `ThreadGroup` | `delete-me/thread_group.hpp`, `thread.hpp` | one step per critical section, and per access outside of them |
| `TaskPool` | comments of `delete-me/thread_pool.hpp` | what a pool promises, in terms of tasks |
| `ThreadPool` | `delete-me/thread_pool.hpp` | on top of `ThreadGroup`, whose actions its workers and its owner take |
| `QueuedRWLockProofs`, `DeferredRWLockProofs`, `SpinRWLockProofs`, `LockfreePushBackProofs`, `ThreadPoolProofs` | | theorems about these modules; the last also about `MCThreads` |
| `ConditionalProofs` | | theorems about `Semaphore`, `CancellableBarrier` and `ThreadGroup` |
| `MC...` | | the instances that TLC checks |

### SpinRWLock2
`l` is the member `l`; `state[t]` is the local copy in `writelock`; `rwPc[t]` says
which access comes next. `WriteLoad` is line 26 with the test of line 29,
`WriteCas` the `cmpxchg` of line 30, `WriteReload` and `WriteMark` lines 33-39,
`WriteRelax` the wait of line 42, `ReadRelax`/`ReadAdd`/`ReadUndo` lines 53-62.
A spin is a step that is only enabled once the condition to leave it holds. The
word is unsigned and wraps at `WordSize`; it has to have room for all threads as
readers (`ThreadsFitWord`), which a 32-bit word has for up to 2^30 - 1 threads.
Names that other one-word classes have too carry the prefix `Rw` (`RwInit`, `rwPc`), so
that one run can check the classes together; those of `Atomics` carry `Atomic`.

### QueuedRWLock
The members of a request are functions over threads, since a thread has one
request at a time. A step is one access to shared memory; a read of a field that
can no longer change goes with the step that follows. The fences of the code
(`__sync_synchronize`) are taken at their word: memory is sequentially consistent.
The user build cannot compile `atomic<size_t>` (a `static_assert` admits only
the listed integer types), so `reader_count` has the semantics of the
documented `inc()` and `dec()`. `assert` is compiled out and the property
`AssertHolds` states it. `Padding` holds the values that the byte of the compared
word which `readlock` leaves uninitialised (line 91) may have. When it is not what the
predecessor's request holds, the compare-and-swap fails behind a reader that
still waits, and the new one goes in ahead of it. `waiting`, `late` and `garbled` are history variables
that no guard reads; `garbled` remembers that this has happened.

### DeferredRWLock
Each operation holds `simple_spinlock` from its first to its last access, so it
is one step, with everything it calls (`insert_queue`, `complete_rdlock`,
`complete_wrlock`). The list reachable from `head` is the sequence `queue`;
`tail` is separate because the code lets the two disagree. A request outside the
list needs no `next` of its own: a request gets its `next` written before the
list can reach it again. `Without(s, S)` is what a walk that unlinks the requests
of `S` leaves of `s`; it is stated position by position (`Nth`), which the prover
can use where `SelectSeq` has no facts. A NULL dereference ends the program: `crashed`.

### Atomics
`type` and `build` are chosen once. The int methods and the kernel's `exchange`
are one operation (`Apply`); the others are `Load` and `CompareAndSwap` until it
succeeds. The data is the bits of the word: the code adds float bits as integers
(`float.h` says "I DONT KNOW HOW"), so `AddBits` is addition modulo the word.
`IsAtomic` is `AtomicCell` with the results that the methods' names say: `inc` and `dec`
return the new value, the `..._ret_last` methods the old one. The comments agree but for
`dec_ret_last(val)`, of which they say "returning the new value" (atomic.hpp:107, 206, 321,
442). `IsAsCommented` is `AtomicCell` with the results of the comments.

### SpinRWLock
`write`, `read`, `users` are the bytes of `l.s`; `val[t]` is the ticket and
`copy[t]` what was loaded before a plain store (`l.s.read++` of line 68 and
lines 53-58). `CallUnlock` is the holder's choice between the unlock of its class
and `unlock()`, `Guess` the test of line 76. `writing` starts with any value: the
constructor leaves it uninitialised. The steps are in source order. `line`, `late`
and `mistaken` are history variables. A wrong guess moves `read` when it should
not, or leaves it when it should not, after which nothing is promised; the
model ends a behaviour there. `ThreadsFitTickets`: fewer threads than tickets.

### LockfreePushBack
`reference_count` is split into the count `refs` and the flag `flag` (its bit
`MAX_REF`). `PushBackAssumption` has fewer threads than `MAX_REF`, 65536 in the code: with
that many references at once the count would carry into the flag. `TypeOK` says that it
does not with fewer. A push goes `RefLoad`,
`RefCas`, `PushSize`, then writes element by element and drops the reference, or
drops it and tries the mutex; the winner raises the flag, waits, resizes
(`ResizeCopy`, `ResizeInstall`: external container, a write between the two is
lost), writes and lowers the flag. The push of one element does the steps of the
push of a range of one. A push of an empty range draws no position, but takes its reference
and may resize (the container is as large as its end then). `pushed` remembers what was written. `SetSize` is
`set_size`, called while nobody is inside, and `size()` reads `idx` as a query does.

### Conditional, Semaphore, CancellableBarrier
A condition variable is the set of threads that sleep in `wait`. A signal takes
one of them out of it, or nobody when it is empty; a sleeper may leave it without
a signal. `mutex` is taken for what it promises, so a critical section is one step
as long as nobody touches its variables outside. That is so in the semaphore:
`Post` is `post`, `Take` and `Sleep` are `wait` by a thread that finds a value or
none, `TakeLate` and `SleepAgain` what it does when it wakes.

It is not so in the barrier, whose `cancel` (lines 66-67) takes no mutex: there the
mutex is modelled, and the look at `alive` (`StayIn`) and the sleep (`FallAsleep`)
are two steps. `cancel` may be called as often as one likes, also while another one is
under way: all that a second call changes is that it wakes the sleepers again. `Arrive` and `Fall` are the first part of `wait` for a thread that
is not the last, and for the last.

### ThreadGroup
A thread is `free`, `running`, `exiting` once it is in `joinqueue`, `ended`. `launch`
is `TakeId` and `StoreCounter` (the increment of `m_thread_counter`, line 92,
outside the mutex), `CountThread` and `CreateThread`, which includes
`thread::launch` and the start of `invoke`. `ThreadFinish` is the end of `invoke`
with the exception, if any; `JoinReturn`, `JoinWait`, `JoinPop` and `JoinThread` are
the parts of `join`. When `pthread_create` fails the process exits, which is
left out.

### ThreadPool
`ThreadPool` EXTENDS `ThreadGroup`: the owner's `Spawn` does the steps of
`thread_group::launch` worker by worker, `resize`, `set_cpu_affinity` and the
destructor call `join` of the group, and a worker that quits finishes as a
thread of it. `TakeTask`, `TaskReturns` or `TaskThrows`, and `CountTask` are the loop of
`wait_for_task`. `CallPoolJoin`, `WaitUntilEmpty`, `JoinSleep`, `JoinThrow` and
`JoinDone` are `join`. `blocking_queue` is not in the repository. It is taken for a
FIFO queue: `dequeue` blocks while it is empty and may return nothing once the
queue was stopped, whether or not tasks are left; `wait_until_empty` returns
when it is empty or stopped. One caller owns the pool, the others launch and
join. The workers forward every exception that the code can throw
(`const char*`), so the handlers for what "should not be possible" are left out.

The observers' variables that no guard reads name the cases a property excuses:
`shared` and `together` (two joins at once), `overlapped` (two unlocked increments
at once, or one beside the reset), `raced` (a `cancel` between look and sleep, or a
waiter that a whole generation passed by), `renamed` (a worker that kept a virtual id).

## 3. Runs

Sizes are distinct states with the shipped configuration.

| run | bounds | properties | shows |
|---|---|---|---|
| `words` (298,530) | see below | of `spinrwlock2`: `RwTypeOK`, `WordExact`, `WaitBitOwned`, `IsReadersWriterLock`, `WaitBitServed`, `ReadersNotStuck`; of `spinrwlock`: `TypeOK`, `ExclusiveUnlessMistaken`, `TicketsExact`, `GuessesRightUnlessLate`, `InTicketOrder`, `NoStarvation`; of `atomic<T>`: `IsAtomic`, `SomeCallFinishes` | the word of `spinrwlock2` is exact at every moment, it is a readers/writer lock, its wait bit is owned and served; the tickets are exact through their wraps, the ticket lock is fair, `unlock()` guesses wrong only when `writing` was uninitialised or cleared late; atomics are linearizable and lock-free in both builds and all three types, `inc` of a double apart |
| `queued_rw_lock` (131,340) | 3 threads, padding 0 or 1 | `TypeOK`, `CountExact`, `ExclusiveUnlessLateOrGarbled`, `GrantedInOrder`, `EveryCallReturns` | the count is always exact; exclusion is lost in two ways only, an overtaken last reader and a garbled compare-and-swap; until the latter, the lock is fair and every call returns |
| `queued_rw_lock_assert` | 3 threads, padding 0 | `AssertHolds` | the first way exists: the assertion of `writelock` fails |
| `queued_rw_lock_order` | 3 threads, padding 0 or 1 | `FairOrder` | the second way exists: a reader goes in ahead of one that came before it |
| `deferred_rwlock` (9,648) | 4 threads | `TypeOK`, `HoldersExact`, `QueueIsServed`, `IsReadersWriterLock` | counters and queue are right until the crash |
| `deferred_rwlock_walk` | 4 threads | `WalkIsSafe` | `complete_rdlock` dereferences NULL |
| `deferred_rwlock_lost` | 4 threads | `NoRequestLost` | a request is appended behind a released one and lost |
| `atomics_double_inc` | 1 thread, `inc` of a double | `IsAsCommented` | `inc` of a double subtracts |
| `atomics_dec_ret_last` | 1 thread, `dec_ret_last` | `IsAsCommented` | it returns the old value, its comment says the new one |
| `lockfree_push_back` (468,278) | 3 threads, 3 positions, container of 1, 1 query or empty push | `TypeOK`, `ResizerIsAlone`, `RefsExact`, `WritesInBounds`, `NothingLost`, `EveryCallReturns` | resizes are exclusive, lose nothing, and block nobody for ever |
| `lockfree_push_back_query` | same | `QueriesInBounds` | `query` reads beyond the container |
| `threads` (215,430) | see below | `TypeOK`, `NoPostLost`, `NobodyPassesEarly`, `WaitersReleased`, `GroupIdsDistinct`, `JoinWaitsForAll`, `JoinersGetOut`, `WorkersAsConfigured`, `PoolCallsEnd`, `IsTaskPool` | no post is lost; nobody passes the barrier early, and whoever is not hit by a `cancel` between look and sleep gets out; `join` of a group waits for every thread, and ends unless a second `join` runs beside it; a pool that is joined, resized, rebound and destroyed runs every task at most once, reports each failure at most once, and its `join` waits for all tasks (section 5 lists what these properties excuse) |

Why the bounds are enough. Three threads are a holder, one that waits and one
that overtakes, which is what every scenario of the spin locks needs: a reader
inside, a writer whose wait bit is cleared by another writer's `cmpxchg`, an
undoing reader. Threads lock again without limit, so re-use of stale copies and
requests is included. The queued lock's overtaking needs the late reader, the new
reader and the writer. The deferred lock has four threads for a queue that holds
readers before and after a writer while another holds the lock (5 threads, 152k
states, gave the same verdicts).

`words` checks three classes that share no state, so one of them moves in a behaviour
(`part`): `spinrwlock2` with 3 threads and a word of 4 bits, `spinrwlock` with 4 threads and
5 tickets, `atomic<T>` with 2 threads, a word of 2 bits and the arguments 1 and 3. These
are each other's negatives, so that a word returns to an earlier value (ABA) within a window.
The ticket lock has one ticket more than threads, the fewest that its assumption
allows: each ticket comes around while earlier holders are still on their way out (3 threads
and 4 tickets also pass). The pushes of one and two elements make ranges that fit
with their first element only, resizes that serve a later push as well, and a
push that finds the container large enough once it has the mutex (4 positions and
an empty container, 1.7 million states, also pass). `MaxIdx` and `MaxQueries`
bound the calls (`set_size` and a push of nothing count as queries) and nothing else.

`threads` checks four parts that share no state, so one of them moves in a
behaviour (`part`). The semaphore has three threads and at most two values: two
sleepers and a third thread that takes the value a woken one was on its way to.
The barrier is for two or three of three threads; with two, the third opens the
next generation while a waiter of the last one is still on its way out. The group
has two callers, two threads that are created again and again, and `MaxCounter` 3
ids. The pool has one caller besides its owner, two tasks of which each may throw
and may ask for the virtual id 7 (no worker's own id), one or two workers, and
one `resize` or `set_cpu_affinity`, after which it can be destroyed and constructed
again. Pools are constructed without affinity, and get it by `set_cpu_affinity`;
`AskedCpus` is empty, since the pool already binds its workers to CPUs.

Deadlock is checked in all runs but those in which a behaviour may really end: the deferred
lock, where a crash ends the program; the container, where the calls are bounded; and the
queued lock, which threads may wait for without end after a garbled compare-and-swap (that
they do not before is `EveryCallReturns`). The two runs of `MCAtomics` show a
single wrong result and do not check it either. In `words`, the ticket lock's
behaviours end with a wrong guess: the step `Stop` stands for that, and deadlock is checked.

Fairness. `WF` on the steps inside the lock or the atomic: a thread that runs is
scheduled again. Nothing is assumed of `Call`: no thread has to use the object. A
holder unlocks in the end, which is part of a lock's contract. `FairMoves` of `MCWords` says so
of each thread in whichever class moves.
`SomeCallFinishes` does not promise that each call finishes, and
`WaitBitServed` not that each writer gets in: a writer whose wait bit was cleared
by another one spins on `l > RW_WAIT` (spinrwlock2.hpp:42) and alternating readers
may keep it there. No document of the library promises more.
In `threads`, a caller that is inside an operation and a thread that was created
go on (`WF` on `CallerStep` and on each thread's steps), so a task returns in the
end. Nobody has to call anything. In the barrier, where the mutex is modelled,
the threads get it by strong fairness: a mutex that is free again and again is
got in the end. The properties have the form `[]<>` because the callers come back.

## 4. Proofs

`AtomicsProofs` proves `Refinement`, for every modulus, any threads and any arguments:
unless `inc` of a double is in use, `AtomicSpec => IsAtomic`. It assumes
`AtomicsAssumption`. Its `IInv` adds to the types
where a call can be: a result exists exactly at the return, and only methods
that are one operation reach `apply`. The step that settles a call is the
instant at which it takes effect: at a successful compare-and-swap the word is
what the load saw, so the new value is right for the word as it is now, whatever
came in between (ABA included). `WrapOnce` and `WordClosed` are the arithmetic
that lets the kernel build undo its operation.

`SpinRWLock2Proofs` proves, for every finite set of threads and every word with
room for them:

* `TypeCorrect`, `WordAlwaysExact`, `AlwaysExclusive`: `RwSpec => []...`;
* `WaitBitAlwaysOwned`: a wait bit never outlives its writers;
* `Refinement`: `RwSpec => IsReadersWriterLock`.

Assumed is only `ThreadsFitWord`. Exclusion alone is not inductive: that a
`cmpxchg` succeeds says something about the word, so the word has to say who is
inside. `IInv` is therefore `RwTypeOK /\ WordExact /\ Exclusive /\ CopyIsFree`;
`CopyIsFree` says that a copy about to be compared was below `RW_WRITE`. The
argument: exactness turns "the word equals a free copy" into "nobody is inside"
(`FreeWord`) and "no flag in the word" into "no writer is inside"
(`NoWriterWord`); the room of the word rules a wrap out (`WordRoom`), so every
addition changes count and word alike; adding 4 or 2 leaves the wait bit alone
(`WaitSetKept`). The wait bit needs no further strengthening: only a waiting
writer sets it and only the step that takes the lock clears it.

`SpinRWLockProofs` proves, for every finite set of threads and any number of
tickets above theirs (`ThreadsFitTickets`), `TicketsAlwaysExact`, `AlwaysExclusive` and
`GuessesAlwaysRightUnlessLate`. The tickets wrap, so the argument goes by distance:
`Dist(a, b)` is how far `a` is ahead of `b`, less than `Tickets`. `IInv` says, until a guess is
wrong (`Good`), that the bytes count the threads of each kind (`Counts`), that the
tickets of those who wait are distinct and behind everybody inside (`InLine`), that
a copy about to be stored has the right value (`CopiesRight`: nobody else moves that
byte in between), and that `writing` is true exactly while a writer is on its way
from its set to its clear (`FlagRight`). A thread passes when the distance of its
ticket is zero, and by `InLine` nobody is inside then who should not be.

The order of the line needs one more invariant (`OrderInv`): `line` lists the threads
that spin, each once, and the i-th of them is as far ahead of `write` as there are
threads inside, plus i - 1. So whoever passes, with distance zero, is the first of
the line: `TicketOrderKept` is `Spec => InTicketOrder`, and `TypeCorrect` includes
`line`.

`LockfreePushBackProofs` proves `TypeCorrect`, `ResizerAlwaysAlone`, `RefsAlwaysExact`,
`WritesAlwaysInBounds` and `NothingEverLost` for any lengths of pushes, initial size and
scale, and any finite set of fewer threads than `MAX_REF`, with or without bounds that are reached
(`PushBackAssumption`). What the run's invariants lack to be inductive is that the
mutex has one holder (`MutexHeld`) and that the copy a resizer made is still the container's
contents when it is installed (`CopyIsTrue`). The last follows from `ResizerIsAlone`: a
write needs a reference, and none is given while the flag is up.

`QueuedRWLockProofs` proves, for any finite set of threads and any `Padding`,
`WritersExclude` (`Spec => []ExclusiveUnlessLateOrGarbled`) and `OrderKept` (`Spec => GrantedInOrder`),
and, until `garbled`, `TypeCorrect` and `CountAlwaysExact`. None of the properties is
inductive, since each step trusts a link or a flag that another thread left. What every
step keeps is `garbled \/ IInv`: a garbled compare-and-swap sends a thread in while its
predecessor waits, and nothing is claimed from there on (`GarbledStep`). `IInv`
is `Shape /\ CountExact /\ NoReaders`, and `Shape` describes the whole queue:

* `LineOK`: `waiting` lists the blocked threads, each once. `Ahead(p, h)`: the request of
  `h` comes next behind that of `p` - in `waiting`, or `h` is its head and `p` the last
  thread that was let in. `LinkedOK` says what `h` has told `p` so far (its class, then
  its link), `LinkingOK` that a thread that is still linking itself knows its predecessor,
  `TailOK` that `tail` is the end of the chain.
* `OneTurn`: at most one thread has the turn to let in the head of the queue. There are
  five ways to have it (`HasTurn`): being the last one in with nobody behind that was let
  in too, being the head that found the queue empty or a reader inside, standing in
  `next_writer`, or having taken a writer from there. `FrontOK` says that each of them points at the head.
  Every handing over in the code (a link followed, an offer made, taken or
  taken back) gives the turn away in the step in which somebody else gets it.

`ShapeStep` shows that each step keeps `Shape` and changes `waiting` only by appending the caller
or by removing its head, which is the order. `CountStep` compares `reader_count` with the set
`Counted`; that no two threads pass the lock on at once comes from `OneTurn`.
`NoReaders` is what exclusion needs: whoever is a writer inside, or is about to let
one in, sees a count of zero, unless it is a leaving writer that has counted its
successor, or unless some reader was `late`. `Shape` and `CountExact` do not depend on
`late`: the lost exclusion breaks neither the queue nor the count.

`DeferredRWLockProofs` proves, for any finite set of threads, `TypeCorrect`,
`HoldersAlwaysExact`, `QueueAlwaysServed` and `DeferredRefines` (`Spec => IsReadersWriterLock`),
up to the crash. The properties are inductive together with `OneWriter`. The work is in
`complete_rdlock`, which grants readers in three ways and leaves `tail` behind: the number that
it adds to `reader_count` has to be the number of threads whose status changes, although
the list may have been cut before. `NthProperties` and the lemmas about `Without`
(what it keeps, in which order, without repeats) carry that.

`ConditionalProofs` has the classes over a condition variable. `SemTypeCorrect` and
`PostsNeverLost` hold for any finite set of threads and any bound; `NoPostLost` with the types is
inductive because it says that the count `post` signals by is exact. `BarTypeCorrect`
and `NobodyEverPassesEarly` hold for any finite set of threads and any sizes.
`NobodyPassesEarly` needs `FlagsOpposite`: outside `Fall`, `barrier_release` differs from
`barrier_sense`, so a thread that comes listens on a value that is not released yet.
`GroupTypeCorrect`, `RunningAlwaysCounted` and `JoinAlwaysWaitsForAll`, the action property
of the run, hold for any callers, threads and CPUs (`GroupAssumption`). `threads_running`
is compared with the threads that are about to be created, that run, or whose entry is
in `joinqueue` (`RunningCounted`); `SlotsKept` says that a launch finds the free thread it was
admitted for, and `IdsBounded` keeps the ids within the types although increments
overlap. `IdsAlwaysDistinct` adds that every id in use, given or about to be stored is
below the counter while nothing overlapped (`IdsApart`).

`ThreadPoolProofs` proves `PoolTypeCorrect`, `WorkersAlwaysAsConfigured` and `PoolRefines`
(`PoolSpec => IsTaskPool`), for any numbers of callers, workers and tasks
(`PoolAssumption`, `GroupAssumption`). The invariant has two halves. The tasks: what was launched is
queued, held by a worker or counted, at one place only, and an exception is queued
once, by a task that threw (`TasksCounted`, `TasksApart`, `ReportsApart`); so a join that
finds the queue empty and the counters equal finds every task finished. The owner: where
it is in `resize`, `set_cpu_affinity` or the destructor says which workers there are and
which ids they have (`OwnerCourse`, `Configured`), on top of the group's own invariant. In
the refinement every step is one of `TaskPool`'s or a stutter (`PoolStepInvariant`). The last part
is about `MCThreads`, where the four parts stand side by side: `ThreadsInvariance` puts their
invariants together, and from it follow all safety properties of the run `threads`
(`ThreadsTypeCorrect`, `ThreadsLoseNoPost`, `ThreadsPassNoneEarly`, `GroupIdsAlwaysDistinct`,
`ThreadsWorkersAsConfigured`, `ThreadsJoinWaits`, `ThreadsRefine`) for the specification that the run
checks. `JoinWaitsForAll` holds under a pool too, since every step of a pool moves its group
as a caller or a thread may (`PoolMovesGroup`).

## 5. Findings and limits

Findings (each is the counterexample of a run):

* `queued_rw_lock.hpp:133` - the last reader decrements the count to zero and
  swaps `next_writer` later; in between a reader and a writer may come, and the
  writer is let in beside the reader. The assertion at line 62 fails.
* `deferred_rwlock.hpp:122` - NULL dereference when the writer list ends in its
  first writer, or when `tail` lies outside the list.
* `deferred_rwlock.hpp:129` - `tail` is left on a released reader; the next
  request is appended to it and is never granted.
* `queued_rw_lock.hpp:91` - `tempold` and `tempnew` get their two members, three of the four
  bytes that the compare-and-swap of line 98 compares. If the fourth differs from the
  predecessor's, the swap fails behind a reader that waits for a writer, and a second reader
  enters ahead of it, beside that writer. `WritersExclude`
  and `OrderKept` say that order and exclusion hold until then, for every `Padding`.
* `atomic.hpp:385` - `inc` of a double subtracts.
* `atomic.hpp:208` - `dec_ret_last(val)` returns the old value, its comment (line 206, and lines 107,
  321 and 442 for the other types) promises the new one.
* `lockfree_push_back.hpp:128` - `query` uses a position below `idx` that the
  container does not have yet.

Not a run of its own: `spinrwlock::unlock` takes the wrong branch after a late
`writing = false` (spinrwlock.hpp:59) or an uninitialised flag; states with
`mistaken` are reachable in the run `words`, and `GuessesRightUnlessLate`
says that these are the only two ways. With as many threads as there are tickets (257, for
tickets of 8 bits) two would hold the same ticket; `ThreadsFitTickets` leaves that out.

Every invariant, action property and refinement of the passing runs is a theorem, but `TypeOK`
and `CountExact` of the queued lock are proved until `garbled` only; that they hold
after it too is model-checked.
Only model-checked: the liveness properties (`WaitBitServed`, `ReadersNotStuck`,
`NoStarvation`, `SomeCallFinishes`, `EveryCallReturns` of both modules that have it, `WaitersReleased`,
`JoinersGetOut`, `PoolCallsEnd`), which are out of the prover's reach: they need fairness and
`ENABLED`. A push that competes with queries without end may fail its
compare-and-swap for ever: `EveryCallReturns` of the container is about finitely many calls.
`IsAtomic` is proved without `inc` of a double, as the run `words` takes it.

What the properties of the thread layer excuse is what the code does in these cases:

* thread_group.hpp:119 - of two joins at once, the second may sleep for ever, since
  the inner loop looks only at `joinqueue`; `JoinersGetOut` excuses `shared`.
* thread_group.hpp:92 - launches that overlap may give two threads one id.
* thread_pool.hpp:264 - one condition variable and one flag serve all joiners, so one of
  two may sleep for ever; `PoolCallsEnd` excuses `together`.
* thread_pool.hpp:248 - a worker whose task threw under a virtual id keeps that id.
* cancellable_barrier.hpp:66 - a `cancel` between a waiter's look at `alive` and its sleep
  does not wake it; `WaitersReleased` excuses `raced`.
* A pool that is destroyed drops the exceptions that no join has thrown.

Assumed of users: one caller owns a pool; `resize_unsafe` and `set_size` are called
while nobody is inside; pools and barriers have at least one thread (`resize(0)`
leaves the tasks waiting). `mutex.hpp` is missing in `delete-me/`, so the mutex is what its
users take it for. The binding to a CPU exists in builds with `HAS_SET_AFFINITY`;
`cpu` is what is asked for.

Not modelled: weak memory orders; the IEEE meaning of float bits (`float.h:8`); the timed waits of `conditional`, whose time
arithmetic (lines 83-108) nothing in the repository calls; a thread that is joined
without a group, and its local data; and the components that `PROJECT.json` lists as
`not_modelled` with the reason: wrappers of pthread objects, allocation, printing,
layout. `pthread.c` passes the address of its parameter to pthread (lines 33-53),
which is wrong with a single thread and needs no state space.

## 6. Plan

What is left, in the order of importance:

1. `late` of the queued lock, sharper: that the writer which a late reader lets in is the only
   thread that is not excluded, and that the lock recovers.
2. `TypeOK` and `CountExact` of the queued lock after a garbled compare-and-swap, which TLC finds
   kept. The proof needs a weaker `Shape` that speaks of links instead of the order: a linked
   predecessor is in the queue and has no other successor, whoever is about to pass the lock to
   a thread finds it blocked, and each writer that is offered is offered at one place.
3. Object lifetime (the table of 128 destructors), if it is worth a run.
