----------------------------- MODULE MCThreads -----------------------------
(* The parts of the thread layer that are no locks, each on a small instance *)
(* of its own: the semaphore, the barrier, a thread group by itself, and a   *)
(* thread pool with the group of its workers.  They share no state, so one   *)
(* of them moves in a behaviour and the others stay as they are.             *)
(*                                                                           *)
(* Three threads post and wait with at most two values.  Three threads use a *)
(* barrier for two or three of them.  Two callers launch and join at most    *)
(* two threads at a time.  An owner and another caller launch two tasks into *)
(* pools of one and two workers, join them, and resize or rebind each once.  *)
EXTENDS ThreadPool, Semaphore, CancellableBarrier

VARIABLE part   \* the part that moves

pool    == <<groupVars, poolVars>>
allVars == <<part, semVars, barVars, groupVars, poolVars>>

Init ==
  /\ part \in {"semaphore", "barrier", "group", "pool"}
  /\ SemInit
  /\ BarInit
  /\ part # "barrier" => needed = 2
  /\ PoolInit

InSemaphore(A) == part = "semaphore" /\ A /\ UNCHANGED <<part, barVars, pool>>
InBarrier(A) == part = "barrier" /\ A /\ UNCHANGED <<part, semVars, pool>>
InGroup(A) == part = "group" /\ A /\ UNCHANGED <<part, semVars, barVars, poolVars>>
InPool(A) == part = "pool" /\ A /\ UNCHANGED <<part, semVars, barVars>>

Next ==
  \/ InSemaphore(SemNext)
  \/ InBarrier(BarNext)
  \/ InGroup(GroupNext)
  \/ InPool(PoolNext)

Spec == Init /\ [][Next]_allVars

(* What a caller goes on to do by itself. *)
CallerStep(c) ==
  \/ InGroup(JoinStep(c) \/ \E k \in AskedCpus \cup {AnyCpu} : LaunchStep(c, k))
  \/ InPool(PoolJoinStep(c) \/ (c = Owner /\ OwnerStep))

(* A thread that can go on does: through wait() and cancel() of the barrier,  *)
(* through launch() and join() of a group and the functions it runs, through  *)
(* the operations of a pool and its tasks.  A mutex that is free again and    *)
(* again is got in the end, which is strong fairness where the mutex is       *)
(* modelled.  Nobody has to call an operation.                                *)
FairSpec ==
  /\ Spec
  /\ WF_allVars(InBarrier(~cancelled /\ CancelBroadcast))
  /\ \A t \in BarThreads : SF_allVars(InBarrier(BarProgress(t)))
  /\ \A c \in Callers : WF_allVars(CallerStep(c))
  /\ \A t \in Threads :
       WF_allVars(InGroup(ThreadStep(t)) \/ InPool(WorkerStep(t)))

(* The type invariants of the four modules. *)
TypeOK == SemTypeOK /\ BarTypeOK /\ GroupTypeOK /\ PoolTypeOK

(* In a pool tasks may ask for the same virtual id, so this is about a group *)
(* by itself.                                                                *)
GroupIdsDistinct == part = "group" => IdsDistinct
=============================================================================
