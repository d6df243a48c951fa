------------------------------ MODULE TaskPool ------------------------------
(***************************************************************************)
(* What thread_pool promises its callers, in terms of tasks only: a task   *)
(* that was launched runs once, join() returns when every task has run or  *)
(* hands out the exception of one that failed, and the pool is destroyed   *)
(* when every task has run.  Workers, queues and counters do not appear;   *)
(* a change of the pool's size or affinity is no step at all.              *)
(***************************************************************************)
EXTENDS Naturals

CONSTANTS Clients, MaxTasks

VARIABLES task,         \* task[k]: the life of the k-th task
          unreported,   \* the tasks whose exceptions join() has not thrown
          inJoin        \* the clients that are in join()

poolPromise == <<task, unreported, inJoin>>

Tasks == 1 .. MaxTasks
AllDone == \A k \in Tasks : task[k] \in {"new", "done"}

Init ==
  /\ task = [k \in Tasks |-> "new"]
  /\ unreported = {}
  /\ inJoin = {}

\* The k-th task goes from one stage of its life to the next.
Move(k, from, to) ==
  /\ task[k] = from
  /\ task' = [task EXCEPT ![k] = to]
  /\ UNCHANGED inJoin

Launch(k) == Move(k, "new", "queued") /\ UNCHANGED unreported
Start(k)  == Move(k, "queued", "running") /\ UNCHANGED unreported
Fail(k)   == Move(k, "running", "failed") /\ unreported' = unreported \cup {k}
Finish(k) ==
  (Move(k, "running", "done") \/ Move(k, "failed", "done")) /\ UNCHANGED unreported

CallJoin(c) == inJoin' = inJoin \cup {c} /\ UNCHANGED <<task, unreported>>

Return(c) ==
  /\ c \in inJoin
  /\ AllDone
  /\ unreported = {}
  /\ inJoin' = inJoin \ {c}
  /\ UNCHANGED <<task, unreported>>

Throw(c) ==
  /\ c \in inJoin
  /\ \E k \in unreported : unreported' = unreported \ {k}
  /\ inJoin' = inJoin \ {c}
  /\ UNCHANGED task

\* The pool is destroyed and a new one constructed.
Renew ==
  /\ AllDone
  /\ inJoin = {}
  /\ task' = [k \in Tasks |-> "new"]
  /\ unreported' = {}
  /\ UNCHANGED inJoin

Next ==
  \/ \E k \in Tasks : Launch(k) \/ Start(k) \/ Fail(k) \/ Finish(k)
  \/ \E c \in Clients : CallJoin(c) \/ Return(c) \/ Throw(c)
  \/ Renew

Spec == Init /\ [][Next]_poolPromise
=============================================================================
