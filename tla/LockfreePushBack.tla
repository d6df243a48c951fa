-------------------------- MODULE LockfreePushBack --------------------------
(***************************************************************************)
(* lockfree_push_back (delete-me/lockfree_push_back.hpp): threads append   *)
(* to a container that has to be resized now and then.  A push draws its   *)
(* positions from idx, and writes them while it holds a reference.  When   *)
(* the container is too small, the push that gets the mutex raises a flag  *)
(* that lets no new reference in, waits until the others are gone, and     *)
(* resizes.  reference_count holds both: refs is its value below the bit    *)
(* MAX_REF, flag that bit.  With fewer threads than MAX_REF the count does *)
(* not carry into the bit; with more of them it would.                     *)
(*                                                                         *)
(* push_back of one element does the same steps as push_back of a range of *)
(* one.  The container is given by what its operations are used for: its   *)
(* size, its elements, and a resize that copies them and then puts the     *)
(* copy in their place, two steps between which a write would be lost.     *)
(***************************************************************************)
EXTENDS Integers, FiniteSets

CONSTANTS Threads,      \* the threads that push and query
          NULL,         \* no thread, and an element that nobody wrote
          Lengths,      \* the lengths of the ranges that are pushed
          InitialSize,  \* the size of the container at the start
          Scale,        \* scalefactor
          MAX_REF,      \* 65536 in the code: more threads than a process has
          MaxIdx,       \* bound: how many positions are drawn in all
          MaxQueries    \* bound: how many queries, set_size and pushes of
                        \* nothing there are in all

ASSUME PushBackAssumption ==
  /\ NULL \notin Threads
  /\ IsFiniteSet(Threads)
  /\ MAX_REF \in Nat /\ Cardinality(Threads) < MAX_REF
  /\ Lengths \subseteq Nat
  /\ InitialSize \in 0 .. MaxIdx
  /\ Scale \in Nat \ {0}
  /\ MaxIdx \in Nat
  /\ MaxQueries \in Nat

VARIABLES refs, flag,       \* reference_count without and with the bit MAX_REF
          idx,              \* cur.idx
          size, container,  \* container.size() and its elements
          mut,              \* the thread that holds mut, or NULL
          resized,          \* the copy that a resize under way has made
          pc,               \* pc[t]: the step t takes next
          putpos, endidx,   \* the locals of push_back; a query has its item
                            \* in putpos
          curref,           \* curref[t]: inc_ref's local
          queries,          \* the calls that MaxQueries bounds, so far
          pushed            \* observers' variable: pushed[i] is the thread
                            \* that wrote an element to position i

memory == <<size, container, resized>>
locals == <<putpos, endidx>>
vars   == <<refs, flag, idx, memory, mut, pc, locals, curref, queries, pushed>>

Positions == 0 .. MaxIdx - 1
Elements  == [Positions -> Threads \cup {NULL}]
Nothing   == [i \in Positions |-> NULL]

Init ==
  /\ refs = 0
  /\ flag = FALSE
  /\ idx = 0
  /\ size = InitialSize
  /\ container = Nothing
  /\ resized = Nothing
  /\ mut = NULL
  /\ pc = [t \in Threads |-> "idle"]
  /\ putpos = [t \in Threads |-> 0]
  /\ endidx = [t \in Threads |-> 0]
  /\ curref = [t \in Threads |-> 0]
  /\ queries = 0
  /\ pushed = Nothing

At(t, loc) == pc[t] = loc

Goto(t, loc) == pc' = [pc EXCEPT ![t] = loc]

\* The call returns; its locals are gone.
Return(t) ==
  /\ Goto(t, "idle")
  /\ putpos' = [putpos EXCEPT ![t] = 0]
  /\ endidx' = [endidx EXCEPT ![t] = 0]

\* The loop over the range, entered at endidx <= size: to its body, or past it.
IntoLoop(t, body, past) == Goto(t, IF putpos[t] < endidx[t] THEN body ELSE past)

\* container[putpos] = *begin, and ++putpos until endidx is reached: the push
\* stays at from as long as there are elements, and goes on at to.
WriteElement(t, from, to) ==
  /\ At(t, from)
  /\ container' = [container EXCEPT ![putpos[t]] = t]
  /\ pushed' = [pushed EXCEPT ![putpos[t]] = t]
  /\ putpos' = [putpos EXCEPT ![t] = putpos[t] + 1]
  /\ Goto(t, IF putpos[t] + 1 < endidx[t] THEN from ELSE to)
  /\ UNCHANGED <<refs, flag, idx, size, resized, mut, endidx, curref, queries>>

----------------------------------------------------------------------------
(* References.  A push goes from "p_..." to "p_...", a query the same with  *)
(* "q_...".                                                                 *)

\* putpos = cur.inc_idx(numel)
CallPush(t) ==
  /\ At(t, "idle")
  /\ \E n \in Lengths :
       /\ idx + n <= MaxIdx
       /\ n = 0 => queries < MaxQueries
       /\ queries' = IF n = 0 THEN queries + 1 ELSE queries
       /\ idx' = idx + n
       /\ putpos' = [putpos EXCEPT ![t] = idx]
       /\ endidx' = [endidx EXCEPT ![t] = idx + n]
  /\ Goto(t, "p_load")
  /\ UNCHANGED <<refs, flag, memory, mut, curref, pushed>>

CallQuery(t) ==
  /\ At(t, "idle")
  /\ queries < MaxQueries
  /\ queries' = queries + 1
  /\ \E item \in Positions : putpos' = [putpos EXCEPT ![t] = item]
  /\ Goto(t, "q_load") \/ Goto(t, "q_unsafe")
  /\ UNCHANGED <<refs, flag, idx, memory, mut, endidx, curref, pushed>>

\* inc_ref: curref = reference_count, again while the flag is up.
RefLoad(t, from, to) ==
  /\ At(t, from)
  /\ ~flag
  /\ curref' = [curref EXCEPT ![t] = refs]
  /\ Goto(t, to)
  /\ UNCHANGED <<refs, flag, idx, memory, mut, locals, queries, pushed>>

\* As if the compare-and-swap compared the count and not the flag.
RefCasIgnoresFlag(t, from, to, back) ==
  /\ At(t, from)
  /\ \/ /\ refs = curref[t]
        /\ refs' = refs + 1
        /\ Goto(t, to)
     \/ /\ refs # curref[t]
        /\ Goto(t, back)
        /\ UNCHANGED refs
  /\ curref' = [curref EXCEPT ![t] = 0]
  /\ UNCHANGED <<flag, idx, memory, mut, locals, queries, pushed>>

\* inc_ref: the compare-and-swap, which fails when the flag went up as well.
RefCas(t, from, to, back) ==
  /\ At(t, from)
  /\ \/ /\ refs = curref[t] /\ ~flag
        /\ refs' = refs + 1
        /\ Goto(t, to)
     \/ /\ refs # curref[t] \/ flag
        /\ Goto(t, back)
        /\ UNCHANGED refs
  /\ curref' = [curref EXCEPT ![t] = 0]
  /\ UNCHANGED <<flag, idx, memory, mut, locals, queries, pushed>>

PushRefLoad(t)  == RefLoad(t, "p_load", "p_cas")
PushRefCas(t)   == RefCas(t, "p_cas", "p_size", "p_load")
QueryRefLoad(t) == RefLoad(t, "q_load", "q_cas")
QueryRefCas(t)  == RefCas(t, "q_cas", "q_test", "q_load")

\* set_size, a plain store for when no call is under way: positions below idx
\* are drawn again, or some are skipped.
SetSize ==
  /\ \A t \in Threads : At(t, "idle")
  /\ queries < MaxQueries
  /\ queries' = queries + 1
  /\ idx' \in 0 .. MaxIdx
  /\ UNCHANGED <<refs, flag, memory, mut, pc, locals, curref, pushed>>

----------------------------------------------------------------------------
(* push_back                                                               *)

\* As if the positions were compared to the size and not their end.
PushSizeFirstOnly(t) ==
  /\ At(t, "p_size")
  /\ \/ putpos[t] < size /\ IntoLoop(t, "p_write", "p_done")
     \/ putpos[t] >= size /\ Goto(t, "p_dec")
  /\ UNCHANGED <<refs, flag, idx, memory, mut, locals, curref, queries, pushed>>

\* endidx <= container.size()
PushSize(t) ==
  /\ At(t, "p_size")
  /\ \/ endidx[t] <= size /\ IntoLoop(t, "p_write", "p_done")
     \/ endidx[t] > size /\ Goto(t, "p_dec")
  /\ UNCHANGED <<refs, flag, idx, memory, mut, locals, curref, queries, pushed>>

PushWrite(t) == WriteElement(t, "p_write", "p_done")

\* As if a push that wrote kept its reference.
PushDoneKeepsRef(t) ==
  /\ At(t, "p_done")
  /\ Return(t)
  /\ UNCHANGED <<refs, flag, idx, memory, mut, curref, queries, pushed>>

\* dec_ref and return
PushDone(t) ==
  /\ At(t, "p_done")
  /\ refs' = refs - 1
  /\ Return(t)
  /\ UNCHANGED <<flag, idx, memory, mut, curref, queries, pushed>>

\* The container is too small: dec_ref.
PushDec(t) ==
  /\ At(t, "p_dec")
  /\ refs' = refs - 1
  /\ Goto(t, "p_try")
  /\ UNCHANGED <<flag, idx, memory, mut, locals, curref, queries, pushed>>

\* mut.try_lock(): if somebody else resizes, the loop starts again.
PushTry(t) ==
  /\ At(t, "p_try")
  /\ \/ mut = NULL /\ mut' = t /\ Goto(t, "p_flag")
     \/ mut # NULL /\ Goto(t, "p_load") /\ UNCHANGED mut
  /\ UNCHANGED <<refs, flag, idx, memory, locals, curref, queries, pushed>>

\* flag_ref flips the bit.
PushFlag(t) ==
  /\ At(t, "p_flag")
  /\ flag' = ~flag
  /\ Goto(t, "p_wait")
  /\ UNCHANGED <<refs, idx, memory, mut, locals, curref, queries, pushed>>

\* As if nobody waited for the references.
PushWaitNot(t) ==
  /\ At(t, "p_wait")
  /\ \/ endidx[t] > size /\ Goto(t, "p_copy")
     \/ endidx[t] <= size /\ IntoLoop(t, "p_own", "p_unflag")
  /\ UNCHANGED <<refs, flag, idx, memory, mut, locals, curref, queries, pushed>>

\* wait_till_no_ref, and the second look at the size: somebody else may have
\* resized before this thread got the mutex.
PushWait(t) ==
  /\ At(t, "p_wait")
  /\ refs = 0
  /\ \/ endidx[t] > size /\ Goto(t, "p_copy")
     \/ endidx[t] <= size /\ IntoLoop(t, "p_own", "p_unflag")
  /\ UNCHANGED <<refs, flag, idx, memory, mut, locals, curref, queries, pushed>>

\* container.resize(max(endidx, container.size() * scalefactor)), in two steps.
ResizeCopy(t) ==
  /\ At(t, "p_copy")
  /\ resized' = container
  /\ Goto(t, "p_install")
  /\ UNCHANGED <<refs, flag, idx, size, container, mut, locals, curref, queries, pushed>>

ResizeInstall(t) ==
  /\ At(t, "p_install")
  /\ size' = IF endidx[t] > size * Scale THEN endidx[t] ELSE size * Scale
  /\ container' = resized
  /\ resized' = Nothing
  /\ IntoLoop(t, "p_own", "p_unflag")
  /\ UNCHANGED <<refs, flag, idx, mut, locals, curref, queries, pushed>>

\* The thread that resized writes its own elements.
PushOwn(t) == WriteElement(t, "p_own", "p_unflag")

\* As if the thread that resized had a reference to drop and no flag.
PushUnflagDec(t) ==
  /\ At(t, "p_unflag")
  /\ refs' = refs - 1
  /\ Goto(t, "p_unlock")
  /\ UNCHANGED <<flag, idx, memory, mut, locals, curref, queries, pushed>>

PushUnflag(t) ==
  /\ At(t, "p_unflag")
  /\ flag' = ~flag
  /\ Goto(t, "p_unlock")
  /\ UNCHANGED <<refs, idx, memory, mut, locals, curref, queries, pushed>>

PushUnlock(t) ==
  /\ At(t, "p_unlock")
  /\ mut' = NULL
  /\ Return(t)
  /\ UNCHANGED <<refs, flag, idx, memory, curref, queries, pushed>>

----------------------------------------------------------------------------
(* query and query_unsafe                                                  *)

\* item < cur.idx
QueryTest(t) ==
  /\ At(t, "q_test")
  /\ Goto(t, IF putpos[t] < idx THEN "q_read" ELSE "q_dec")
  /\ UNCHANGED <<refs, flag, idx, memory, mut, locals, curref, queries, pushed>>

\* value = container[item]
QueryRead(t) ==
  /\ At(t, "q_read")
  /\ Goto(t, "q_dec")
  /\ UNCHANGED <<refs, flag, idx, memory, mut, locals, curref, queries, pushed>>

QueryDec(t) ==
  /\ At(t, "q_dec")
  /\ refs' = refs - 1
  /\ Return(t)
  /\ UNCHANGED <<flag, idx, memory, mut, curref, queries, pushed>>

\* query_unsafe does the same without a reference.
QueryUnsafeTest(t) ==
  /\ At(t, "q_unsafe")
  /\ \/ putpos[t] < idx /\ Goto(t, "q_peek") /\ UNCHANGED locals
     \/ putpos[t] >= idx /\ Return(t)
  /\ UNCHANGED <<refs, flag, idx, memory, mut, curref, queries, pushed>>

QueryUnsafeRead(t) ==
  /\ At(t, "q_peek")
  /\ Return(t)
  /\ UNCHANGED <<refs, flag, idx, memory, mut, curref, queries, pushed>>

Step(t) ==
  \/ PushRefLoad(t) \/ PushRefCas(t) \/ PushSize(t) \/ PushWrite(t) \/ PushDone(t)
  \/ PushDec(t) \/ PushTry(t) \/ PushFlag(t) \/ PushWait(t) \/ ResizeCopy(t)
  \/ ResizeInstall(t) \/ PushOwn(t) \/ PushUnflag(t) \/ PushUnlock(t)
  \/ QueryRefLoad(t) \/ QueryRefCas(t) \/ QueryTest(t) \/ QueryRead(t) \/ QueryDec(t)
  \/ QueryUnsafeTest(t) \/ QueryUnsafeRead(t)

Next == SetSize \/ \E t \in Threads : CallPush(t) \/ CallQuery(t) \/ Step(t)

Spec == Init /\ [][Next]_vars

\* A call that is under way keeps running; no thread has to call.
FairSpec == Spec /\ \A t \in Threads : WF_vars(Step(t))

----------------------------------------------------------------------------
Locations ==
  {"idle", "p_load", "p_cas", "p_size", "p_write", "p_done", "p_dec", "p_try",
   "p_flag", "p_wait", "p_copy", "p_install", "p_own", "p_unflag", "p_unlock",
   "q_load", "q_cas", "q_test", "q_read", "q_dec", "q_unsafe", "q_peek"}

\* The threads with a reference, and the one that has the container for itself.
Holders  == {t \in Threads : pc[t] \in {"p_size", "p_write", "p_done", "p_dec", "q_test", "q_read", "q_dec"}}
Resizers == {t \in Threads : pc[t] \in {"p_copy", "p_install", "p_own", "p_unflag"}}

\* Every variable has its type; the count stays clear of the bit above it.
TypeOK ==
  /\ refs \in 0 .. MAX_REF - 1
  /\ flag \in BOOLEAN
  /\ idx \in 0 .. MaxIdx
  /\ size \in Nat
  /\ {container, resized, pushed} \subseteq Elements
  /\ mut \in Threads \cup {NULL}
  /\ pc \in [Threads -> Locations]
  /\ {putpos, endidx} \subseteq [Threads -> 0 .. MaxIdx]
  /\ curref \in [Threads -> 0 .. MAX_REF - 1]
  /\ queries \in 0 .. MaxQueries

\* "we are exclusive here": while a thread resizes or writes without a
\* reference, nobody has one, and nobody else resizes.
ResizerIsAlone ==
  /\ Resizers # {} => Holders = {}
  /\ \A s, t \in Resizers : s = t

\* The count of references is exact, so it never falls below zero, and the
\* flag is up exactly while the holder of the mutex has raised it.
RefsExact ==
  /\ refs = Cardinality(Holders)
  /\ flag <=> \E t \in Threads : pc[t] = "p_wait" \/ t \in Resizers

\* Every access of a push is within the container, also when other pushes drew
\* later positions and resized first.
WritesInBounds ==
  \A t \in Threads : pc[t] \in {"p_write", "p_own"} => putpos[t] < endidx[t] /\ endidx[t] <= size

\* An element that was written stays where it is, through all the resizes that
\* follow: a query of its position finds it.
NothingLost ==
  \A i \in Positions :
    pushed[i] # NULL => i < size /\ container[i] = pushed[i]

\* query relies on operator[], which "must succeed for idx < size()"
\* (lockfree_push_back.hpp:59), for every position below idx.
QueriesInBounds == \A t \in Threads : pc[t] = "q_read" => putpos[t] < size

\* Every call returns in the end, when there are finitely many of them: no
\* push waits for a resizer that waits for it.
EveryCallReturns == <>[](\A t \in Threads : pc[t] = "idle")
=============================================================================
