------------------------ MODULE LockfreePushBackProofs ------------------------
(***************************************************************************)
(* For any finite set of threads, any lengths, any initial size and scale: *)
(* a resize is exclusive, every write of a push is within the container,   *)
(* and no element is lost.                                                 *)
(***************************************************************************)
EXTENDS LockfreePushBack, FiniteSetTheorems, TLAPS

HolderLocs  == {"p_size", "p_write", "p_done", "p_dec", "q_test", "q_read", "q_dec"}
ResizerLocs == {"p_copy", "p_install", "p_own", "p_unflag"}
FlagLocs    == ResizerLocs \cup {"p_wait"}
MutexLocs   == FlagLocs \cup {"p_flag", "p_unlock"}

(* What the invariants rest on.  The mutex is what makes two resizers one,  *)
(* and the copy that a resize has made is still like the container when it  *)
(* takes its place: nobody wrote in between.                                *)
MutexHeld   == \A t \in Threads : pc[t] \in MutexLocs => mut = t
CopyIsTrue  == \A t \in Threads : pc[t] = "p_install" => resized = container

(* The inductive invariant: what each thread may do, and what the threads   *)
(* have in common.                                                          *)
Private == TypeOK /\ WritesInBounds
Common  == MutexHeld /\ RefsExact /\ ResizerIsAlone /\ CopyIsTrue
IInv    == Private /\ Common /\ NothingLost

\* The two sets of the model, by the places in the code.
LEMMA SetsByLocation ==
  /\ Holders = {t \in Threads : pc[t] \in HolderLocs}
  /\ Resizers = {t \in Threads : pc[t] \in ResizerLocs}
BY DEF Holders, Resizers, HolderLocs, ResizerLocs

\* A set of threads is too small for the count to reach the bit MAX_REF.
LEMMA FewThreads ==
  ASSUME NEW S \in SUBSET Threads
  PROVE  IsFiniteSet(S) /\ Cardinality(S) \in 0 .. MAX_REF - 1
<1>1. IsFiniteSet(Threads) /\ IsFiniteSet(S) /\ Cardinality(S) <= Cardinality(Threads)
  BY PushBackAssumption, FS_Subset
<1>2. Cardinality(Threads) \in Nat /\ Cardinality(S) \in Nat
  BY <1>1, FS_CardinalityType
<1>. QED
  BY <1>1, <1>2, PushBackAssumption

\* So the bit is above zero.
LEMMA NoneIsFew == MAX_REF \in Nat /\ 0 \in 0 .. MAX_REF - 1
<1>1. Cardinality({}) \in 0 .. MAX_REF - 1
  BY FewThreads
<1>. QED
  BY <1>1, FS_EmptySet, PushBackAssumption

\* The threads that have a reference can be counted.
LEMMA HoldersFinite ==
  /\ IsFiniteSet(Holders)
  /\ Cardinality(Holders) \in Nat
  /\ Cardinality(Holders) = 0 <=> Holders = {}
<1>1. Holders \in SUBSET Threads
  BY DEF Holders
<1>2. IsFiniteSet(Holders)
  BY <1>1, FewThreads
<1>. QED
  BY <1>2, FS_EmptySet, FS_CardinalityType

\* A thread that moves on within its role leaves what is common alone.
LEMMA KeepRole ==
  ASSUME TypeOK, Common, NEW t \in Threads, NEW to \in Locations,
         pc' = [pc EXCEPT ![t] = to],
         UNCHANGED <<refs, flag, mut>>,
         to \in HolderLocs <=> pc[t] \in HolderLocs,
         to \in ResizerLocs <=> pc[t] \in ResizerLocs,
         to \in FlagLocs <=> pc[t] \in FlagLocs,
         to \in MutexLocs => pc[t] \in MutexLocs
  PROVE  MutexHeld' /\ RefsExact' /\ ResizerIsAlone'
<1>1. Holders' = Holders /\ Resizers' = Resizers
  BY SetsByLocation DEF TypeOK, Holders, Resizers, HolderLocs, ResizerLocs
<1>2. MutexHeld'
  BY DEF TypeOK, Common, MutexHeld
<1>3. RefsExact'
  <2>1. refs' = Cardinality(Holders')
    BY <1>1 DEF Common, RefsExact
  <2>2. \A u \in Threads : (pc'[u] = "p_wait" \/ u \in Resizers') <=> pc'[u] \in FlagLocs
    BY DEF Resizers, FlagLocs, ResizerLocs
  <2>3. \A u \in Threads : (pc[u] = "p_wait" \/ u \in Resizers) <=> pc[u] \in FlagLocs
    BY DEF Resizers, FlagLocs, ResizerLocs
  <2>4. \A u \in Threads : pc'[u] \in FlagLocs <=> pc[u] \in FlagLocs
    BY DEF TypeOK
  <2>5. flag' <=> \E u \in Threads : pc'[u] = "p_wait" \/ u \in Resizers'
    BY <2>2, <2>3, <2>4 DEF Common, RefsExact
  <2>. QED
    BY <2>1, <2>5 DEF RefsExact
<1>4. ResizerIsAlone'
  BY <1>1 DEF Common, ResizerIsAlone
<1>. QED
  BY <1>2, <1>3, <1>4

\* A thread without a role gets a reference while the flag is down.
LEMMA GetReference ==
  ASSUME TypeOK, Common, NEW t \in Threads, NEW to \in HolderLocs,
         pc[t] \notin HolderLocs \cup MutexLocs, pc' = [pc EXCEPT ![t] = to],
         ~flag, refs' = refs + 1, UNCHANGED <<flag, mut>>
  PROVE  refs' \in 0 .. MAX_REF - 1 /\ MutexHeld' /\ RefsExact' /\ ResizerIsAlone'
<1>1. \A u \in Threads : pc[u] \notin FlagLocs
  BY DEF Common, RefsExact, Resizers, FlagLocs, ResizerLocs
<1>2. \A u \in Threads : pc'[u] \notin FlagLocs
  BY <1>1 DEF TypeOK, HolderLocs, FlagLocs, ResizerLocs
<1>3. Resizers' = {} /\ \A u \in Threads : pc'[u] # "p_wait"
  BY <1>2 DEF Resizers, FlagLocs, ResizerLocs
<1>4. Holders' = Holders \cup {t} /\ t \notin Holders
  BY DEF TypeOK, Holders, HolderLocs
<1>5. Cardinality(Holders') = Cardinality(Holders) + 1
  BY <1>4, HoldersFinite, FS_AddElement
<1>6. MutexHeld'
  BY DEF TypeOK, Common, MutexHeld, HolderLocs, MutexLocs, FlagLocs, ResizerLocs
<1>7. refs' = Cardinality(Holders')
  BY <1>5, HoldersFinite DEF Common, RefsExact
<1>8. refs' \in 0 .. MAX_REF - 1
  <2>1. Holders' \in SUBSET Threads
    BY <1>4 DEF Holders
  <2>. QED
    BY <1>7, <2>1, FewThreads
<1>. QED
  BY <1>3, <1>6, <1>7, <1>8 DEF RefsExact, ResizerIsAlone

\* A thread that drops its reference leaves the count exact.
LEMMA DropReference ==
  ASSUME TypeOK, Common, NEW t \in Threads, NEW to \in {"idle", "p_try"},
         pc[t] \in HolderLocs, pc' = [pc EXCEPT ![t] = to],
         refs' = refs - 1, UNCHANGED <<flag, mut>>
  PROVE  refs' \in 0 .. MAX_REF - 1 /\ MutexHeld' /\ RefsExact' /\ ResizerIsAlone'
<1>1. Holders' = Holders \ {t} /\ t \in Holders /\ Resizers' = Resizers
  BY DEF TypeOK, Holders, Resizers, HolderLocs
<1>2. Cardinality(Holders') = Cardinality(Holders) - 1 /\ Cardinality(Holders) # 0
  BY <1>1, HoldersFinite, FS_RemoveElement
<1>3. MutexHeld'
  BY DEF TypeOK, Common, MutexHeld, HolderLocs, MutexLocs, FlagLocs, ResizerLocs
<1>4. refs' = Cardinality(Holders') /\ refs' \in 0 .. MAX_REF - 1
  <2>1. refs' = Cardinality(Holders')
    BY <1>2, HoldersFinite DEF Common, RefsExact
  <2>2. Holders' \in SUBSET Threads
    BY <1>1 DEF Holders
  <2>. QED
    BY <2>1, <2>2, FewThreads
<1>5. \A u \in Threads : pc'[u] = "p_wait" <=> pc[u] = "p_wait"
  BY DEF TypeOK, HolderLocs
<1>6. flag' <=> \E u \in Threads : pc'[u] = "p_wait" \/ u \in Resizers'
  BY <1>1, <1>5 DEF Common, RefsExact
<1>7. ResizerIsAlone'
  BY <1>1 DEF Common, ResizerIsAlone
<1>. QED
  BY <1>3, <1>4, <1>6, <1>7 DEF RefsExact

\* Whoever has the mutex is the only one that may have raised the flag.
LEMMA OnlyMutexHolder ==
  ASSUME Common, NEW t \in Threads, pc[t] \in MutexLocs
  PROVE  \A u \in Threads : pc[u] \in MutexLocs => u = t
BY DEF Common, MutexHeld

\* A scale of one or more does not make a container smaller.
LEMMA ScaleGrows ==
  ASSUME NEW a \in Nat, NEW b \in Nat \ {0}
  PROVE  a * b \in Nat /\ a <= a * b
<1>1. PICK c \in Nat : b = c + 1
  OBVIOUS
<1>2. a * b = a * c + a /\ a * c \in Nat
  BY <1>1
<1>. QED
  BY <1>2

-----------------------------------------------------------------------------
\* The container starts with nobody at work and nothing written.
THEOREM InitInvariant == Init => IInv
<1>. SUFFICES ASSUME Init PROVE IInv
  OBVIOUS
<1>1. Holders = {} /\ Resizers = {} /\ \A t \in Threads : pc[t] = "idle"
  BY DEF Init, Holders, Resizers
<1>2. Nothing \in Elements
  BY DEF Nothing, Elements
<1>3. TypeOK
  <2>1. {container, resized, pushed} \subseteq Elements
    BY <1>2 DEF Init
  <2>2. /\ pc \in [Threads -> Locations] /\ curref \in [Threads -> 0 .. MAX_REF - 1]
        /\ {putpos, endidx} \subseteq [Threads -> 0 .. MaxIdx]
    BY NoneIsFew, PushBackAssumption DEF Init, Locations
  <2>3. /\ refs \in 0 .. MAX_REF - 1 /\ idx \in 0 .. MaxIdx /\ size \in Nat
        /\ queries \in 0 .. MaxQueries
    BY NoneIsFew, PushBackAssumption DEF Init
  <2>4. flag \in BOOLEAN /\ mut \in Threads \cup {NULL}
    BY DEF Init
  <2>. QED
    BY <2>1, <2>2, <2>3, <2>4 DEF TypeOK
<1>4. RefsExact
  BY <1>1, FS_EmptySet DEF Init, RefsExact
<1>5. NothingLost
  BY DEF Init, NothingLost, Nothing
<1>. QED
  BY <1>1, <1>3, <1>4, <1>5
  DEF IInv, Private, Common, WritesInBounds, MutexHeld, ResizerIsAlone,
      CopyIsTrue, MutexLocs, FlagLocs, ResizerLocs

\* An element is written by a thread that has a reference, or is alone: it
\* lands within the container, and in no copy that a resize has in hand.
LEMMA WriteInvariant ==
  ASSUME IInv, NEW t \in Threads, PushWrite(t) \/ PushOwn(t)
  PROVE  IInv'
<1>. USE DEF IInv, Private
<1>. DEFINE n == putpos[t]
<1>1. /\ pc[t] \in {"p_write", "p_own"}
      /\ container' = [container EXCEPT ![n] = t] /\ pushed' = [pushed EXCEPT ![n] = t]
      /\ putpos' = [putpos EXCEPT ![t] = n + 1]
      /\ UNCHANGED <<refs, flag, idx, size, resized, mut, endidx, curref, queries>>
  BY DEF PushWrite, PushOwn, WriteElement, At
<1>2. n < endidx[t] /\ endidx[t] <= size /\ n \in Positions
  BY <1>1, PushBackAssumption DEF WritesInBounds, TypeOK, Positions
<1>3. PICK to \in Locations :
        /\ pc' = [pc EXCEPT ![t] = to]
        /\ \/ pc[t] = "p_write" /\ to = "p_write" /\ n + 1 < endidx[t]
           \/ pc[t] = "p_write" /\ to = "p_done"
           \/ pc[t] = "p_own" /\ to = "p_own" /\ n + 1 < endidx[t]
           \/ pc[t] = "p_own" /\ to = "p_unflag"
  BY DEF PushWrite, PushOwn, WriteElement, At, Goto, Locations
<1>4. MutexHeld' /\ RefsExact' /\ ResizerIsAlone'
  <2>1. /\ to \in HolderLocs <=> pc[t] \in HolderLocs
        /\ to \in ResizerLocs <=> pc[t] \in ResizerLocs
        /\ to \in FlagLocs <=> pc[t] \in FlagLocs
        /\ to \in MutexLocs => pc[t] \in MutexLocs
    BY <1>3 DEF HolderLocs, ResizerLocs, FlagLocs, MutexLocs
  <2>. QED
    BY <1>1, <1>3, <2>1, KeepRole
<1>5. TypeOK'
  <2>1. container' \in Elements /\ pushed' \in Elements /\ resized' \in Elements
    BY <1>1, <1>2 DEF TypeOK, Elements
  <2>2. putpos' \in [Threads -> 0 .. MaxIdx] /\ endidx' \in [Threads -> 0 .. MaxIdx]
    BY <1>1, <1>2, PushBackAssumption DEF TypeOK, Positions
  <2>3. pc' \in [Threads -> Locations]
    BY <1>3 DEF TypeOK
  <2>. QED
    BY <1>1, <2>1, <2>2, <2>3 DEF TypeOK
<1>6. WritesInBounds'
  BY <1>1, <1>2, <1>3 DEF TypeOK, WritesInBounds
<1>7. CopyIsTrue'
  <2>1. \A u \in Threads : pc'[u] # "p_install"
    <3>. SUFFICES ASSUME NEW u \in Threads, pc[u] = "p_install" PROVE FALSE
      BY <1>1, <1>3 DEF TypeOK
    <3>1. u \in Resizers
      BY DEF Resizers
    <3>2. CASE pc[t] = "p_write"
      <4>1. t \in Holders
        BY <3>2 DEF Holders
      <4>. QED
        BY <3>1, <4>1 DEF Common, ResizerIsAlone
    <3>3. CASE pc[t] = "p_own"
      <4>1. t \in Resizers
        BY <3>3 DEF Resizers
      <4>. QED
        BY <3>1, <3>3, <4>1 DEF Common, ResizerIsAlone
    <3>. QED
      BY <1>1, <3>2, <3>3
  <2>. QED
    BY <2>1 DEF CopyIsTrue
<1>8. NothingLost'
  <2>. SUFFICES ASSUME NEW i \in Positions, pushed'[i] # NULL
                PROVE  i < size /\ container'[i] = pushed'[i]
    BY <1>1 DEF NothingLost
  <2>1. container \in Elements /\ pushed \in Elements /\ size \in Nat
    BY DEF TypeOK
  <2>2. endidx[t] \in Nat /\ n \in Nat
    BY DEF TypeOK
  <2>3. CASE i = n
    BY <1>1, <1>2, <2>1, <2>2, <2>3 DEF Elements
  <2>4. CASE i # n
    <3>1. container'[i] = container[i] /\ pushed'[i] = pushed[i]
      BY <1>1, <2>1, <2>4 DEF Elements
    <3>. QED
      BY <3>1 DEF NothingLost
  <2>. QED
    BY <2>3, <2>4
<1>. QED
  BY <1>4, <1>5, <1>6, <1>7, <1>8 DEF Common

\* What a step that leaves the container alone does not disturb.
LEMMA SameContents ==
  ASSUME IInv, UNCHANGED <<memory, pushed>>,
         \A t \in Threads : pc'[t] = "p_install" => pc[t] = "p_install"
  PROVE  CopyIsTrue' /\ NothingLost'
BY DEF IInv, Common, CopyIsTrue, NothingLost, memory

\* A call of push_back or of a query, and the steps that only read.
LEMMA ReadInvariant ==
  ASSUME IInv, NEW t \in Threads,
         \/ CallPush(t) \/ CallQuery(t) \/ PushRefLoad(t) \/ QueryRefLoad(t)
         \/ PushSize(t) \/ QueryTest(t) \/ QueryRead(t)
         \/ QueryUnsafeTest(t) \/ QueryUnsafeRead(t)
  PROVE  IInv'
<1>. USE DEF IInv, Private
<1>1. /\ UNCHANGED <<refs, flag, mut, memory, pushed>>
      /\ \E to \in Locations :
           /\ pc' = [pc EXCEPT ![t] = to]
           /\ to # "p_install"
           /\ to \in HolderLocs <=> pc[t] \in HolderLocs
           /\ to \in ResizerLocs <=> pc[t] \in ResizerLocs
           /\ to \in FlagLocs <=> pc[t] \in FlagLocs
           /\ to \in MutexLocs => pc[t] \in MutexLocs
  BY DEF CallPush, CallQuery, PushRefLoad, QueryRefLoad, RefLoad, PushSize, IntoLoop, QueryTest,
     QueryRead, QueryUnsafeTest, QueryUnsafeRead, At, Goto, Return, Locations, HolderLocs, ResizerLocs,
     FlagLocs, MutexLocs
<1>2. MutexHeld' /\ RefsExact' /\ ResizerIsAlone'
  BY <1>1, KeepRole
<1>3. CopyIsTrue' /\ NothingLost'
  BY <1>1, SameContents DEF TypeOK
<1>4. TypeOK' /\ WritesInBounds'
  <2>1. /\ idx' \in 0 .. MaxIdx /\ queries' \in 0 .. MaxQueries
        /\ pc' \in [Threads -> Locations] /\ curref' \in [Threads -> 0 .. MAX_REF - 1]
    <3>1. /\ idx' = idx \/ \E k \in Lengths : idx + k <= MaxIdx /\ idx' = idx + k
          /\ queries' = queries \/ (queries < MaxQueries /\ queries' = queries + 1)
          /\ curref' = curref \/ curref' = [curref EXCEPT ![t] = refs]
                              \/ curref' = [curref EXCEPT ![t] = 0]
      BY DEF CallPush, CallQuery, PushRefLoad, QueryRefLoad, RefLoad, PushSize, QueryTest,
             QueryRead, QueryUnsafeTest, QueryUnsafeRead, Return, memory, locals
    <3>2. idx' \in 0 .. MaxIdx
      BY <3>1, PushBackAssumption DEF TypeOK
    <3>3. queries' \in 0 .. MaxQueries
      BY <3>1, PushBackAssumption DEF TypeOK
    <3>4. pc' \in [Threads -> Locations]
      BY <1>1 DEF TypeOK
    <3>5. curref' \in [Threads -> 0 .. MAX_REF - 1]
      BY <3>1, NoneIsFew DEF TypeOK
    <3>. QED
      BY <3>2, <3>3, <3>4, <3>5
  <2>2. CASE CallPush(t)
    <3>1. PICK k \in Lengths :
            /\ idx + k <= MaxIdx /\ putpos' = [putpos EXCEPT ![t] = idx]
            /\ endidx' = [endidx EXCEPT ![t] = idx + k]
      BY <2>2 DEF CallPush
    <3>2. k \in Nat /\ idx \in 0 .. MaxIdx /\ idx + k \in 0 .. MaxIdx
      BY <3>1, PushBackAssumption DEF TypeOK
    <3>3. putpos' \in [Threads -> 0 .. MaxIdx] /\ endidx' \in [Threads -> 0 .. MaxIdx]
      BY <3>1, <3>2 DEF TypeOK
    <3>4. WritesInBounds'
      BY <1>1, <2>2, <3>1, <3>2
      DEF TypeOK, WritesInBounds, CallPush, At, Goto, memory
    <3>. QED
      BY <1>1, <2>1, <3>3, <3>4 DEF TypeOK, memory
  <2>3. CASE CallQuery(t)
    <3>1. PICK item \in Positions : putpos' = [putpos EXCEPT ![t] = item]
      BY <2>3 DEF CallQuery
    <3>2. item \in 0 .. MaxIdx
      BY <3>1, PushBackAssumption DEF Positions
    <3>3. putpos' \in [Threads -> 0 .. MaxIdx] /\ endidx' = endidx
      BY <2>3, <3>1, <3>2 DEF TypeOK, CallQuery
    <3>4. pc' = [pc EXCEPT ![t] = "q_load"] \/ pc' = [pc EXCEPT ![t] = "q_unsafe"]
      BY <2>3 DEF CallQuery, Goto
    <3>5. WritesInBounds'
      BY <1>1, <3>1, <3>3, <3>4 DEF TypeOK, WritesInBounds, memory
    <3>. QED
      BY <1>1, <2>1, <3>3, <3>5 DEF TypeOK, memory
  <2>4. CASE PushRefLoad(t) \/ QueryRefLoad(t) \/ QueryTest(t) \/ QueryRead(t)
    <3>1. UNCHANGED locals
      BY <2>4 DEF PushRefLoad, QueryRefLoad, RefLoad, QueryTest, QueryRead
    <3>2. WritesInBounds'
      BY <1>1, <2>4, <3>1 DEF TypeOK, WritesInBounds, memory, locals,
         PushRefLoad, QueryRefLoad, RefLoad, QueryTest, QueryRead, At, Goto
    <3>. QED
      BY <1>1, <2>1, <3>1, <3>2 DEF TypeOK, memory, locals
  <2>5. CASE PushSize(t)
    <3>1. UNCHANGED locals
      BY <2>5 DEF PushSize
    <3>2. WritesInBounds'
      BY <1>1, <2>5, <3>1 DEF TypeOK, WritesInBounds, memory, locals,
         PushSize, IntoLoop, At, Goto
    <3>. QED
      BY <1>1, <2>1, <3>1, <3>2 DEF TypeOK, memory, locals
  <2>6. CASE QueryUnsafeTest(t) \/ QueryUnsafeRead(t)
    <3>1. \/ UNCHANGED locals
          \/ /\ putpos' = [putpos EXCEPT ![t] = 0]
             /\ endidx' = [endidx EXCEPT ![t] = 0]
      BY <2>6 DEF QueryUnsafeTest, QueryUnsafeRead, Return
    <3>2. putpos' \in [Threads -> 0 .. MaxIdx] /\ endidx' \in [Threads -> 0 .. MaxIdx]
      BY <3>1, PushBackAssumption DEF TypeOK, locals
    <3>3. pc' = [pc EXCEPT ![t] = "q_peek"] \/ pc' = [pc EXCEPT ![t] = "idle"]
      BY <2>6 DEF QueryUnsafeTest, QueryUnsafeRead, Return, Goto
    <3>4. WritesInBounds'
      BY <1>1, <3>1, <3>3 DEF TypeOK, WritesInBounds, memory, locals
    <3>. QED
      BY <1>1, <2>1, <3>2, <3>4 DEF TypeOK, memory
  <2>. QED
    BY <2>2, <2>3, <2>4, <2>5, <2>6
<1>. QED
  BY <1>2, <1>3, <1>4 DEF Common

\* inc_ref's compare-and-swap takes a reference only when nobody resizes.
LEMMA CasInvariant ==
  ASSUME IInv, NEW t \in Threads, PushRefCas(t) \/ QueryRefCas(t)
  PROVE  IInv'
<1>. USE DEF IInv, Private
<1>1. /\ UNCHANGED <<flag, idx, memory, mut, locals, queries, pushed>>
      /\ curref' = [curref EXCEPT ![t] = 0]
      /\ pc[t] \in {"p_cas", "q_cas"}
  BY DEF PushRefCas, QueryRefCas, RefCas, At
<1>2. \/ /\ ~flag /\ refs' = refs + 1
         /\ \/ pc[t] = "p_cas" /\ pc' = [pc EXCEPT ![t] = "p_size"]
            \/ pc[t] = "q_cas" /\ pc' = [pc EXCEPT ![t] = "q_test"]
      \/ /\ UNCHANGED refs
         /\ \/ pc[t] = "p_cas" /\ pc' = [pc EXCEPT ![t] = "p_load"]
            \/ pc[t] = "q_cas" /\ pc' = [pc EXCEPT ![t] = "q_load"]
  BY DEF PushRefCas, QueryRefCas, RefCas, At, Goto
<1>3. refs' \in 0 .. MAX_REF - 1 /\ MutexHeld' /\ RefsExact' /\ ResizerIsAlone'
  <2>1. CASE UNCHANGED refs
    <3>1. PICK to \in {"p_load", "q_load"} : pc' = [pc EXCEPT ![t] = to]
      BY <1>2, <2>1 DEF TypeOK
    <3>2. /\ to \in Locations
          /\ to \notin HolderLocs \cup MutexLocs /\ pc[t] \notin HolderLocs \cup MutexLocs
          /\ to \notin FlagLocs \cup ResizerLocs /\ pc[t] \notin FlagLocs \cup ResizerLocs
      BY <1>1, <3>1 DEF Locations, HolderLocs, MutexLocs, FlagLocs, ResizerLocs
    <3>. QED
      BY <1>1, <2>1, <3>1, <3>2, KeepRole DEF TypeOK
  <2>2. CASE ~flag /\ refs' = refs + 1
    <3>1. PICK to \in {"p_size", "q_test"} : pc' = [pc EXCEPT ![t] = to]
      BY <1>2, <2>2 DEF TypeOK
    <3>2. to \in HolderLocs /\ pc[t] \notin HolderLocs \cup MutexLocs
      BY <1>1, <3>1 DEF HolderLocs, MutexLocs, FlagLocs, ResizerLocs
    <3>. QED
      BY <1>1, <2>2, <3>1, <3>2, GetReference
  <2>. QED
    BY <1>2, <2>1, <2>2
<1>4. TypeOK'
  BY <1>1, <1>2, <1>3, NoneIsFew DEF TypeOK, Locations, memory, locals
<1>5. WritesInBounds'
  BY <1>1, <1>2 DEF TypeOK, WritesInBounds, memory, locals
<1>6. CopyIsTrue' /\ NothingLost'
  BY <1>1, <1>2, SameContents DEF TypeOK
<1>. QED
  BY <1>3, <1>4, <1>5, <1>6 DEF Common

\* dec_ref, at the end of a push or a query or before a resize.
LEMMA DropInvariant ==
  ASSUME IInv, NEW t \in Threads, PushDone(t) \/ PushDec(t) \/ QueryDec(t)
  PROVE  IInv'
<1>. USE DEF IInv, Private
<1>1. /\ refs' = refs - 1
      /\ UNCHANGED <<flag, idx, memory, mut, curref, queries, pushed>>
      /\ pc[t] \in HolderLocs
  BY DEF PushDone, PushDec, QueryDec, At, HolderLocs
<1>2. \/ /\ pc' = [pc EXCEPT ![t] = "idle"]
         /\ putpos' = [putpos EXCEPT ![t] = 0] /\ endidx' = [endidx EXCEPT ![t] = 0]
      \/ pc[t] = "p_dec" /\ pc' = [pc EXCEPT ![t] = "p_try"] /\ UNCHANGED <<putpos, endidx>>
  BY DEF PushDone, PushDec, QueryDec, At, Goto, Return, locals
<1>3. refs' \in 0 .. MAX_REF - 1 /\ MutexHeld' /\ RefsExact' /\ ResizerIsAlone'
  BY <1>1, <1>2, DropReference
<1>4. TypeOK'
  <2>1. putpos' \in [Threads -> 0 .. MaxIdx] /\ endidx' \in [Threads -> 0 .. MaxIdx]
    BY <1>2, PushBackAssumption DEF TypeOK
  <2>. QED
    BY <1>1, <1>2, <1>3, <2>1 DEF TypeOK, Locations, memory
<1>5. WritesInBounds'
  BY <1>1, <1>2 DEF TypeOK, WritesInBounds, memory
<1>6. CopyIsTrue' /\ NothingLost'
  BY <1>1, <1>2, SameContents DEF TypeOK
<1>. QED
  BY <1>3, <1>4, <1>5, <1>6 DEF Common

\* Taking and giving back the mutex.
LEMMA MutexInvariant ==
  ASSUME IInv, NEW t \in Threads, PushTry(t) \/ PushUnlock(t)
  PROVE  IInv'
<1>. USE DEF IInv, Private
<1>1. UNCHANGED <<refs, flag, idx, memory, curref, queries, pushed>>
  BY DEF PushTry, PushUnlock
<1>2. \/ /\ pc[t] = "p_try" /\ mut = NULL /\ mut' = t
         /\ pc' = [pc EXCEPT ![t] = "p_flag"] /\ UNCHANGED <<putpos, endidx>>
      \/ /\ pc[t] = "p_try" /\ UNCHANGED mut
         /\ pc' = [pc EXCEPT ![t] = "p_load"] /\ UNCHANGED <<putpos, endidx>>
      \/ /\ pc[t] = "p_unlock" /\ mut' = NULL /\ pc' = [pc EXCEPT ![t] = "idle"]
         /\ putpos' = [putpos EXCEPT ![t] = 0] /\ endidx' = [endidx EXCEPT ![t] = 0]
  BY DEF PushTry, PushUnlock, At, Goto, Return, locals
<1>3. MutexHeld'
  BY <1>2, PushBackAssumption
  DEF TypeOK, Common, MutexHeld, MutexLocs, FlagLocs, ResizerLocs
<1>4. Holders' = Holders /\ Resizers' = Resizers
  BY <1>2 DEF TypeOK, Holders, Resizers
<1>5. RefsExact' /\ ResizerIsAlone'
  <2>1. \A u \in Threads : pc'[u] = "p_wait" <=> pc[u] = "p_wait"
    BY <1>2 DEF TypeOK
  <2>2. flag' <=> \E u \in Threads : pc'[u] = "p_wait" \/ u \in Resizers'
    BY <1>1, <1>4, <2>1 DEF Common, RefsExact
  <2>. QED
    BY <1>1, <1>4, <2>2 DEF Common, RefsExact, ResizerIsAlone
<1>6. TypeOK'
  <2>1. putpos' \in [Threads -> 0 .. MaxIdx] /\ endidx' \in [Threads -> 0 .. MaxIdx]
    BY <1>2, PushBackAssumption DEF TypeOK
  <2>. QED
    BY <1>1, <1>2, <2>1 DEF TypeOK, Locations, memory
<1>7. WritesInBounds'
  BY <1>1, <1>2 DEF TypeOK, WritesInBounds, memory
<1>8. CopyIsTrue' /\ NothingLost'
  BY <1>1, <1>2, SameContents DEF TypeOK
<1>. QED
  BY <1>3, <1>5, <1>6, <1>7, <1>8 DEF Common

\* Whoever has the mutex raises the flag, which was down, and lowers it again.
LEMMA FlagInvariant ==
  ASSUME IInv, NEW t \in Threads, PushFlag(t) \/ PushUnflag(t)
  PROVE  IInv'
<1>. USE DEF IInv, Private
<1>1. flag' = ~flag /\ UNCHANGED <<refs, idx, memory, mut, locals, curref, queries, pushed>>
  BY DEF PushFlag, PushUnflag
<1>2. \/ pc[t] = "p_flag" /\ pc' = [pc EXCEPT ![t] = "p_wait"]
      \/ pc[t] = "p_unflag" /\ pc' = [pc EXCEPT ![t] = "p_unlock"]
  BY DEF PushFlag, PushUnflag, At, Goto
<1>3. \A u \in Threads : pc[u] \in MutexLocs => u = t
  BY <1>2, OnlyMutexHolder DEF MutexLocs, FlagLocs, ResizerLocs
<1>4. MutexHeld'
  BY <1>1, <1>2 DEF TypeOK, Common, MutexHeld, MutexLocs, FlagLocs, ResizerLocs
<1>5. Holders' = Holders
  BY <1>2 DEF TypeOK, Holders
<1>6. Resizers' = {}
  BY <1>2, <1>3 DEF TypeOK, Resizers, MutexLocs, FlagLocs, ResizerLocs
<1>7. \A u \in Threads : u # t => pc[u] # "p_wait" /\ u \notin Resizers
  BY <1>3 DEF Resizers, MutexLocs, FlagLocs, ResizerLocs
<1>8. flag' <=> \E u \in Threads : pc'[u] = "p_wait" \/ u \in Resizers'
  <2>1. CASE pc[t] = "p_flag"
    <3>1. ~(\E u \in Threads : pc[u] = "p_wait" \/ u \in Resizers)
      BY <2>1, <1>7 DEF Resizers
    <3>2. pc'[t] = "p_wait"
      BY <1>2, <2>1 DEF TypeOK
    <3>3. ~flag
      BY <3>1 DEF Common, RefsExact
    <3>. QED
      BY <1>1, <3>2, <3>3
  <2>2. CASE pc[t] = "p_unflag"
    <3>1. t \in Resizers
      BY <2>2 DEF Resizers
    <3>2. flag
      BY <3>1 DEF Common, RefsExact
    <3>3. \A u \in Threads : pc'[u] # "p_wait"
      BY <1>2, <1>7, <2>2 DEF TypeOK
    <3>. QED
      BY <1>1, <1>6, <3>2, <3>3
  <2>. QED
    BY <1>2, <2>1, <2>2
<1>9. RefsExact' /\ ResizerIsAlone'
  BY <1>1, <1>5, <1>6, <1>8 DEF Common, RefsExact, ResizerIsAlone
<1>10. TypeOK'
  <2>1. flag' \in BOOLEAN
    BY <1>1 DEF TypeOK
  <2>2. pc' \in [Threads -> Locations]
    BY <1>2 DEF TypeOK, Locations
  <2>. QED
    BY <1>1, <2>1, <2>2 DEF TypeOK, memory, locals
<1>11. WritesInBounds'
  BY <1>1, <1>2 DEF TypeOK, WritesInBounds, memory, locals
<1>12. CopyIsTrue' /\ NothingLost'
  BY <1>1, <1>2, SameContents DEF TypeOK
<1>. QED
  BY <1>4, <1>9, <1>10, <1>11, <1>12 DEF Common

\* wait_till_no_ref lets the thread that raised the flag go on when nobody has
\* a reference, so it is alone.
LEMMA WaitInvariant ==
  ASSUME IInv, NEW t \in Threads, PushWait(t)
  PROVE  IInv'
<1>. USE DEF IInv, Private
<1>1. /\ pc[t] = "p_wait" /\ refs = 0
      /\ UNCHANGED <<refs, flag, idx, memory, mut, locals, curref, queries, pushed>>
  BY DEF PushWait, At
<1>2. \/ pc' = [pc EXCEPT ![t] = "p_copy"]
      \/ /\ pc' = [pc EXCEPT ![t] = "p_own"] /\ endidx[t] <= size
         /\ putpos[t] < endidx[t]
      \/ pc' = [pc EXCEPT ![t] = "p_unflag"]
  BY DEF PushWait, IntoLoop, Goto
<1>3. \A u \in Threads : pc[u] \in MutexLocs => u = t
  BY <1>1, OnlyMutexHolder DEF MutexLocs, FlagLocs, ResizerLocs
<1>4. MutexHeld'
  BY <1>1, <1>2 DEF TypeOK, Common, MutexHeld, MutexLocs, FlagLocs, ResizerLocs
<1>5. Holders' = Holders /\ Holders = {}
  BY <1>1, <1>2, HoldersFinite DEF TypeOK, Common, RefsExact, Holders
<1>6. Resizers' = {t}
  BY <1>2, <1>3 DEF TypeOK, Resizers, MutexLocs, FlagLocs, ResizerLocs
<1>7. flag
  BY <1>1 DEF Common, RefsExact
<1>8. RefsExact'
  BY <1>1, <1>5, <1>6, <1>7 DEF Common, RefsExact
<1>9. ResizerIsAlone'
  BY <1>5, <1>6 DEF ResizerIsAlone
<1>10. TypeOK'
  BY <1>1, <1>2 DEF TypeOK, Locations, memory, locals
<1>11. WritesInBounds'
  BY <1>1, <1>2 DEF TypeOK, WritesInBounds, memory, locals
<1>12. CopyIsTrue' /\ NothingLost'
  BY <1>1, <1>2, SameContents DEF TypeOK
<1>. QED
  BY <1>4, <1>8, <1>9, <1>10, <1>11, <1>12 DEF Common

\* A resize copies what is there and puts it in place, with room for the range.
LEMMA ResizeInvariant ==
  ASSUME IInv, NEW t \in Threads, ResizeCopy(t) \/ ResizeInstall(t)
  PROVE  IInv'
<1>. USE DEF IInv, Private
<1>1. UNCHANGED <<refs, flag, idx, mut, locals, curref, queries, pushed>>
  BY DEF ResizeCopy, ResizeInstall
<1>2. \/ pc[t] = "p_copy" /\ pc' = [pc EXCEPT ![t] = "p_install"]
      \/ /\ pc[t] = "p_install" /\ pc' = [pc EXCEPT ![t] = "p_own"]
         /\ putpos[t] < endidx[t]
      \/ pc[t] = "p_install" /\ pc' = [pc EXCEPT ![t] = "p_unflag"]
  BY DEF ResizeCopy, ResizeInstall, IntoLoop, At, Goto
<1>3. MutexHeld' /\ RefsExact' /\ ResizerIsAlone'
  <2>1. PICK to \in {"p_install", "p_own", "p_unflag"} : pc' = [pc EXCEPT ![t] = to]
    BY <1>2
  <2>2. /\ to \in Locations
        /\ to \in HolderLocs <=> pc[t] \in HolderLocs
        /\ to \in ResizerLocs <=> pc[t] \in ResizerLocs
        /\ to \in FlagLocs <=> pc[t] \in FlagLocs
        /\ to \in MutexLocs => pc[t] \in MutexLocs
    BY <1>2, <2>1 DEF Locations, HolderLocs, ResizerLocs, FlagLocs, MutexLocs
  <2>. QED
    BY <1>1, <2>1, <2>2, KeepRole
<1>4. \A u \in Threads : pc[u] \in MutexLocs => u = t
  BY <1>2, OnlyMutexHolder DEF MutexLocs, FlagLocs, ResizerLocs
<1>5. /\ container' = container
      /\ resized' = container \/ resized' = Nothing
      /\ size' \in Nat /\ size <= size'
      /\ pc[t] = "p_install" => endidx[t] <= size'
  <2>1. CASE pc[t] = "p_copy"
    BY <2>1 DEF ResizeCopy, ResizeInstall, At, TypeOK
  <2>2. CASE pc[t] = "p_install"
    <3>1. /\ \/ size' = endidx[t] /\ endidx[t] > size * Scale
             \/ size' = size * Scale /\ ~(endidx[t] > size * Scale)
          /\ container' = resized /\ resized' = Nothing
      BY <2>2 DEF ResizeCopy, ResizeInstall, At
    <3>2. size \in Nat /\ endidx[t] \in Nat /\ Scale \in Nat \ {0}
      BY PushBackAssumption DEF TypeOK
    <3>3. size * Scale \in Nat /\ size <= size * Scale
      BY <3>2, ScaleGrows
    <3>4. resized = container
      BY <2>2 DEF Common, CopyIsTrue
    <3>. QED
      BY <3>1, <3>2, <3>3, <3>4
  <2>. QED
    BY <1>2, <2>1, <2>2
<1>6. TypeOK'
  <2>1. Nothing \in Elements
    BY DEF Nothing, Elements
  <2>2. pc' \in [Threads -> Locations]
    BY <1>2 DEF TypeOK, Locations
  <2>. QED
    BY <1>1, <1>5, <2>1, <2>2 DEF TypeOK, locals
<1>8. WritesInBounds'
  <2>. SUFFICES ASSUME NEW u \in Threads, pc'[u] \in {"p_write", "p_own"}
                PROVE  putpos[u] < endidx[u] /\ endidx[u] <= size'
    BY <1>1 DEF WritesInBounds, locals
  <2>1. CASE u = t
    <3>1. pc[t] = "p_install"
      BY <1>2, <2>1 DEF TypeOK
    <3>. QED
      BY <1>2, <1>5, <2>1, <3>1 DEF TypeOK
  <2>2. CASE u # t
    <3>1. pc[u] \in {"p_write", "p_own"}
      BY <1>2, <2>2 DEF TypeOK
    <3>. QED
      BY <1>5, <3>1 DEF WritesInBounds, TypeOK
  <2>. QED
    BY <2>1, <2>2
<1>9. CopyIsTrue'
  <2>1. CASE pc[t] = "p_copy"
    <3>1. resized' = container
      BY <2>1 DEF ResizeCopy, ResizeInstall, At
    <3>. QED
      BY <1>5, <3>1 DEF CopyIsTrue
  <2>2. CASE pc[t] = "p_install"
    <3>1. \A u \in Threads : pc'[u] # "p_install"
      BY <1>2, <1>4, <2>2 DEF TypeOK, MutexLocs, FlagLocs, ResizerLocs
    <3>. QED
      BY <3>1 DEF CopyIsTrue
  <2>. QED
    BY <1>2, <2>1, <2>2
<1>10. NothingLost'
  BY <1>1, <1>5, PushBackAssumption DEF TypeOK, NothingLost, Positions
<1>. QED
  BY <1>3, <1>6, <1>8, <1>9, <1>10 DEF Common

\* Every step of every thread keeps the invariant.
THEOREM StepInvariant == IInv /\ [Next]_vars => IInv'
<1>. SUFFICES ASSUME IInv, [Next]_vars PROVE IInv'
  OBVIOUS
<1>1. CASE UNCHANGED vars
  <2>1. UNCHANGED <<refs, flag, idx, size, container, resized, mut, pc, putpos, endidx,
                    curref, queries, pushed>>
    BY <1>1 DEF vars, memory, locals
  <2>2. Holders' = Holders /\ Resizers' = Resizers
    BY <2>1 DEF Holders, Resizers
  <2>3. Private' /\ NothingLost'
    BY <2>1 DEF IInv, Private, TypeOK, WritesInBounds, NothingLost
  <2>4. Common'
    BY <2>1, <2>2 DEF IInv, Common, MutexHeld, RefsExact, ResizerIsAlone, CopyIsTrue
  <2>. QED
    BY <2>3, <2>4 DEF IInv
<1>2. CASE SetSize
  <2>1. /\ UNCHANGED <<refs, flag, memory, mut, pc, locals, curref, pushed>>
        /\ idx' \in 0 .. MaxIdx /\ queries' \in 0 .. MaxQueries
    BY <1>2, PushBackAssumption DEF SetSize, IInv, Private, TypeOK
  <2>2. Holders' = Holders /\ Resizers' = Resizers
    BY <2>1 DEF Holders, Resizers
  <2>3. Private' /\ NothingLost'
    BY <2>1 DEF IInv, Private, TypeOK, WritesInBounds, NothingLost, memory, locals
  <2>4. Common'
    BY <2>1, <2>2 DEF IInv, Common, MutexHeld, RefsExact, ResizerIsAlone, CopyIsTrue, memory
  <2>. QED
    BY <2>3, <2>4 DEF IInv
<1>3. ASSUME NEW t \in Threads, CallPush(t) \/ CallQuery(t) \/ Step(t) PROVE IInv'
  BY <1>3, ReadInvariant, CasInvariant, DropInvariant, WriteInvariant, MutexInvariant,
     FlagInvariant, WaitInvariant, ResizeInvariant DEF Step
<1>. QED
  BY <1>1, <1>2, <1>3 DEF Next

-----------------------------------------------------------------------------
\* The invariant holds in every reachable state.
THEOREM Invariance == Spec => []IInv
<1>. QED
  BY InitInvariant, StepInvariant, PTL DEF Spec

\* Every variable keeps its type; the count of references, which the code
\* keeps in one integer with the flag, neither falls below zero nor carries
\* into the flag's bit, as long as there are fewer threads than that bit.
THEOREM TypeCorrect == Spec => []TypeOK
<1>1. IInv => TypeOK
  BY DEF IInv, Private
<1>. QED
  BY <1>1, Invariance, PTL

\* The thread that resizes has the container for itself, as the comment
\* "we are exclusive here" says.
THEOREM ResizerAlwaysAlone == Spec => []ResizerIsAlone
<1>1. IInv => ResizerIsAlone
  BY DEF IInv, Common
<1>. QED
  BY <1>1, Invariance, PTL

\* reference_count always says who has a reference and whether somebody wants
\* the container for itself.
THEOREM RefsAlwaysExact == Spec => []RefsExact
<1>1. IInv => RefsExact
  BY DEF IInv, Common
<1>. QED
  BY <1>1, Invariance, PTL

\* No push ever writes beyond the container.
THEOREM WritesAlwaysInBounds == Spec => []WritesInBounds
<1>1. IInv => WritesInBounds
  BY DEF IInv, Private
<1>. QED
  BY <1>1, Invariance, PTL

\* No element that a push wrote is lost in any number of resizes.
THEOREM NothingEverLost == Spec => []NothingLost
<1>1. IInv => NothingLost
  BY DEF IInv
<1>. QED
  BY <1>1, Invariance, PTL
=============================================================================
