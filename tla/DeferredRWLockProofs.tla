------------------------ MODULE DeferredRWLockProofs ------------------------
(***************************************************************************)
(* For any finite set of threads: the counters of the lock are exact, its  *)
(* queue is served, and it is a readers/writer lock, until the walk of     *)
(* complete_rdlock runs off the end of the list.                           *)
(***************************************************************************)
EXTENDS DeferredRWLock, FiniteSetTheorems, SequenceTheorems, TLAPS

(* Who holds the lock when the threads are in the statuses st.              *)
ReadHolders(st)  == {t \in Threads : st[t] \in {"reading", "rdunlock"}}
WriteHolders(st) == {t \in Threads : st[t] \in {"writing", "wrunlock"}}

(* The inductive invariant: the properties, and that writers do not share.  *)
OneWriter == ~crashed => \A s, t \in WriteHolders(status) : s = t

IInv == TypeOK /\ HoldersExact /\ QueueIsServed /\ OneWriter

NoRepeats(q) == \A i, j \in DOMAIN q : q[i] = q[j] => i = j

-----------------------------------------------------------------------------
(* The elements of a sequence that are kept when others are taken out.      *)

Rank(K, i) == Cardinality({j \in K : j <= i})

\* The n-th element of a set is there, each is the n-th for its rank, and
\* they follow each other in their order.
LEMMA NthProperties ==
  ASSUME NEW K \in SUBSET Nat, IsFiniteSet(K)
  PROVE  /\ \A n \in 1 .. Cardinality(K) : Nth(K, n) \in K /\ Rank(K, Nth(K, n)) = n
         /\ \A i \in K : Rank(K, i) \in 1 .. Cardinality(K) /\ Nth(K, Rank(K, i)) = i
         /\ \A m, n \in 1 .. Cardinality(K) : m < n => Nth(K, m) < Nth(K, n)
<1>. DEFINE UpTo(i) == {j \in K : j <= i}
            f == [i \in K |-> Rank(K, i)]
<1>0. \A i \in K : i \in Nat
  OBVIOUS
<1>1. Cardinality(K) \in Nat
  BY FS_CardinalityType
<1>2. ASSUME NEW i \in K
      PROVE  /\ IsFiniteSet(UpTo(i)) /\ Rank(K, i) = Cardinality(UpTo(i))
             /\ Rank(K, i) \in 1 .. Cardinality(K)
  <2>1. UpTo(i) \in SUBSET K /\ i \in UpTo(i)
    BY <1>0
  <2>2. IsFiniteSet(UpTo(i)) /\ Cardinality(UpTo(i)) <= Cardinality(K)
    BY <2>1, FS_Subset
  <2>3. Cardinality(UpTo(i)) \in Nat /\ Cardinality(UpTo(i)) # 0
    BY <2>1, <2>2, FS_CardinalityType, FS_EmptySet
  <2>. QED
    BY <1>1, <2>2, <2>3 DEF Rank
<1>3. ASSUME NEW i \in K, NEW k \in K, i < k
      PROVE  Rank(K, i) < Rank(K, k)
  <2>1. UpTo(i) \in SUBSET UpTo(k) /\ k \in UpTo(k) /\ k \notin UpTo(i)
    <3>1. i \in Nat /\ k \in Nat
      BY <1>0
    <3>2. \A j \in K : j <= i => j <= k
      BY <1>0, <1>3, <3>1
    <3>3. k <= k /\ ~(k <= i)
      BY <1>3, <3>1
    <3>. QED
      BY <3>2, <3>3
  <2>2. Cardinality(UpTo(i)) <= Cardinality(UpTo(k)) /\ Cardinality(UpTo(k)) # Cardinality(UpTo(i))
    BY <1>2, <2>1, FS_Subset
  <2>. QED
    BY <1>1, <1>2, <2>2
<1>. HIDE DEF UpTo
<1>9. \A i \in K : Rank(K, i) \in 1 .. Cardinality(K) /\ Rank(K, i) \in Nat
  BY <1>1, <1>2
<1>4. f \in Injection(K, 1 .. Cardinality(K))
  <2>1. f \in [K -> 1 .. Cardinality(K)]
    BY <1>9
  <2>2. \A i, k \in K : f[i] = f[k] => i = k
    <3>. SUFFICES ASSUME NEW i \in K, NEW k \in K, f[i] = f[k], i # k PROVE FALSE
      OBVIOUS
    <3>1. i < k \/ k < i
      BY <1>0
    <3>2. Rank(K, i) = Rank(K, k)
      OBVIOUS
    <3>3. Rank(K, i) \in Nat /\ Rank(K, k) \in Nat
      BY <1>9
    <3>. QED
      BY <1>3, <3>1, <3>2, <3>3
  <2>. QED
    BY <2>1, <2>2 DEF Injection, IsInjective
<1>5. f \in Surjection(K, 1 .. Cardinality(K))
  <2>1. IsFiniteSet(1 .. Cardinality(K)) /\ Cardinality(1 .. Cardinality(K)) = Cardinality(K)
    BY <1>1, FS_Interval
  <2>. QED
    BY <1>4, <2>1, FS_Injection
<1>6. ASSUME NEW n \in 1 .. Cardinality(K) PROVE Nth(K, n) \in K /\ Rank(K, Nth(K, n)) = n
  <2>1. \E i \in K : Rank(K, i) = n
    BY <1>5 DEF Surjection
  <2>. QED
    BY <2>1 DEF Nth, Rank
<1>7. ASSUME NEW i \in K PROVE Nth(K, Rank(K, i)) = i
  <2>1. Rank(K, Nth(K, Rank(K, i))) = Rank(K, i) /\ Nth(K, Rank(K, i)) \in K
    BY <1>2, <1>6
  <2>. QED
    BY <1>4, <2>1 DEF Injection, IsInjective
<1>8. ASSUME NEW m \in 1 .. Cardinality(K), NEW n \in 1 .. Cardinality(K), m < n
      PROVE  Nth(K, m) < Nth(K, n)
  <2>1. /\ Nth(K, m) \in K /\ Rank(K, Nth(K, m)) = m
        /\ Nth(K, n) \in K /\ Rank(K, Nth(K, n)) = n
    BY <1>6
  <2>2. Nth(K, m) \in Nat /\ Nth(K, n) \in Nat
    BY <1>0, <2>1
  <2>3. Nth(K, n) # Nth(K, m)
    BY <1>8, <2>1
  <2>4. CASE Nth(K, n) < Nth(K, m)
    <3>1. Rank(K, Nth(K, n)) < Rank(K, Nth(K, m))
      BY <1>3, <2>1, <2>4
    <3>. QED
      BY <1>1, <1>8, <2>1, <3>1
  <2>. QED
    BY <2>2, <2>3, <2>4
<1>. QED
  BY <1>2, <1>6, <1>7, <1>8

\* Without() takes exactly the elements of S out and keeps the order.
LEMMA WithoutProperties ==
  ASSUME NEW T, NEW s \in Seq(T), NEW S
  PROVE  /\ Without(s, S) \in Seq(T)
         /\ ElementsOf(Without(s, S)) = ElementsOf(s) \ S
         /\ NoRepeats(s) => NoRepeats(Without(s, S))
<1>. DEFINE kept == {i \in DOMAIN s : s[i] \notin S}
            card == Cardinality(kept)
            r == Without(s, S)
<1>1. Len(s) \in Nat /\ DOMAIN s = 1 .. Len(s)
  OBVIOUS
<1>2. kept \in SUBSET (1 .. Len(s)) /\ kept \in SUBSET Nat /\ IsFiniteSet(kept)
  <2>1. kept \in SUBSET (1 .. Len(s)) /\ kept \in SUBSET Nat
    <3>1. \A i \in kept : i \in 1 .. Len(s)
      BY <1>1
    <3>. QED
      BY <1>1, <3>1
  <2>2. IsFiniteSet(1 .. Len(s))
    BY <1>1, FS_Interval
  <2>. QED
    BY <2>1, <2>2, FS_Subset
<1>3. card \in Nat
  BY <1>2, FS_CardinalityType
<1>4. r = [n \in 1 .. card |-> s[Nth(kept, n)]]
  BY DEF Without
<1>5. /\ \A n \in 1 .. card : Nth(kept, n) \in kept /\ Rank(kept, Nth(kept, n)) = n
      /\ \A i \in kept : Rank(kept, i) \in 1 .. card /\ Nth(kept, Rank(kept, i)) = i
  BY <1>2, NthProperties
<1>. HIDE DEF kept, card, r
<1>6. r \in Seq(T) /\ DOMAIN r = 1 .. card
  <2>1. \A n \in 1 .. card : Nth(kept, n) \in 1 .. Len(s)
    BY <1>2, <1>5
  <2>2. \A n \in 1 .. card : s[Nth(kept, n)] \in T
    BY <2>1
  <2>. QED
    BY <1>3, <1>4, <2>2
<1>7. ElementsOf(r) = ElementsOf(s) \ S
  <2>1. ASSUME NEW e \in ElementsOf(r) PROVE e \in ElementsOf(s) \ S
    BY <1>4, <1>5, <1>6 DEF ElementsOf, kept
  <2>2. ASSUME NEW e \in ElementsOf(s) \ S PROVE e \in ElementsOf(r)
    <3>1. PICK i \in kept : s[i] = e
      BY DEF ElementsOf, kept
    <3>2. r[Rank(kept, i)] = e /\ Rank(kept, i) \in DOMAIN r
      BY <1>4, <1>5, <1>6, <3>1
    <3>. QED
      BY <3>2 DEF ElementsOf
  <2>. QED
    BY <2>1, <2>2
<1>8. NoRepeats(s) => NoRepeats(r)
  BY <1>4, <1>5, <1>6 DEF NoRepeats, kept
<1>. QED
  BY <1>6, <1>7, <1>8 DEF r

-----------------------------------------------------------------------------
(* The parts of the operations.                                            *)

\* A position that is looked for is there.
LEMMA PositionFound ==
  ASSUME NEW q, NEW e \in ElementsOf(q)
  PROVE  Position(q, e) \in DOMAIN q /\ q[Position(q, e)] = e
BY DEF ElementsOf, Position

\* A request that is appended is there once, and it may cut others off.
LEMMA AppendAtTailProperties ==
  ASSUME NEW q \in Seq(Threads), NoRepeats(q), NEW tl,
         NEW t \in Threads, t \notin ElementsOf(q)
  PROVE  /\ AppendAtTail(q, tl, t) \in Seq(Threads)
         /\ AppendAtTail(q, tl, t) # <<>>
         /\ NoRepeats(AppendAtTail(q, tl, t))
         /\ ElementsOf(AppendAtTail(q, tl, t)) \subseteq ElementsOf(q) \cup {t}
<1>1. CASE q # <<>> /\ tl \in ElementsOf(q)
  <2>. DEFINE p == Position(q, tl)
              f == SubSeq(q, 1, p)
  <2>1. p \in 1 .. Len(q) /\ Len(q) \in Nat
    BY <1>1, PositionFound
  <2>2. f \in Seq(Threads) /\ Len(f) = p /\ \A i \in 1 .. p : f[i] = q[i]
    BY <2>1, SubSeqProperties
  <2>. HIDE DEF p, f
  <2>3. AppendAtTail(q, tl, t) = Append(f, t)
    BY <1>1 DEF AppendAtTail, f, p
  <2>4. /\ Append(f, t) \in Seq(Threads) /\ Append(f, t) # <<>>
        /\ DOMAIN Append(f, t) = 1 .. p + 1
        /\ \A i \in 1 .. p : Append(f, t)[i] = q[i]
        /\ Append(f, t)[p + 1] = t
    BY <2>1, <2>2, AppendProperties
  <2>5. \A i \in 1 .. p : i \in DOMAIN q /\ q[i] # t
    BY <2>1 DEF ElementsOf
  <2>6. \A i \in 1 .. p + 1 : i \in 1 .. p \/ i = p + 1
    BY <2>1
  <2>7. NoRepeats(Append(f, t))
    BY <2>4, <2>5, <2>6 DEF NoRepeats
  <2>8. ElementsOf(Append(f, t)) \subseteq ElementsOf(q) \cup {t}
    BY <2>4, <2>5, <2>6 DEF ElementsOf
  <2>. QED
    BY <2>3, <2>4, <2>7, <2>8
<1>2. CASE q = <<>>
  BY <1>2 DEF AppendAtTail, NoRepeats, ElementsOf
<1>3. CASE q # <<>> /\ tl \notin ElementsOf(q)
  BY <1>3 DEF AppendAtTail
<1>. QED
  BY <1>1, <1>2, <1>3

\* A request that is put in front is there once.
LEMMA PushProperties ==
  ASSUME NEW q \in Seq(Threads), NoRepeats(q), NEW t \in Threads, t \notin ElementsOf(q)
  PROVE  /\ <<t>> \o q \in Seq(Threads)
         /\ <<t>> \o q # <<>>
         /\ NoRepeats(<<t>> \o q)
         /\ ElementsOf(<<t>> \o q) \subseteq ElementsOf(q) \cup {t}
<1>. DEFINE r == <<t>> \o q
<1>1. /\ r \in Seq(Threads) /\ Len(q) \in Nat /\ DOMAIN r = 1 .. Len(q) + 1
      /\ r[1] = t /\ \A i \in 2 .. Len(q) + 1 : r[i] = q[i - 1]
  <2>1. <<t>> \in Seq(Threads) /\ Len(<<t>>) = 1 /\ <<t>>[1] = t
    OBVIOUS
  <2>. QED
    BY <2>1, ConcatProperties
<1>. HIDE DEF r
<1>2. \A i \in 1 .. Len(q) + 1 : i = 1 \/ (i \in 2 .. Len(q) + 1 /\ i - 1 \in DOMAIN q)
  BY <1>1
<1>3. \A i \in DOMAIN q : q[i] # t
  BY DEF ElementsOf
<1>4. NoRepeats(r)
  <2>. SUFFICES ASSUME NEW i \in DOMAIN r, NEW j \in DOMAIN r, r[i] = r[j] PROVE i = j
    BY DEF NoRepeats
  <2>1. CASE i = 1 \/ j = 1
    BY <1>1, <1>2, <1>3, <2>1
  <2>2. CASE i # 1 /\ j # 1
    <3>1. i - 1 \in DOMAIN q /\ j - 1 \in DOMAIN q /\ q[i - 1] = q[j - 1]
      BY <1>1, <1>2, <2>2
    <3>2. i - 1 = j - 1
      BY <3>1 DEF NoRepeats
    <3>. QED
      BY <1>1, <3>2
  <2>. QED
    BY <2>1, <2>2
<1>5. ElementsOf(r) \subseteq ElementsOf(q) \cup {t}
  BY <1>1, <1>2 DEF ElementsOf
<1>6. r # <<>>
  BY <1>1
<1>. QED
  BY <1>1, <1>4, <1>5, <1>6 DEF r

\* The head of a queue is one of its requests, and no other has its position.
LEMMA HeadAndTail ==
  ASSUME NEW q \in Seq(Threads), q # <<>>, NoRepeats(q)
  PROVE  /\ 1 \in DOMAIN q /\ Head(q) = q[1]
         /\ Tail(q) \in Seq(Threads) /\ NoRepeats(Tail(q))
         /\ ElementsOf(Tail(q)) \subseteq ElementsOf(q) \ {Head(q)}
<1>1. /\ Len(q) \in Nat \ {0} /\ DOMAIN q = 1 .. Len(q) /\ Head(q) = q[1]
      /\ Tail(q) \in Seq(Threads) /\ DOMAIN Tail(q) = 1 .. Len(q) - 1
      /\ \A i \in 1 .. Len(q) - 1 : Tail(q)[i] = q[i + 1]
  <2>1. Len(q) \in Nat \ {0} /\ DOMAIN q = 1 .. Len(q) /\ Head(q) = q[1]
    BY EmptySeq
  <2>2. /\ Tail(q) \in Seq(Threads) /\ Len(Tail(q)) = Len(q) - 1
        /\ \A i \in 1 .. Len(Tail(q)) : Tail(q)[i] = q[i + 1]
    BY HeadTailProperties
  <2>. QED
    BY <2>1, <2>2
<1>2. \A i \in 1 .. Len(q) - 1 : i \in Nat /\ i + 1 \in DOMAIN q /\ i + 1 # 1
  BY <1>1
<1>3. NoRepeats(Tail(q))
  <2>. SUFFICES ASSUME NEW i \in DOMAIN Tail(q), NEW j \in DOMAIN Tail(q), Tail(q)[i] = Tail(q)[j]
                PROVE  i = j
    BY DEF NoRepeats
  <2>1. i + 1 = j + 1
    BY <1>1, <1>2 DEF NoRepeats
  <2>. QED
    BY <1>1, <1>2, <2>1
<1>4. ElementsOf(Tail(q)) \subseteq ElementsOf(q) \ {Head(q)}
  BY <1>1, <1>2 DEF ElementsOf, NoRepeats
<1>. QED
  BY <1>1, <1>3, <1>4


(* What a grant does to the statuses: some that were pending read, or one   *)
(* that was pending writes.                                                 *)
GrantsReaders(st) ==
  \E S \in SUBSET Threads :
    /\ S # {}
    /\ \A u \in S : st[u] = "pending"
    /\ status' = [u \in Threads |-> IF u \in S THEN "reading" ELSE st[u]]

GrantsWriter(st) ==
  \E u \in Threads :
    /\ st[u] = "pending"
    /\ status' = [st EXCEPT ![u] = "writing"]

(* The invariant once the program went on, about the next state.            *)
Holding == IInv /\ ~crashed

\* Those who hold the lock for reading are finitely many.
LEMMA ReadHoldersFinite ==
  ASSUME NEW st
  PROVE  /\ IsFiniteSet(ReadHolders(st)) /\ Cardinality(ReadHolders(st)) \in Nat
         /\ Cardinality(ReadHolders(st)) <= Cardinality(Threads)
         /\ Cardinality(ReadHolders(st)) = 0 <=> ReadHolders(st) = {}
<1>1. IsFiniteSet(Threads) /\ ReadHolders(st) \in SUBSET Threads
  BY ThreadsAssumption DEF ReadHolders
<1>2. IsFiniteSet(ReadHolders(st)) /\ Cardinality(ReadHolders(st)) <= Cardinality(Threads)
  BY <1>1, FS_Subset
<1>. QED
  BY <1>2, FS_CardinalityType, FS_EmptySet

\* complete_rdlock, when its walk ends: the readers it let in are counted,
\* and the requests that stay in the queue have somebody who serves them.
LEMMA CompleteReads ==
  ASSUME ~crashed, NEW q \in Seq(Threads), q # <<>>, NoRepeats(q), NEW tl \in Threads,
         NEW class \in [Threads -> {"READ", "WRITE"}], class[Head(q)] = "READ",
         lockclass' = class,
         NEW st \in [Threads -> Statuses], \A u \in ElementsOf(q) : st[u] = "pending",
         WriteHolders(st) = {}, MeetsTail(q, tl, class),
         CompleteRdlock(q, tl, class, Cardinality(ReadHolders(st)), FALSE, st)
  PROVE  Holding' /\ GrantsReaders(st)
<1>. DEFINE released == PassedReaders(q, tl, class)
<1>1. 1 \in DOMAIN q /\ Head(q) = q[1] /\ Len(q) \in Nat /\ DOMAIN q = 1 .. Len(q)
  BY HeadAndTail
<1>2. released \subseteq ElementsOf(q) /\ Head(q) \in released
  <2>. DEFINE end == IF AllReaders(q, class) THEN Len(q) ELSE Position(q, tl)
  <2>1. CASE AllReaders(q, class)
    BY <1>1, <2>1 DEF PassedReaders, ElementsOf
  <2>2. CASE ~AllReaders(q, class)
    <3>1. tl \in ElementsOf(q)
      BY <2>2 DEF MeetsTail, ElementsOf
    <3>2. Position(q, tl) \in 1 .. Len(q)
      BY <1>1, <3>1, PositionFound
    <3>3. released = {q[i] : i \in {k \in 1 .. Position(q, tl) : class[q[k]] = "READ"}}
      BY <2>2 DEF PassedReaders
    <3>4. \A i \in 1 .. Position(q, tl) : i \in DOMAIN q
      BY <1>1, <3>2
    <3>. QED
      BY <1>1, <3>2, <3>3, <3>4 DEF ElementsOf
  <2>. QED
    BY <2>1, <2>2
<1>3. AllReaders(q, class) => released = ElementsOf(q)
  BY <1>1 DEF AllReaders, PassedReaders, ElementsOf
<1>. HIDE DEF released
<1>4. /\ queue' = Without(q, released)
      /\ tail' = IF AllReaders(q, class) THEN NULL ELSE tl
      /\ reader_count' = Cardinality(ReadHolders(st)) + Cardinality(released)
      /\ writer' = FALSE
      /\ status' = [u \in Threads |-> IF u \in released THEN "reading" ELSE st[u]]
      /\ crashed' = FALSE
  BY DEF CompleteRdlock, NumCompleted, released
<1>5. ElementsOf(q) \subseteq Threads
  BY <1>1 DEF ElementsOf
<1>6. status' \in [Threads -> Statuses]
  BY <1>4 DEF Statuses
<1>7. /\ ReadHolders(status)' = ReadHolders(st) \cup released
      /\ WriteHolders(status)' = {}
      /\ ReadHolders(st) \cap released = {}
  BY <1>2, <1>4, <1>5 DEF ReadHolders, WriteHolders
<1>8. reader_count' = Cardinality(ReadHolders(status)')
  <2>1. IsFiniteSet(released)
    BY <1>2, <1>5, ThreadsAssumption, FS_Subset
  <2>2. Cardinality(ReadHolders(st) \cup released)
          = Cardinality(ReadHolders(st)) + Cardinality(released) - Cardinality(ReadHolders(st) \cap released)
    BY <2>1, ReadHoldersFinite, FS_Union
  <2>3. Cardinality(ReadHolders(st) \cap released) = 0
    BY <1>7, FS_EmptySet
  <2>4. Cardinality(ReadHolders(st)) \in Nat /\ Cardinality(released) \in Nat
    BY <2>1, ReadHoldersFinite, FS_CardinalityType
  <2>5. reader_count' = Cardinality(ReadHolders(st) \cup released)
    BY <1>4, <2>2, <2>3, <2>4
  <2>. QED
    BY <1>7, <2>5
<1>9. reader_count' \in 0 .. Cardinality(Threads) /\ reader_count' # 0
  <2>1. /\ Cardinality(ReadHolders(status')) \in Nat
        /\ Cardinality(ReadHolders(status')) <= Cardinality(Threads)
        /\ Cardinality(ReadHolders(status')) = 0 <=> ReadHolders(status') = {}
    BY ReadHoldersFinite
  <2>2. ReadHolders(status)' = ReadHolders(status')
    BY DEF ReadHolders
  <2>3. ReadHolders(status') # {}
    BY <1>2, <1>7, <2>2
  <2>4. Cardinality(Threads) \in Nat
    BY ThreadsAssumption, FS_CardinalityType
  <2>. QED
    BY <1>8, <2>1, <2>2, <2>3, <2>4
<1>10. /\ queue' \in Seq(Threads) /\ NoRepeats(queue')
       /\ ElementsOf(queue') = ElementsOf(q) \ released
  BY <1>4, WithoutProperties
<1>11. queue' # <<>> => tail' # NULL
  <2>. SUFFICES ASSUME queue' # <<>> PROVE tail' # NULL
    OBVIOUS
  <2>1. ElementsOf(queue') # {}
    BY <1>10, EmptySeq DEF ElementsOf
  <2>2. ~AllReaders(q, class)
    BY <1>3, <1>10, <2>1
  <2>. QED
    BY <1>4, <2>2, ThreadsAssumption
<1>12. TypeOK'
  BY <1>4, <1>6, <1>9, <1>10 DEF TypeOK
<1>13. HoldersExact'
  BY <1>4, <1>7, <1>8 DEF HoldersExact, ReadHolders, WriteHolders
<1>14. QueueIsServed'
  <2>1. ElementsOf(queue') \subseteq Pending'
    BY <1>4, <1>5, <1>10 DEF Pending
  <2>2. reader_count' > 0
    BY <1>9
  <2>. QED
    BY <1>10, <1>11, <2>1, <2>2 DEF QueueIsServed, NoRepeats, ElementsOf
<1>15. OneWriter'
  BY <1>7 DEF OneWriter
<1>16. GrantsReaders(st)
  BY <1>2, <1>4, <1>5 DEF GrantsReaders
<1>. QED
  BY <1>4, <1>12, <1>13, <1>14, <1>15, <1>16 DEF Holding, IInv


\* complete_wrlock.
LEMMA CompleteWrite ==
  ASSUME ~crashed, NEW q \in Seq(Threads), q # <<>>, NoRepeats(q), NEW tl \in Threads,
         NEW st \in [Threads -> Statuses], \A u \in ElementsOf(q) : st[u] = "pending",
         ReadHolders(st) = {}, WriteHolders(st) = {},
         lockclass' \in [Threads -> {"READ", "WRITE"}],
         CompleteWrlock(q, tl, 0, st)
  PROVE  Holding' /\ GrantsWriter(st)
<1>1. /\ Head(q) \in Threads /\ Head(q) \in ElementsOf(q) /\ st[Head(q)] = "pending"
      /\ Tail(q) \in Seq(Threads) /\ NoRepeats(Tail(q))
      /\ ElementsOf(Tail(q)) \subseteq ElementsOf(q) \ {Head(q)}
  <2>1. /\ 1 \in DOMAIN q /\ Head(q) = q[1]
        /\ Tail(q) \in Seq(Threads) /\ NoRepeats(Tail(q))
        /\ ElementsOf(Tail(q)) \subseteq ElementsOf(q) \ {Head(q)}
    BY HeadAndTail
  <2>2. q[1] \in Threads /\ q[1] \in ElementsOf(q)
    BY <2>1 DEF ElementsOf
  <2>. QED
    BY <2>1, <2>2
<1>2. /\ queue' = Tail(q) /\ tail' = IF Tail(q) = <<>> THEN NULL ELSE tl
      /\ reader_count' = 0 /\ writer' = TRUE /\ crashed' = FALSE
      /\ status' = [st EXCEPT ![Head(q)] = "writing"]
  BY DEF CompleteWrlock
<1>3. /\ status' \in [Threads -> Statuses]
      /\ status'[Head(q)] = "writing"
      /\ \A u \in Threads \ {Head(q)} : status'[u] = st[u]
  BY <1>1, <1>2 DEF Statuses
<1>4. ReadHolders(status)' = {} /\ WriteHolders(status)' = {Head(q)}
  BY <1>1, <1>3 DEF ReadHolders, WriteHolders
<1>5. TypeOK'
  <2>1. Cardinality(Threads) \in Nat
    BY ThreadsAssumption, FS_CardinalityType
  <2>2. reader_count' \in 0 .. Cardinality(Threads)
    BY <1>2, <2>1
  <2>3. queue' \in Seq(Threads) /\ tail' \in Threads \cup {NULL}
    BY <1>1, <1>2
  <2>. QED
    BY <1>2, <1>3, <2>2, <2>3 DEF TypeOK
<1>6. HoldersExact'
  <2>1. Cardinality(ReadHolders(status)') = 0
    BY <1>4, FS_EmptySet
  <2>2. \E u \in Threads : status'[u] \in {"writing", "wrunlock"}
    BY <1>1, <1>3
  <2>. QED
    BY <1>2, <2>1, <2>2 DEF HoldersExact, ReadHolders
<1>7. QueueIsServed'
  <2>1. ElementsOf(q) \subseteq Threads
    BY DEF ElementsOf
  <2>2. ElementsOf(queue') \subseteq Pending'
    BY <1>1, <1>2, <1>3, <2>1 DEF Pending
  <2>. QED
    BY <1>1, <1>2, <2>2, ThreadsAssumption DEF QueueIsServed, NoRepeats, ElementsOf
<1>8. OneWriter'
  BY <1>4 DEF OneWriter
<1>9. GrantsWriter(st)
  BY <1>1, <1>2 DEF GrantsWriter
<1>. QED
  BY <1>2, <1>5, <1>6, <1>7, <1>8, <1>9 DEF Holding, IInv

\* A program that crashes keeps the types, and nothing else is promised.
LEMMA CrashKeepsTypes ==
  ASSUME TypeOK, lockclass' \in [Threads -> {"READ", "WRITE"}],
         NEW w \in BOOLEAN, Crash(w)
  PROVE  IInv' /\ crashed' /\ status' = status
BY DEF Crash, TypeOK, IInv, HoldersExact, QueueIsServed, OneWriter

\* The last holder hands the lock over.
LEMMA HandOverInvariant ==
  ASSUME Holding, NEW t \in Threads, status[t] \in {"rdunlock", "wrunlock"},
         NEW st, st = [status EXCEPT ![t] = "idle"],
         ReadHolders(st) = {}, WriteHolders(st) = {},
         HandOver(0, st), UNCHANGED lockclass
  PROVE  /\ IInv'
         /\ \/ crashed' /\ status' = status
            \/ status' = st \/ GrantsReaders(st) \/ GrantsWriter(st)
<1>. USE DEF Holding, IInv
<1>1. /\ st \in [Threads -> Statuses]
      /\ queue \in Seq(Threads) /\ NoRepeats(queue)
      /\ ElementsOf(queue) \subseteq Threads
      /\ \A u \in ElementsOf(queue) : st[u] = "pending"
      /\ lockclass \in [Threads -> {"READ", "WRITE"}] /\ lockclass' = lockclass
      /\ queue # <<>> => tail \in Threads
  BY DEF TypeOK, QueueIsServed, NoRepeats, Pending, Statuses, ElementsOf
<1>2. Cardinality(ReadHolders(st)) = 0
  BY FS_EmptySet
<1>3. CASE queue = <<>>
  <2>1. /\ reader_count' = 0 /\ writer' = FALSE /\ status' = st
        /\ UNCHANGED <<queue, tail, crashed>>
    BY <1>3 DEF HandOver
  <2>2. ReadHolders(status)' = {} /\ WriteHolders(status)' = {}
    BY <2>1 DEF ReadHolders, WriteHolders
  <2>3. Cardinality(ReadHolders(status)') = 0 /\ Cardinality(Threads) \in Nat
    BY <2>2, FS_EmptySet, ThreadsAssumption, FS_CardinalityType
  <2>4. TypeOK'
    <3>1. reader_count' \in 0 .. Cardinality(Threads)
      BY <2>1, <2>3
    <3>2. /\ queue' \in Seq(Threads) /\ tail' \in Threads \cup {NULL}
          /\ writer' \in BOOLEAN /\ crashed' \in BOOLEAN
      BY <1>1, <2>1 DEF TypeOK
    <3>. QED
      BY <1>1, <2>1, <3>1, <3>2 DEF TypeOK
  <2>5. HoldersExact' /\ OneWriter'
    BY <2>1, <2>2, <2>3 DEF HoldersExact, OneWriter, ReadHolders, WriteHolders
  <2>6. QueueIsServed'
    BY <1>3, <2>1 DEF QueueIsServed, ElementsOf
  <2>. QED
    BY <2>1, <2>4, <2>5, <2>6
<1>4. CASE queue # <<>> /\ lockclass[Head(queue)] = "READ"
  <2>1. CompleteRdlock(queue, tail, lockclass, 0, FALSE, st)
    BY <1>4 DEF HandOver
  <2>2. CASE MeetsTail(queue, tail, lockclass)
    <3>1. Holding' /\ GrantsReaders(st)
      BY <1>1, <1>2, <1>4, <2>1, <2>2, CompleteReads
    <3>. QED
      BY <3>1
  <2>3. CASE ~MeetsTail(queue, tail, lockclass)
    BY <1>1, <2>1, <2>3, CrashKeepsTypes DEF CompleteRdlock
  <2>. QED
    BY <2>2, <2>3
<1>5. CASE queue # <<>> /\ lockclass[Head(queue)] = "WRITE"
  <2>1. CompleteWrlock(queue, tail, 0, st)
    BY <1>5 DEF HandOver
  <2>2. Holding' /\ GrantsWriter(st)
    BY <1>1, <1>5, <2>1, CompleteWrite
  <2>. QED
    BY <2>2
<1>. QED
  BY <1>3, <1>4, <1>5 DEF HandOver

-----------------------------------------------------------------------------
(* The operations.                                                         *)

\* The counters tell who holds the lock, and who does not wait is not queued.
LEMMA CountersTell ==
  ASSUME Holding
  PROVE  /\ reader_count = Cardinality(ReadHolders(status)) /\ reader_count \in Nat
         /\ reader_count = 0 => ReadHolders(status) = {}
         /\ ~writer => WriteHolders(status) = {}
         /\ writer => reader_count = 0
         /\ queue \in Seq(Threads) /\ NoRepeats(queue)
         /\ \A u \in ElementsOf(queue) : u \in Threads /\ status[u] = "pending"
         /\ queue # <<>> => tail \in Threads /\ (reader_count # 0 \/ writer)
<1>1. /\ reader_count = Cardinality(ReadHolders(status))
      /\ ~writer => WriteHolders(status) = {}
      /\ writer => reader_count = 0
  BY DEF Holding, IInv, HoldersExact, ReadHolders, WriteHolders
<1>2. reader_count \in Nat /\ (reader_count = 0 => ReadHolders(status) = {})
  BY <1>1, ReadHoldersFinite
<1>3. /\ queue \in Seq(Threads) /\ NoRepeats(queue)
      /\ \A u \in ElementsOf(queue) : u \in Threads /\ status[u] = "pending"
  BY DEF Holding, IInv, TypeOK, QueueIsServed, NoRepeats, Pending
<1>4. queue # <<>> => tail \in Threads /\ (reader_count # 0 \/ writer)
  BY <1>2 DEF Holding, IInv, TypeOK, QueueIsServed
<1>. QED
  BY <1>1, <1>2, <1>3, <1>4

(* What a step grants when it has first made st of the statuses.            *)
Grants(st) ==
  \/ status' = st
  \/ WriteHolders(st) = {} /\ GrantsReaders(st)
  \/ WriteHolders(st) = {} /\ ReadHolders(st) = {} /\ GrantsWriter(st)

(* The statuses st have the holders of the lock that are still inside.      *)
SameHolders(st) ==
  \A u \in Threads : \A s \in {"reading", "writing"} : st[u] = s <=> status[u] = s

\* A grant, and a step that grants nothing, is one of the lock's promises.
LEMMA GrantsRefine ==
  ASSUME NEW st \in [Threads -> Statuses], SameHolders(st), Grants(st)
  PROVE  [RW!Next]_(RW!vars)
<1>1. /\ Readers = {u \in Threads : st[u] = "reading"} /\ Readers \subseteq ReadHolders(st)
      /\ Writers = {u \in Threads : st[u] = "writing"} /\ Writers \subseteq WriteHolders(st)
  BY DEF SameHolders, Readers, Writers, ReadHolders, WriteHolders
<1>2. CASE status' = st
  BY <1>1, <1>2 DEF RW!vars, Readers, Writers
<1>3. CASE WriteHolders(st) = {} /\ GrantsReaders(st)
  <2>1. PICK S \in SUBSET Threads :
          /\ S # {} /\ \A u \in S : st[u] = "pending"
          /\ status' = [u \in Threads |-> IF u \in S THEN "reading" ELSE st[u]]
    BY <1>3 DEF GrantsReaders
  <2>2. Readers' = Readers \cup S /\ Writers' = Writers /\ S \cap Readers = {} /\ Writers = {}
    BY <1>1, <1>3, <2>1 DEF Readers, Writers
  <2>. QED
    BY <2>1, <2>2 DEF RW!Next, RW!GrantReaders
<1>4. CASE WriteHolders(st) = {} /\ ReadHolders(st) = {} /\ GrantsWriter(st)
  <2>1. PICK u \in Threads : st[u] = "pending" /\ status' = [st EXCEPT ![u] = "writing"]
    BY <1>4 DEF GrantsWriter
  <2>2. Readers = {} /\ Writers = {}
    BY <1>1, <1>4
  <2>3. Readers' = {} /\ Writers' = {u}
    BY <1>1, <2>1, <2>2 DEF Readers, Writers
  <2>. QED
    BY <2>2, <2>3 DEF RW!Next, RW!GrantWriter
<1>. QED
  BY <1>2, <1>3, <1>4 DEF Grants

\* The fast path of a writer.
LEMMA TakeWriteLockStep ==
  ASSUME Holding, NEW t \in Threads, status[t] = "idle", TakeWriteLock(t),
         lockclass' \in [Threads -> {"READ", "WRITE"}]
  PROVE  IInv' /\ [RW!Next]_(RW!vars)
<1>1. /\ ReadHolders(status) = {} /\ WriteHolders(status) = {} /\ reader_count = 0
      /\ writer' = TRUE /\ status' = [status EXCEPT ![t] = "writing"]
      /\ UNCHANGED <<queue, tail, reader_count, crashed>>
  BY CountersTell DEF TakeWriteLock
<1>2. TypeOK /\ status \in [Threads -> Statuses] /\ ~crashed /\ QueueIsServed
  BY DEF Holding, IInv, TypeOK
<1>3. /\ status' \in [Threads -> Statuses] /\ status'[t] = "writing"
      /\ \A u \in Threads \ {t} : status'[u] = status[u]
  BY <1>1, <1>2 DEF Statuses
<1>4. ReadHolders(status)' = {} /\ WriteHolders(status)' = {t}
  BY <1>1, <1>3 DEF ReadHolders, WriteHolders
<1>5. TypeOK'
  BY <1>1, <1>2, <1>3 DEF TypeOK
<1>6. HoldersExact'
  <2>1. Cardinality(ReadHolders(status)') = 0
    BY <1>4, FS_EmptySet
  <2>2. \E u \in Threads : status'[u] \in {"writing", "wrunlock"}
    BY <1>3
  <2>. QED
    BY <1>1, <2>1, <2>2 DEF HoldersExact, ReadHolders
<1>7. QueueIsServed'
  <2>1. \A u \in Pending : u \in Pending'
    BY <1>2, <1>3 DEF Pending
  <2>. QED
    BY <1>1, <1>2, <2>1 DEF QueueIsServed, ElementsOf
<1>8. OneWriter'
  BY <1>4 DEF OneWriter
<1>9. Readers = {} /\ Writers = {} /\ Readers' = {} /\ Writers' = {t}
  <2>1. \A u \in Threads : status'[u] = "reading" => u \in ReadHolders(status)'
    BY DEF ReadHolders
  <2>2. \A u \in Threads : status'[u] = "writing" <=> u = t
    BY <1>3, <1>4 DEF WriteHolders
  <2>. QED
    BY <1>1, <1>4, <2>1, <2>2 DEF Readers, Writers, ReadHolders, WriteHolders
<1>10. RW!Next
  BY <1>9 DEF RW!Next, RW!GrantWriter
<1>. QED
  BY <1>5, <1>6, <1>7, <1>8, <1>10 DEF IInv

\* The fast path of a reader.
LEMMA TakeReadLockStep ==
  ASSUME Holding, NEW t \in Threads, status[t] = "idle", TakeReadLock(t),
         lockclass' \in [Threads -> {"READ", "WRITE"}]
  PROVE  IInv' /\ [RW!Next]_(RW!vars)
<1>1. /\ reader_count = Cardinality(ReadHolders(status)) /\ reader_count \in Nat
      /\ WriteHolders(status) = {} /\ queue = <<>> /\ ~writer
      /\ reader_count' = reader_count + 1 /\ status' = [status EXCEPT ![t] = "reading"]
      /\ UNCHANGED <<queue, tail, writer, crashed>>
  BY CountersTell DEF TakeReadLock
<1>2. TypeOK /\ status \in [Threads -> Statuses] /\ ~crashed
  BY DEF Holding, IInv, TypeOK
<1>3. /\ status' \in [Threads -> Statuses] /\ status'[t] = "reading"
      /\ \A u \in Threads \ {t} : status'[u] = status[u]
  BY <1>1, <1>2 DEF Statuses
<1>4. /\ ReadHolders(status)' = ReadHolders(status) \cup {t} /\ t \notin ReadHolders(status)
      /\ WriteHolders(status)' = {}
  BY <1>1, <1>3 DEF ReadHolders, WriteHolders
<1>5. reader_count' = Cardinality(ReadHolders(status)')
  <2>1. Cardinality(ReadHolders(status) \cup {t}) = Cardinality(ReadHolders(status)) + 1
    BY <1>4, ReadHoldersFinite, FS_AddElement
  <2>. QED
    BY <1>1, <1>4, <2>1
<1>6. reader_count' \in 0 .. Cardinality(Threads)
  <2>1. Cardinality(ReadHolders(status')) \in Nat /\ Cardinality(ReadHolders(status')) <= Cardinality(Threads)
    BY ReadHoldersFinite
  <2>2. ReadHolders(status)' = ReadHolders(status')
    BY DEF ReadHolders
  <2>3. Cardinality(Threads) \in Nat
    BY ThreadsAssumption, FS_CardinalityType
  <2>. QED
    BY <1>5, <2>1, <2>2, <2>3
<1>7. TypeOK'
  BY <1>1, <1>2, <1>3, <1>6 DEF TypeOK
<1>8. HoldersExact'
  BY <1>1, <1>4, <1>5 DEF HoldersExact, ReadHolders, WriteHolders
<1>9. QueueIsServed'
  BY <1>1 DEF QueueIsServed, ElementsOf
<1>10. OneWriter'
  BY <1>4 DEF OneWriter
<1>11. RW!Next
  <2>1. Writers = {} /\ Readers' = Readers \cup {t} /\ Writers' = {} /\ t \notin Readers
    BY <1>1, <1>3 DEF Readers, Writers, WriteHolders
  <2>2. {t} \in SUBSET Threads /\ {t} # {} /\ {t} \cap Readers = {}
    BY <2>1
  <2>. QED
    BY <2>1, <2>2 DEF RW!Next, RW!GrantReaders
<1>. QED
  BY <1>7, <1>8, <1>9, <1>10, <1>11 DEF IInv

\* A request goes into the queue while somebody holds the lock.
LEMMA QueueStep ==
  ASSUME Holding, NEW t \in Threads, status[t] = "idle", reader_count # 0 \/ writer,
         NEW q \in Seq(Threads), NoRepeats(q), ElementsOf(q) \subseteq ElementsOf(queue) \cup {t},
         NEW tl \in Threads, Queue(t, q, tl), lockclass' \in [Threads -> {"READ", "WRITE"}]
  PROVE  IInv' /\ status' = [status EXCEPT ![t] = "pending"]
<1>1. /\ queue' = q /\ tail' = tl /\ status' = [status EXCEPT ![t] = "pending"]
      /\ UNCHANGED <<reader_count, writer, crashed>>
  BY DEF Queue
<1>2. TypeOK /\ HoldersExact /\ OneWriter /\ ~crashed /\ status \in [Threads -> Statuses]
  BY DEF Holding, IInv, TypeOK
<1>3. /\ status' \in [Threads -> Statuses] /\ status'[t] = "pending"
      /\ \A u \in Threads \ {t} : status'[u] = status[u]
  BY <1>1, <1>2 DEF Statuses
<1>4. ReadHolders(status)' = ReadHolders(status) /\ WriteHolders(status)' = WriteHolders(status)
  BY <1>3 DEF ReadHolders, WriteHolders
<1>5. TypeOK'
  BY <1>1, <1>2, <1>3 DEF TypeOK
<1>6. HoldersExact' /\ OneWriter'
  <2>1. HoldersExact <=> (~crashed => /\ reader_count = Cardinality(ReadHolders(status))
                                      /\ writer <=> WriteHolders(status) # {}
                                      /\ writer => reader_count = 0)
    BY DEF HoldersExact, ReadHolders, WriteHolders
  <2>2. HoldersExact' <=> (~crashed' => /\ reader_count' = Cardinality(ReadHolders(status)')
                                        /\ writer' <=> WriteHolders(status)' # {}
                                        /\ writer' => reader_count' = 0)
    BY DEF HoldersExact, ReadHolders, WriteHolders
  <2>. QED
    BY <1>1, <1>2, <1>4, <2>1, <2>2 DEF OneWriter
<1>7. QueueIsServed'
  <2>1. ElementsOf(queue') \subseteq Pending'
    BY <1>1, <1>3, CountersTell DEF Pending
  <2>2. tl # NULL /\ (reader_count > 0 \/ writer)
    BY ThreadsAssumption, CountersTell
  <2>. QED
    BY <1>1, <2>1, <2>2 DEF QueueIsServed, NoRepeats, ElementsOf
<1>. QED
  BY <1>1, <1>5, <1>6, <1>7 DEF IInv

\* The slow path of a reader, which may let in the readers of the queue.
LEMMA QueueReaderStep ==
  ASSUME Holding, NEW t \in Threads, status[t] = "idle",
         NEW q \in Seq(Threads), q # <<>>, NoRepeats(q),
         ElementsOf(q) \subseteq ElementsOf(queue) \cup {t},
         NEW tl \in Threads, QueueReader(t, q, tl),
         lockclass' \in [Threads -> {"READ", "WRITE"}]
  PROVE  IInv' /\ [RW!Next]_(RW!vars)
<1>. DEFINE st == [status EXCEPT ![t] = "pending"]
<1>1. TypeOK /\ ~crashed /\ status \in [Threads -> Statuses]
  BY DEF Holding, IInv, TypeOK
<1>2. /\ st \in [Threads -> Statuses] /\ st[t] = "pending"
      /\ \A u \in Threads \ {t} : st[u] = status[u]
      /\ SameHolders(st)
  BY <1>1 DEF Statuses, SameHolders
<1>3. \A u \in ElementsOf(q) : st[u] = "pending"
  BY <1>2, CountersTell
<1>4. reader_count # 0 \/ writer
  BY CountersTell DEF QueueReader
<1>5. CASE lockclass'[Head(q)] = "READ" /\ ~writer
  <2>1. ReadHolders(st) = ReadHolders(status) /\ WriteHolders(st) = {}
    BY <1>2, <1>5, CountersTell DEF ReadHolders, WriteHolders
  <2>2. reader_count = Cardinality(ReadHolders(st)) /\ writer = FALSE
    BY <1>1, <1>5, <2>1, CountersTell DEF TypeOK
  <2>3. CompleteRdlock(q, tl, lockclass', Cardinality(ReadHolders(st)), FALSE, st)
    BY <1>5, <2>2 DEF QueueReader
  <2>. HIDE DEF st
  <2>4. CASE MeetsTail(q, tl, lockclass')
    <3>1. Holding' /\ GrantsReaders(st)
      BY <1>1, <1>2, <1>3, <1>5, <2>1, <2>3, <2>4, CompleteReads
    <3>. QED
      BY <1>2, <2>1, <3>1, GrantsRefine DEF Grants, Holding
  <2>5. CASE ~MeetsTail(q, tl, lockclass')
    <3>1. IInv' /\ status' = status
      BY <1>1, <2>3, <2>5, CrashKeepsTypes DEF CompleteRdlock
    <3>. QED
      BY <3>1 DEF RW!vars, Readers, Writers
  <2>. QED
    BY <2>4, <2>5
<1>6. CASE ~(lockclass'[Head(q)] = "READ" /\ ~writer)
  <2>1. Queue(t, q, tl)
    BY <1>6 DEF QueueReader
  <2>2. IInv' /\ status' = st
    BY <1>4, <2>1, QueueStep
  <2>. HIDE DEF st
  <2>. QED
    BY <1>2, <2>2, GrantsRefine DEF Grants
<1>. QED
  BY <1>5, <1>6

\* The queue that a call makes: at the end, or in front for the priority calls.
LEMMA NewQueues ==
  ASSUME Holding, NEW t \in Threads, status[t] = "idle"
  PROVE  /\ AppendAtTail(queue, tail, t) \in Seq(Threads) /\ <<t>> \o queue \in Seq(Threads)
         /\ AppendAtTail(queue, tail, t) # <<>> /\ <<t>> \o queue # <<>>
         /\ NoRepeats(AppendAtTail(queue, tail, t)) /\ NoRepeats(<<t>> \o queue)
         /\ ElementsOf(AppendAtTail(queue, tail, t)) \subseteq ElementsOf(queue) \cup {t}
         /\ ElementsOf(<<t>> \o queue) \subseteq ElementsOf(queue) \cup {t}
         /\ TailAfterPush(queue, tail, t) \in Threads
<1>1. queue \in Seq(Threads) /\ NoRepeats(queue) /\ t \notin ElementsOf(queue)
  BY CountersTell
<1>2. TailAfterPush(queue, tail, t) \in Threads
  BY CountersTell DEF TailAfterPush
<1>. QED
  BY <1>1, <1>2, AppendAtTailProperties, PushProperties

LEMMA CallTypes ==
  ASSUME IInv, NEW t \in Threads, NEW class \in {"READ", "WRITE"}, Call(t, class)
  PROVE  Holding /\ status[t] = "idle" /\ lockclass' \in [Threads -> {"READ", "WRITE"}]
BY DEF Call, Holding, IInv, TypeOK

LEMMA WritelockStep ==
  ASSUME IInv, NEW t \in Threads, Writelock(t) \/ WritelockPriority(t)
  PROVE  IInv' /\ [RW!Next]_(RW!vars)
<1>1. /\ Holding /\ status[t] = "idle" /\ status \in [Threads -> Statuses]
      /\ lockclass' \in [Threads -> {"READ", "WRITE"}]
  BY CallTypes DEF Writelock, WritelockPriority, IInv, TypeOK
<1>2. CASE TakeWriteLock(t)
  BY <1>1, <1>2, TakeWriteLockStep
<1>3. ASSUME reader_count # 0 \/ writer,
             \/ Queue(t, AppendAtTail(queue, tail, t), t)
             \/ Queue(t, <<t>> \o queue, TailAfterPush(queue, tail, t))
      PROVE  IInv' /\ [RW!Next]_(RW!vars)
  <2>. DEFINE st == [status EXCEPT ![t] = "pending"]
  <2>1. ASSUME Queue(t, AppendAtTail(queue, tail, t), t) PROVE IInv' /\ status' = st
    BY <1>1, <1>3, <2>1, NewQueues, QueueStep
  <2>2. ASSUME Queue(t, <<t>> \o queue, TailAfterPush(queue, tail, t)) PROVE IInv' /\ status' = st
    BY <1>1, <1>3, <2>2, NewQueues, QueueStep
  <2>3. IInv' /\ status' = st
    BY <1>3, <2>1, <2>2
  <2>4. st \in [Threads -> Statuses] /\ SameHolders(st)
    BY <1>1 DEF Statuses, SameHolders
  <2>. HIDE DEF st
  <2>. QED
    BY <2>3, <2>4, GrantsRefine DEF Grants
<1>. QED
  BY <1>2, <1>3 DEF Writelock, WritelockPriority

LEMMA ReadlockStep ==
  ASSUME IInv, NEW t \in Threads, Readlock(t) \/ ReadlockPriority(t)
  PROVE  IInv' /\ [RW!Next]_(RW!vars)
<1>1. /\ Holding /\ status[t] = "idle"
      /\ lockclass' \in [Threads -> {"READ", "WRITE"}]
  BY CallTypes DEF Readlock, ReadlockPriority
<1>2. CASE TakeReadLock(t)
  BY <1>1, <1>2, TakeReadLockStep
<1>3. CASE QueueReader(t, AppendAtTail(queue, tail, t), t)
  BY <1>1, <1>3, NewQueues, QueueReaderStep
<1>4. CASE QueueReader(t, <<t>> \o queue, TailAfterPush(queue, tail, t))
  BY <1>1, <1>4, NewQueues, QueueReaderStep
<1>. QED
  BY <1>2, <1>3, <1>4 DEF Readlock, ReadlockPriority

\* A holder on its way to the unlock holds the lock still.
LEMMA LeaveStep ==
  ASSUME IInv, NEW t \in Threads, Leave(t)
  PROVE  IInv' /\ [RW!Next]_(RW!vars)
<1>1. TypeOK /\ HoldersExact /\ QueueIsServed /\ OneWriter /\ ~crashed
      /\ status \in [Threads -> Statuses]
      /\ UNCHANGED <<queue, tail, lockclass, reader_count, writer, crashed>>
  BY DEF IInv, Leave, TypeOK
<1>2. /\ status' \in [Threads -> Statuses]
      /\ \A u \in Threads \ {t} : status'[u] = status[u]
      /\ \/ status[t] = "writing" /\ status'[t] = "wrunlock"
         \/ status[t] = "reading" /\ status'[t] = "rdunlock"
  BY <1>1 DEF Leave, Statuses
<1>3. /\ ReadHolders(status)' = ReadHolders(status) /\ WriteHolders(status)' = WriteHolders(status)
      /\ Pending' = Pending
  BY <1>2 DEF ReadHolders, WriteHolders, Pending
<1>4. TypeOK'
  BY <1>1, <1>2 DEF TypeOK
<1>5. HoldersExact' /\ OneWriter'
  <2>1. HoldersExact <=> (~crashed => /\ reader_count = Cardinality(ReadHolders(status))
                                      /\ writer <=> WriteHolders(status) # {}
                                      /\ writer => reader_count = 0)
    BY DEF HoldersExact, ReadHolders, WriteHolders
  <2>2. HoldersExact' <=> (~crashed' => /\ reader_count' = Cardinality(ReadHolders(status)')
                                        /\ writer' <=> WriteHolders(status)' # {}
                                        /\ writer' => reader_count' = 0)
    BY DEF HoldersExact, ReadHolders, WriteHolders
  <2>. QED
    BY <1>1, <1>3, <2>1, <2>2 DEF OneWriter
<1>6. QueueIsServed'
  BY <1>1, <1>3 DEF QueueIsServed, ElementsOf
<1>7. RW!Next
  <2>1. CASE status[t] = "writing" /\ status'[t] = "wrunlock"
    <3>1. t \in Writers /\ Writers' = Writers \ {t} /\ Readers' = Readers
      BY <1>2, <2>1 DEF Writers, Readers
    <3>. QED
      BY <3>1 DEF RW!Next, RW!LeaveWriter
  <2>2. CASE status[t] = "reading" /\ status'[t] = "rdunlock"
    <3>1. t \in Readers /\ Readers' = Readers \ {t} /\ Writers' = Writers
      BY <1>2, <2>2 DEF Writers, Readers
    <3>. QED
      BY <3>1 DEF RW!Next, RW!LeaveReader
  <2>. QED
    BY <1>2, <2>1, <2>2
<1>. QED
  BY <1>4, <1>5, <1>6, <1>7 DEF IInv

\* Both unlocks, when nobody else holds the lock.
LEMMA LastUnlockStep ==
  ASSUME Holding, NEW t \in Threads, status[t] \in {"rdunlock", "wrunlock"},
         ReadHolders(status) \subseteq {t}, WriteHolders(status) \subseteq {t},
         HandOver(0, [status EXCEPT ![t] = "idle"]), UNCHANGED lockclass
  PROVE  IInv' /\ [RW!Next]_(RW!vars)
<1>. DEFINE st == [status EXCEPT ![t] = "idle"]
<1>1. status \in [Threads -> Statuses]
  BY DEF Holding, IInv, TypeOK
<1>2. /\ st \in [Threads -> Statuses] /\ st[t] = "idle"
      /\ \A u \in Threads \ {t} : st[u] = status[u]
      /\ SameHolders(st)
  BY <1>1 DEF Statuses, SameHolders
<1>3. ReadHolders(st) = {} /\ WriteHolders(st) = {}
  BY <1>2 DEF ReadHolders, WriteHolders
<1>4. /\ IInv'
      /\ \/ status' = status
         \/ status' = st \/ GrantsReaders(st) \/ GrantsWriter(st)
  BY <1>3, HandOverInvariant
<1>. HIDE DEF st
<1>5. CASE status' = status
  BY <1>4, <1>5 DEF RW!vars, Readers, Writers
<1>6. CASE Grants(st)
  BY <1>2, <1>4, <1>6, GrantsRefine
<1>. QED
  BY <1>3, <1>4, <1>5, <1>6 DEF Grants

LEMMA WrunlockStep ==
  ASSUME IInv, NEW t \in Threads, Wrunlock(t)
  PROVE  IInv' /\ [RW!Next]_(RW!vars)
<1>1. Holding /\ status[t] = "wrunlock" /\ UNCHANGED lockclass
  BY DEF Wrunlock, Holding
<1>2. WriteHolders(status) \subseteq {t} /\ WriteHolders(status) # {}
  BY <1>1 DEF Holding, IInv, OneWriter, WriteHolders
<1>3. reader_count = 0 /\ ReadHolders(status) = {}
  BY <1>1, <1>2, CountersTell
<1>. QED
  BY <1>1, <1>2, <1>3, LastUnlockStep DEF Wrunlock

LEMMA RdunlockStep ==
  ASSUME IInv, NEW t \in Threads, Rdunlock(t)
  PROVE  IInv' /\ [RW!Next]_(RW!vars)
<1>1. /\ Holding /\ status[t] = "rdunlock" /\ UNCHANGED lockclass
      /\ TypeOK /\ HoldersExact /\ QueueIsServed /\ ~crashed
      /\ status \in [Threads -> Statuses]
  BY DEF Rdunlock, Holding, IInv, TypeOK
<1>2. /\ reader_count = Cardinality(ReadHolders(status)) /\ reader_count \in Nat
      /\ ReadHolders(status) # {} /\ t \in ReadHolders(status)
  BY <1>1, CountersTell DEF ReadHolders
<1>3. reader_count # 0 /\ WriteHolders(status) = {} /\ ~writer
  <2>1. reader_count # 0
    BY <1>2, ReadHoldersFinite
  <2>. QED
    BY <1>1, <2>1, CountersTell
<1>4. CASE reader_count = 1 /\ HandOver(0, [status EXCEPT ![t] = "idle"])
  <2>1. ReadHolders(status) \subseteq {t}
    <3>1. PICK u : ReadHolders(status) = {u}
      BY <1>2, <1>4, ReadHoldersFinite, FS_Singleton
    <3>. QED
      BY <1>2, <3>1
  <2>. QED
    BY <1>1, <1>3, <1>4, <2>1, LastUnlockStep
<1>5. CASE /\ reader_count # 1 /\ reader_count' = reader_count - 1
           /\ status' = [status EXCEPT ![t] = "idle"]
           /\ UNCHANGED <<queue, tail, writer, crashed>>
  <2>1. /\ status' \in [Threads -> Statuses] /\ status'[t] = "idle"
        /\ \A u \in Threads \ {t} : status'[u] = status[u]
    BY <1>1, <1>5 DEF Statuses
  <2>2. /\ ReadHolders(status)' = ReadHolders(status) \ {t}
        /\ WriteHolders(status)' = {}
    BY <1>3, <2>1 DEF ReadHolders, WriteHolders
  <2>3. reader_count' = Cardinality(ReadHolders(status)')
    <3>1. Cardinality(ReadHolders(status) \ {t}) = Cardinality(ReadHolders(status)) - 1
      BY <1>2, ReadHoldersFinite, FS_RemoveElement
    <3>. QED
      BY <1>2, <1>5, <2>2, <3>1
  <2>4. TypeOK'
    <3>1. Cardinality(Threads) \in Nat
      BY ThreadsAssumption, FS_CardinalityType
    <3>2. reader_count' \in 0 .. Cardinality(Threads)
      BY <1>1, <1>2, <1>3, <1>5, <3>1 DEF TypeOK
    <3>. QED
      BY <1>1, <1>5, <2>1, <3>2 DEF TypeOK
  <2>5. HoldersExact' /\ OneWriter'
    BY <1>3, <1>5, <2>2, <2>3 DEF HoldersExact, OneWriter, ReadHolders, WriteHolders
  <2>6. QueueIsServed'
    <3>1. \A u \in Pending : u \in Pending'
      BY <1>1, <2>1 DEF Pending
    <3>2. reader_count' > 0
      BY <1>2, <1>3, <1>5
    <3>. QED
      BY <1>1, <1>5, <3>1, <3>2 DEF QueueIsServed, ElementsOf
  <2>7. Readers' = Readers /\ Writers' = Writers
    BY <1>1, <2>1 DEF Readers, Writers
  <2>. QED
    BY <2>4, <2>5, <2>6, <2>7 DEF IInv, RW!vars
<1>. QED
  BY <1>1, <1>4, <1>5 DEF Rdunlock

-----------------------------------------------------------------------------
(* The specification.                                                      *)

LEMMA InitInvariant ==
  ASSUME Init PROVE IInv /\ RW!Init
<1>1. ReadHolders(status) = {} /\ WriteHolders(status) = {} /\ Readers = {} /\ Writers = {}
  BY DEF Init, ReadHolders, WriteHolders, Readers, Writers
<1>2. Cardinality(ReadHolders(status)) = 0 /\ Cardinality(Threads) \in Nat
  BY <1>1, FS_EmptySet, ThreadsAssumption, FS_CardinalityType
<1>3. TypeOK
  <2>1. reader_count \in 0 .. Cardinality(Threads)
    BY <1>2 DEF Init
  <2>2. queue \in Seq(Threads) /\ status \in [Threads -> Statuses]
    BY EmptySeq DEF Init, Statuses
  <2>. QED
    BY <2>1, <2>2 DEF Init, TypeOK
<1>4. HoldersExact /\ OneWriter
  BY <1>1, <1>2 DEF Init, HoldersExact, OneWriter, ReadHolders, WriteHolders
<1>5. QueueIsServed
  BY DEF Init, QueueIsServed, ElementsOf
<1>. QED
  BY <1>1, <1>3, <1>4, <1>5 DEF IInv, RW!Init

LEMMA StepInvariant ==
  ASSUME IInv, [Next]_vars
  PROVE  IInv' /\ [RW!Next]_(RW!vars)
<1>1. CASE UNCHANGED vars
  BY <1>1 DEF vars, RW!vars, Readers, Writers, Pending, IInv, TypeOK, HoldersExact,
              QueueIsServed, OneWriter, WriteHolders, ElementsOf
<1>2. ASSUME NEW t \in Threads,
             \/ Writelock(t) \/ WritelockPriority(t) \/ Readlock(t) \/ ReadlockPriority(t)
             \/ Leave(t) \/ Wrunlock(t) \/ Rdunlock(t)
      PROVE  IInv' /\ [RW!Next]_(RW!vars)
  BY <1>2, WritelockStep, ReadlockStep, LeaveStep, WrunlockStep, RdunlockStep
<1>. QED
  BY <1>1, <1>2 DEF Next

\* The invariant that carries the rest.
THEOREM Invariance == Spec => []IInv
<1>1. Init => IInv
  BY InitInvariant
<1>2. IInv /\ [Next]_vars => IInv'
  BY StepInvariant
<1>. QED
  BY <1>1, <1>2, PTL DEF Spec

\* For any finite set of threads every variable has its type; the sixteen
\* bits of reader_count never count below zero or above the threads.
THEOREM TypeCorrect == Spec => []TypeOK
BY Invariance, PTL DEF IInv

\* reader_count and writer say exactly who holds the lock, and a writer holds
\* it alone, until the walk of complete_rdlock crashes.
THEOREM HoldersAlwaysExact == Spec => []HoldersExact
BY Invariance, PTL DEF IInv

\* A request in the queue waits there once, and for a holder that will look
\* at the queue when it leaves.
THEOREM QueueAlwaysServed == Spec => []QueueIsServed
BY Invariance, PTL DEF IInv

\* Whatever the queue looks like, readers are let in when no thread writes,
\* and one writer when nobody is inside: the lock is a readers/writer lock.
THEOREM DeferredRefines == Spec => IsReadersWriterLock
<1>1. Init => RW!Init
  BY InitInvariant
<1>2. IInv /\ [Next]_vars => [RW!Next]_(RW!vars)
  BY StepInvariant
<1>. QED
  BY <1>1, <1>2, Invariance, PTL DEF Spec, IsReadersWriterLock, RW!Spec
=============================================================================
