------------------------- MODULE QueuedRWLockProofs -------------------------
(***************************************************************************)
(* What the runs check of queued_rw_lock, proved for any finite set of     *)
(* threads and any content of the byte of state_union that readlock leaves *)
(* uninitialised, until that byte sends a reader in behind one that waits: *)
(* types, the exact count of readers, the order in which requests are let  *)
(* in, and the exclusion of writers.                                       *)
(*                                                                         *)
(* The argument is that at most one thread has the turn, that is, may let  *)
(* in the request at the head of the queue: the last thread that was let   *)
(* in and that nobody has joined, the head itself when it found the queue  *)
(* empty or a reader inside before it, the writer in next_writer, or the   *)
(* reader that took that writer from there.  Shape says so, and how the    *)
(* requests that wait are linked.                                          *)
(***************************************************************************)
EXTENDS QueuedRWLock, FiniteSetTheorems, SequenceTheorems, TLAPS

WriteLocs ==
  {"w_publish", "w_test", "w_take", "w_open", "w_announce", "w_link", "w_wait",
   "w_assert", "writing", "wu_close", "wu_next", "wu_count", "wu_open"}

ReadLocs ==
  {"r_first", "r_try", "r_link", "r_wait", "r_count", "r_join", "r_open",
   "r_chain", "r_next", "r_pass", "reading", "ru_close", "ru_next"}

\* Where a thread is about to link its request to the one before it, where a
\* reader joins the reader inside before it, where the head of the queue lets
\* itself in, and where a writer waits that may be in next_writer.
Linking == {"w_announce", "w_link", "r_try", "r_link"}
Joining == {"r_count", "r_join"}
Opening == {"r_first", "r_count", "r_join", "r_open", "w_publish", "w_open"}
Offerable == {"w_test", "w_take", "w_wait"}
Blockable == Opening \cup Linking \cup Offerable \cup {"r_wait"}

\* The threads that were let in and still have a request in the queue.
WriterIn(t) ==
  \/ pc[t] \in {"w_assert", "writing", "wu_close", "wu_next", "wu_count", "wu_open"}
  \/ pc[t] \in Offerable /\ ~blocked[t]

ReaderIn(t) ==
  \/ pc[t] \in {"r_chain", "r_next", "r_pass", "reading", "ru_close", "ru_next"}
  \/ pc[t] = "r_wait" /\ ~blocked[t]

\* A reader was let in behind the reader p, or is letting itself in there.
Followed(p) ==
  \/ next[p] # NULL /\ successor_class[p] = "NONE"
  \/ successor_class[p] = "READ" /\ pc[p] \in {"reading", "ru_close", "ru_next"}
  \/ \E t \in Threads : pc[t] \in Joining /\ predecessor[t] = p

Last(p) == WriterIn(p) \/ (ReaderIn(p) /\ ~Followed(p))

HasTurn(t) == Last(t) \/ pc[t] \in Opening \/ next_writer = t \/ pc[t] = "ru_open"

Front(h) == waiting # <<>> /\ h = waiting[1]

\* The request of h comes next behind the one of p.
Ahead(p, h) ==
  \/ Last(p) /\ Front(h)
  \/ \E i \in 1 .. Len(waiting) - 1 : p = waiting[i] /\ h = waiting[i + 1]

NothingBehind(p) == next[p] = NULL /\ successor_class[p] = "NONE"

\* What h has told p so far.
Behind(p, h) ==
  /\ \/ pc[h] \in Linking /\ predecessor[h] = p /\ next[p] = NULL
     \/ pc[h] \in {"w_wait", "r_wait"} /\ next[p] = h
  /\ successor_class[p] = IF pc[h] \in {"w_announce", "r_try"} THEN "NONE"
                          ELSE IF lockclass[h] = "WRITE" THEN "WRITE"
                          ELSE IF lockclass[p] = "READ" THEN "READ" ELSE "NONE"

----------------------------------------------------------------------------
Typed ==
  /\ {tail, next_writer} \subseteq Requests
  /\ reader_count \in Nat
  /\ next \in [Threads -> Requests]
  /\ successor_class \in [Threads -> Classes]
  /\ blocked \in [Threads -> BOOLEAN]
  /\ lockclass \in [Threads -> Classes]
  /\ predecessor \in [Threads -> Requests]
  /\ w \in [Threads -> Requests]
  /\ pc \in [Threads -> Locations]
  /\ waiting \in Seq(Threads)
  /\ late \in BOOLEAN

\* waiting lists the blocked threads, each one once.
LineOK ==
  /\ \A i, j \in 1 .. Len(waiting) : waiting[i] = waiting[j] => i = j
  /\ \A t \in Threads : blocked[t] <=> \E i \in 1 .. Len(waiting) : waiting[i] = t

LocalOK == \A t \in Threads :
  /\ lockclass[t] = IF pc[t] \in WriteLocs THEN "WRITE"
                    ELSE IF pc[t] \in ReadLocs THEN "READ" ELSE "NONE"
  /\ blocked[t] => pc[t] \in Blockable
  /\ pc[t] \in Opening \cup Linking => blocked[t]
  /\ pc[t] \in {"r_next", "r_pass"} => successor_class[t] = "READ"
  /\ pc[t] \in {"r_pass", "wu_count", "wu_open"} => next[t] # NULL
  /\ pc[t] = "wu_count" => lockclass[next[t]] = "READ"

LinkedOK == \A p, h \in Threads : Ahead(p, h) => Behind(p, h)

LinkingOK == \A h \in Threads :
  pc[h] \in Linking => predecessor[h] \in Threads /\ Ahead(predecessor[h], h)

JoiningOK == \A h \in Threads : pc[h] \in Joining =>
  /\ predecessor[h] \in Threads
  /\ ReaderIn(predecessor[h])
  /\ NothingBehind(predecessor[h])

TailOK ==
  /\ waiting # <<>> => tail = waiting[Len(waiting)] /\ NothingBehind(tail)
  /\ waiting = <<>> => /\ \A p \in Threads : Last(p) => tail = p /\ NothingBehind(p)
                       /\ tail # NULL => Last(tail)

FrontOK == \A h \in Threads :
  /\ pc[h] \in Opening => Front(h)
  /\ next_writer = h => Front(h) /\ pc[h] \in Offerable
  /\ pc[h] = "ru_open" => w[h] \in Threads /\ Front(w[h]) /\ pc[w[h]] \in Offerable

OneTurn == \A a, b \in Threads : HasTurn(a) /\ HasTurn(b) => a = b

Shape ==
  /\ Typed
  /\ LineOK
  /\ LocalOK
  /\ LinkedOK
  /\ LinkingOK
  /\ JoiningOK
  /\ TailOK
  /\ FrontOK
  /\ OneTurn

\* Who lets a writer in, or is one, sees no reader counted, unless a reader
\* was late, but for the one that a leaving writer counts.
NoReaders == ~late => \A t \in Threads :
  /\ pc[t] \in {"w_open", "ru_open"} => reader_count = 0
  /\ WriterIn(t) => \/ reader_count = 0
                    \/ pc[t] = "wu_open" /\ lockclass[next[t]] = "READ"
  /\ pc[t] = "w_take" /\ next_writer = t => reader_count = 0

IInv == Shape /\ CountExact /\ NoReaders

----------------------------------------------------------------------------
(* What Shape says of two requests, one of which comes next behind the      *)
(* other.                                                                   *)

LEMMA FrontFacts ==
  ASSUME Shape, NEW h, Front(h)
  PROVE  h \in Threads /\ blocked[h] /\ pc[h] \in Blockable
<1>1. 1 \in 1 .. Len(waiting) /\ h = waiting[1] /\ h \in Threads
  BY DEF Shape, Typed, Front
<1>2. blocked[h]
  BY <1>1 DEF Shape, LineOK
<1> QED
  BY <1>1, <1>2 DEF Shape, LocalOK

LEMMA LastFacts ==
  ASSUME Shape, NEW p \in Threads, Last(p)
  PROVE  /\ ~blocked[p] /\ ~Front(p) /\ next_writer # p
         /\ pc[p] \notin Opening \cup Linking \cup {"ru_open"}
         /\ HasTurn(p)
<1>1. ~blocked[p] /\ pc[p] \notin Opening \cup Linking \cup {"ru_open"}
  BY DEF Shape, LocalOK, Last, WriterIn, ReaderIn, Blockable, Opening, Linking, Offerable
<1>2. ~Front(p)
  BY <1>1, FrontFacts
<1>3. next_writer # p
  BY <1>2 DEF Shape, FrontOK
<1> QED
  BY <1>1, <1>2, <1>3 DEF HasTurn

LEMMA AheadFacts ==
  ASSUME Shape, NEW p \in Threads, NEW h \in Threads, Ahead(p, h)
  PROVE  /\ waiting # <<>> /\ blocked[h] /\ (blocked[p] \/ Last(p))
         /\ p # h /\ (blocked[p] => ~Front(h)) /\ (~blocked[p] => Front(h)) /\ Behind(p, h)
<1>1. CASE Last(p) /\ Front(h)
  <2>1. ~blocked[p] /\ blocked[h] /\ waiting # <<>>
    BY <1>1, FrontFacts, LastFacts DEF Front
  <2> QED
    BY <1>1, <2>1 DEF Shape, LinkedOK
<1>2. CASE \E i \in 1 .. Len(waiting) - 1 : p = waiting[i] /\ h = waiting[i + 1]
  <2>1. PICK i \in 1 .. Len(waiting) - 1 : p = waiting[i] /\ h = waiting[i + 1]
    BY <1>2
  <2>2. Len(waiting) \in Nat /\ i \in 1 .. Len(waiting) /\ i + 1 \in 1 .. Len(waiting) /\ i # i + 1 /\ i + 1 # 1
    BY <2>1 DEF Shape, Typed
  <2>3. waiting # <<>> /\ 1 \in 1 .. Len(waiting)
    BY <2>2
  <2>4. blocked[p] /\ blocked[h] /\ p # h /\ h # waiting[1]
    BY <2>1, <2>2, <2>3 DEF Shape, LineOK
  <2> QED
    BY <2>3, <2>4 DEF Shape, LinkedOK, Front
<1> QED
  BY <1>1, <1>2 DEF Ahead

\* Nobody is next behind two requests, and no request has two next behind it.
LEMMA AheadUnique ==
  ASSUME Shape, NEW p \in Threads, NEW q \in Threads, NEW g \in Threads, NEW h \in Threads,
         Ahead(p, h), Ahead(q, g)
  PROVE  p = q <=> g = h
<1>0. Len(waiting) \in Nat
  BY DEF Shape, Typed
<1>1. CASE Last(p) /\ Front(h)
  <2>1. ~blocked[p] /\ (q = p => Front(g)) /\ (g = h => Last(q))
    BY <1>1, LastFacts, AheadFacts
  <2>2. Last(q) => q = p
    BY <1>1, LastFacts DEF Shape, OneTurn
  <2> QED
    BY <1>1, <2>1, <2>2 DEF Front
<1>2. CASE ~(Last(p) /\ Front(h))
  <2>1. PICK i \in 1 .. Len(waiting) - 1 : p = waiting[i] /\ h = waiting[i + 1]
    BY <1>2 DEF Ahead
  <2>2. blocked[p] /\ ~Front(h)
    BY <1>2, AheadFacts
  <2>3. CASE Last(q) /\ Front(g)
    BY <2>2, <2>3, LastFacts
  <2>4. CASE ~(Last(q) /\ Front(g))
    <3>1. PICK j \in 1 .. Len(waiting) - 1 : q = waiting[j] /\ g = waiting[j + 1]
      BY <2>4 DEF Ahead
    <3>2. {i, j, i + 1, j + 1} \subseteq 1 .. Len(waiting)
      BY <1>0, <2>1, <3>1
    <3>3. (p = q => i = j) /\ (g = h => i + 1 = j + 1)
      BY <2>1, <3>1, <3>2 DEF Shape, LineOK
    <3>4. p = q <=> i = j
      BY <2>1, <3>1, <3>3
    <3>5. g = h <=> i = j
      BY <2>1, <3>1, <3>3, <1>0
    <3> QED
      BY <3>4, <3>5
  <2> QED
    BY <2>3, <2>4
<1> QED
  BY <1>1, <1>2

\* The last thread let in finds the head of the queue in its next.
LEMMA PasserFacts ==
  ASSUME Shape, NEW t \in Threads, Last(t), next[t] # NULL
  PROVE  /\ next[t] \in Threads /\ Front(next[t]) /\ Ahead(t, next[t])
         /\ pc[next[t]] \in {"w_wait", "r_wait"}
<1>1. waiting # <<>>
  BY DEF Shape, TailOK, NothingBehind
<1>2. PICK h : h = waiting[1]
  OBVIOUS
<1>3. Front(h) /\ h \in Threads
  BY <1>1, <1>2, FrontFacts DEF Front
<1>4. Ahead(t, h)
  BY <1>3 DEF Ahead
<1>5. next[t] = h /\ pc[h] \in {"w_wait", "r_wait"}
  BY <1>3, <1>4, AheadFacts DEF Behind
<1> QED
  BY <1>3, <1>4, <1>5

\* A reader that was told of a reader behind it is the last one in.
LEMMA ChainerFacts ==
  ASSUME Shape, NEW t \in Threads,
         \/ pc[t] \in {"r_next", "r_pass"}
         \/ pc[t] = "r_chain" /\ successor_class[t] # "NONE"
         \/ pc[t] \in {"reading", "ru_close", "ru_next"} /\ successor_class[t] = "WRITE"
  PROVE  Last(t)
<1>1. ReaderIn(t) /\ successor_class[t] # "NONE"
  BY DEF ReaderIn, Shape, LocalOK
<1>2. ~\E h \in Threads : pc[h] \in Joining /\ predecessor[h] = t
  BY <1>1 DEF Shape, JoiningOK, NothingBehind
<1>3. ~(successor_class[t] = "READ" /\ pc[t] \in {"reading", "ru_close", "ru_next"})
  OBVIOUS
<1> QED
  BY <1>1, <1>2, <1>3 DEF Last, Followed

----------------------------------------------------------------------------
\* The steps of one thread that nobody else can tell: they only move pc.
SilentMove(t, l) ==
  \/ pc[t] = "w_test" /\ l \in {"w_take", "w_wait"}
  \/ pc[t] = "w_take" /\ l = "w_wait"
  \/ pc[t] = "w_wait" /\ ~blocked[t] /\ l = "w_assert"
  \/ pc[t] = "w_assert" /\ l = "writing"
  \/ pc[t] = "writing" /\ l \in {"wu_close", "wu_next"}
  \/ pc[t] = "wu_close" /\ l = "wu_next"
  \/ pc[t] = "wu_next" /\ next[t] # NULL /\ l = "wu_count" /\ lockclass[next[t]] = "READ"
  \/ pc[t] = "wu_next" /\ next[t] # NULL /\ l = "wu_open"
  \/ pc[t] = "wu_count" /\ l = "wu_open"
  \/ pc[t] = "r_wait" /\ ~blocked[t] /\ l = "r_chain"
  \/ pc[t] = "r_chain" /\ successor_class[t] = "READ" /\ l = "r_next"
  \/ pc[t] = "r_chain" /\ successor_class[t] # "READ" /\ l = "reading"
  \/ pc[t] = "r_next" /\ next[t] # NULL /\ l = "r_pass"
  \/ pc[t] = "reading" /\ l \in {"ru_close", "ru_next"}
  \/ pc[t] = "ru_close" /\ l = "ru_next"
  \/ pc[t] = "r_first" /\ l = "r_open"
  \/ pc[t] = "r_count" /\ l = "r_join"
  \/ pc[t] = "ru_count" /\ l \in {"ru_take", "idle"}
  \/ pc[t] = "ru_take" /\ l = "idle"

LEMMA SilentStep ==
  ASSUME Shape, NEW t \in Threads, NEW l \in Locations, SilentMove(t, l), Goto(t, l),
         UNCHANGED <<tail, next_writer, fields, predecessor, waiting>>,
         w' \in [Threads -> Requests], \A x \in Threads : x # t => w'[x] = w[x],
         reader_count' \in Nat, late' \in BOOLEAN
  PROVE  Shape'
<1> USE DEF fields
<1>0. /\ pc \in [Threads -> Locations] /\ pc' \in [Threads -> Locations]
      /\ pc'[t] = l /\ \A x \in Threads : x # t => pc'[x] = pc[x]
  BY DEF Shape, Typed, Goto
<1>1. /\ l \in Opening <=> pc[t] \in Opening
      /\ l \in Joining <=> pc[t] \in Joining
      /\ l \notin Linking /\ pc[t] \notin Linking
      /\ l # "ru_open" /\ pc[t] # "ru_open"
      /\ l \in WriteLocs <=> pc[t] \in WriteLocs
      /\ l \in ReadLocs <=> pc[t] \in ReadLocs
  BY DEF SilentMove, Opening, Joining, Linking, WriteLocs, ReadLocs
<1>2. blocked[t] => /\ pc[t] \in Offerable <=> l \in Offerable
                    /\ pc[t] \in Blockable => l \in Blockable
                    /\ pc[t] \notin {"w_wait", "r_wait"}
  BY DEF SilentMove, Offerable, Blockable, Opening, Linking
<1>3. \A x \in Threads : /\ pc'[x] \in Opening <=> pc[x] \in Opening
                         /\ pc'[x] \in Joining <=> pc[x] \in Joining
                         /\ pc'[x] \in Linking <=> pc[x] \in Linking
                         /\ pc'[x] \in Linking => pc'[x] = pc[x]
                         /\ pc'[x] = "ru_open" <=> pc[x] = "ru_open"
  BY <1>0, <1>1
<1>4. \A x \in Threads : (WriterIn(x)' <=> WriterIn(x)) /\ (ReaderIn(x)' <=> ReaderIn(x))
  <2>1. (WriterIn(t)' <=> WriterIn(t)) /\ (ReaderIn(t)' <=> ReaderIn(t))
    BY <1>0 DEF WriterIn, ReaderIn, SilentMove, Offerable
  <2> QED
    BY <2>1, <1>0 DEF WriterIn, ReaderIn
<1>5. \A x \in Threads : Followed(x)' <=> Followed(x)
  <2>1. \A x \in Threads : (\E h \in Threads : pc'[h] \in Joining /\ predecessor'[h] = x)
                            <=> (\E h \in Threads : pc[h] \in Joining /\ predecessor[h] = x)
    BY <1>3
  <2>2. (successor_class[t] = "READ" /\ pc'[t] \in {"reading", "ru_close", "ru_next"})
          <=> (successor_class[t] = "READ" /\ pc[t] \in {"reading", "ru_close", "ru_next"})
    BY <1>0 DEF SilentMove
  <2> QED
    BY <2>1, <2>2, <1>0 DEF Followed
<1>6. \A x \in Threads : (Last(x)' <=> Last(x)) /\ (HasTurn(x)' <=> HasTurn(x))
  BY <1>3, <1>4, <1>5 DEF Last, HasTurn
<1>7. \A x \in Threads : (Front(x)' <=> Front(x)) /\ (NothingBehind(x)' <=> NothingBehind(x))
  BY DEF Front, NothingBehind
<1>8. \A p, h \in Threads : Ahead(p, h)' <=> Ahead(p, h)
  BY <1>6, <1>7 DEF Ahead
<1>t. Typed'
  BY <1>0 DEF Shape, Typed
<1>l. LineOK'
  BY DEF Shape, LineOK
<1>c. LocalOK'
  <2>1. SUFFICES ASSUME NEW x \in Threads
                 PROVE  /\ lockclass[x] = IF pc'[x] \in WriteLocs THEN "WRITE"
                                          ELSE IF pc'[x] \in ReadLocs THEN "READ" ELSE "NONE"
                        /\ blocked[x] => pc'[x] \in Blockable
                        /\ pc'[x] \in Opening \cup Linking => blocked[x]
                        /\ pc'[x] \in {"r_next", "r_pass"} => successor_class[x] = "READ"
                        /\ pc'[x] \in {"r_pass", "wu_count", "wu_open"} => next[x] # NULL
                        /\ pc'[x] = "wu_count" => lockclass[next[x]] = "READ"
    BY DEF LocalOK
  <2>2. CASE x = t
    <3>1. /\ lockclass[x] = IF pc'[x] \in WriteLocs THEN "WRITE"
                            ELSE IF pc'[x] \in ReadLocs THEN "READ" ELSE "NONE"
          /\ blocked[x] => pc'[x] \in Blockable
          /\ pc'[x] \in Opening \cup Linking => blocked[x]
      BY <2>2, <1>0, <1>1, <1>2 DEF Shape, LocalOK
    <3>2. /\ pc'[x] \in {"r_next", "r_pass"} => successor_class[x] = "READ"
          /\ pc'[x] \in {"r_pass", "wu_count", "wu_open"} => next[x] # NULL
          /\ pc'[x] = "wu_count" => lockclass[next[x]] = "READ"
      BY <2>2, <1>0 DEF Shape, LocalOK, SilentMove
    <3> QED
      BY <3>1, <3>2
  <2>3. CASE x # t
    BY <2>3, <1>0 DEF Shape, LocalOK
  <2> QED
    BY <2>2, <2>3
<1>n. LinkedOK'
  <2>1. SUFFICES ASSUME NEW p \in Threads, NEW h \in Threads, Ahead(p, h)
                 PROVE  Behind(p, h)'
    BY <1>8 DEF LinkedOK
  <2>2. Behind(p, h) /\ blocked[h]
    BY <2>1, AheadFacts
  <2>3. h # t
    BY <2>2, <1>1, <1>2 DEF Behind
  <2> QED
    BY <2>2, <2>3, <1>0 DEF Behind
<1>k. LinkingOK'
  BY <1>3, <1>8 DEF Shape, LinkingOK
<1>j. JoiningOK'
  BY <1>3, <1>4, <1>7 DEF Shape, JoiningOK
<1>a. TailOK'
  <2>1. tail # NULL => tail \in Threads
    BY DEF Shape, Typed, Requests
  <2>2. waiting # <<>> => tail = waiting[Len(waiting)] /\ NothingBehind(tail)'
    BY DEF Shape, TailOK, NothingBehind
  <2>3. waiting = <<>> => /\ \A p \in Threads : Last(p)' => tail = p /\ NothingBehind(p)'
                          /\ tail # NULL => Last(tail)'
    <3>1. waiting = <<>> => \A p \in Threads : Last(p)' => tail = p /\ NothingBehind(p)'
      BY <1>6, <1>7 DEF Shape, TailOK
    <3>2. waiting = <<>> => (tail # NULL => Last(tail)')
      BY <1>6, <2>1 DEF Shape, TailOK
    <3> QED
      BY <3>1, <3>2
  <2> QED
    BY <2>2, <2>3 DEF TailOK
<1>f. FrontOK'
  <2>1. SUFFICES ASSUME NEW h \in Threads
                 PROVE  /\ pc'[h] \in Opening => Front(h)'
                        /\ next_writer = h => Front(h)' /\ pc'[h] \in Offerable
                        /\ pc'[h] = "ru_open" => w'[h] \in Threads /\ Front(w[h])' /\ pc'[w'[h]] \in Offerable
    BY DEF FrontOK
  <2>2. pc'[h] \in Opening => Front(h)'
    BY <1>3, <1>7 DEF Shape, FrontOK
  <2>3. \A x \in Threads : Front(x) /\ pc[x] \in Offerable => pc'[x] \in Offerable
    BY <1>0, <1>2, FrontFacts
  <2>4. next_writer = h => Front(h)' /\ pc'[h] \in Offerable
    BY <2>3, <1>7 DEF Shape, FrontOK
  <2>5. ASSUME pc'[h] = "ru_open"
        PROVE  w'[h] \in Threads /\ Front(w[h])' /\ pc'[w'[h]] \in Offerable
    <3>1. w'[h] = w[h] /\ pc[h] = "ru_open"
      BY <2>5, <1>0, <1>1
    <3>2. PICK x \in Threads : x = w[h] /\ Front(x) /\ pc[x] \in Offerable
      BY <3>1 DEF Shape, FrontOK
    <3>3. Front(x)' /\ pc'[x] \in Offerable
      BY <3>2, <2>3, <1>7
    <3> QED
      BY <3>1, <3>2, <3>3
  <2> QED
    BY <2>2, <2>4, <2>5
<1>o. OneTurn'
  BY <1>6 DEF Shape, OneTurn
<1> QED
  BY <1>t, <1>l, <1>c, <1>n, <1>k, <1>j, <1>a, <1>f, <1>o DEF Shape

----------------------------------------------------------------------------
\* Who has somebody next behind it is not the tail.
LEMMA AheadNotTail ==
  ASSUME Shape, NEW p \in Threads, NEW h \in Threads, Ahead(p, h)
  PROVE  tail # p /\ waiting # <<>> /\ tail = waiting[Len(waiting)] /\ blocked[tail]
<1>0. waiting # <<>> /\ Len(waiting) \in Nat /\ Len(waiting) # 0
  BY AheadFacts DEF Shape, Typed
<1>1. Len(waiting) \in 1 .. Len(waiting) /\ tail = waiting[Len(waiting)] /\ tail \in Threads
  BY <1>0 DEF Shape, TailOK, Typed
<1>2. blocked[tail]
  BY <1>1 DEF Shape, LineOK
<1>3. CASE Last(p) /\ Front(h)
  BY <1>0, <1>1, <1>2, <1>3, LastFacts
<1>4. CASE \E i \in 1 .. Len(waiting) - 1 : p = waiting[i] /\ h = waiting[i + 1]
  <2>1. PICK i \in 1 .. Len(waiting) - 1 : p = waiting[i]
    BY <1>4
  <2>2. i \in 1 .. Len(waiting) /\ i # Len(waiting)
    BY <1>0
  <2>3. tail # p
    BY <1>1, <2>1, <2>2 DEF Shape, LineOK
  <2> QED
    BY <1>0, <1>1, <1>2, <2>3
<1> QED
  BY <1>3, <1>4 DEF Ahead

\* A request in Linking tells the one before it that it is there.
LEMMA TellStep ==
  ASSUME Shape, NEW t \in Threads, NEW l \in Locations, Goto(t, l),
         NEW p \in Threads, p = predecessor[t], Ahead(p, t),
         \/ /\ pc[t] = "w_announce" /\ l = "w_link"
            /\ Announce(p, "WRITE") /\ UNCHANGED predecessor
         \/ /\ pc[t] = "r_try" /\ l = "r_link" /\ lockclass[p] = "WRITE"
            /\ UNCHANGED <<fields, predecessor>>
         \/ /\ pc[t] = "r_try" /\ l = "r_link" /\ lockclass[p] # "WRITE" /\ blocked[p]
            /\ Announce(p, "READ") /\ UNCHANGED predecessor
         \/ /\ \/ pc[t] = "w_link" /\ l = "w_wait"
               \/ pc[t] = "r_link" /\ l = "r_wait"
            /\ Link(t),
         UNCHANGED <<shared, w, waiting, late>>
  PROVE  Shape'
<1> USE DEF fields, shared, ghosts
<1>0. /\ pc \in [Threads -> Locations] /\ pc' \in [Threads -> Locations]
      /\ pc'[t] = l /\ \A x \in Threads : x # t => pc'[x] = pc[x]
      /\ pc[t] \in Linking
  BY DEF Shape, Typed, Goto, Linking
<1>1. /\ tail' = tail /\ next_writer' = next_writer /\ blocked' = blocked /\ lockclass' = lockclass
      /\ waiting' = waiting /\ w' = w /\ reader_count' = reader_count /\ late' = late
      /\ next' \in [Threads -> Requests] /\ successor_class' \in [Threads -> Classes]
      /\ predecessor' \in [Threads -> Requests]
  BY DEF Shape, Typed, Link, Announce, Requests, Classes
<1>2. /\ \A x \in Threads : x # p => next'[x] = next[x] /\ successor_class'[x] = successor_class[x]
      /\ \A x \in Threads : x # t => predecessor'[x] = predecessor[x]
  BY DEF Shape, Typed, Link, Announce
<1>3. /\ pc[t] = "w_announce" => l = "w_link"
      /\ pc[t] = "w_link" => l = "w_wait"
      /\ pc[t] = "r_try" => l = "r_link"
      /\ pc[t] = "r_link" => l = "r_wait"
      /\ l \in {"w_link", "w_wait", "r_link", "r_wait"}
  OBVIOUS
<1>4. p # t /\ blocked[t] /\ Behind(p, t) /\ (blocked[p] \/ Last(p)) /\ (~blocked[p] => Front(t))
  BY AheadFacts
<1>5. /\ predecessor[t] = p /\ next[p] = NULL /\ pc[t] \notin {"w_wait", "r_wait"}
      /\ lockclass[t] = IF pc[t] \in {"w_announce", "w_link"} THEN "WRITE" ELSE "READ"
  BY <1>0, <1>4 DEF Behind, Linking, Shape, LocalOK, WriteLocs, ReadLocs
<1>6. lockclass[p] \in {"WRITE", "READ"}
  <2>1. pc[p] \in WriteLocs \cup ReadLocs
    BY <1>4 DEF Shape, LocalOK, Last, WriterIn, ReaderIn, WriteLocs, ReadLocs, Blockable, Opening, Linking, Offerable
  <2> QED
    BY <2>1 DEF Shape, LocalOK
<1>7. Behind(p, t)'
  <2>1. CASE pc[t] = "w_announce"
    BY <2>1, <1>0, <1>1, <1>5 DEF Behind, Announce, Linking, Shape, Typed
  <2>2. CASE pc[t] = "r_try" /\ lockclass[p] = "WRITE"
    BY <2>2, <1>0, <1>1, <1>4, <1>5 DEF Behind, Linking, Shape, Typed
  <2>3. CASE pc[t] = "r_try" /\ lockclass[p] # "WRITE"
    BY <2>3, <1>0, <1>1, <1>5, <1>6 DEF Behind, Announce, Linking, Shape, Typed
  <2>4. CASE pc[t] \in {"w_link", "r_link"}
    <3>1. next'[p] = t /\ successor_class' = successor_class /\ pc'[t] \in {"w_wait", "r_wait"}
      BY <2>4, <1>0, <1>5 DEF Link, Shape, Typed
    <3> QED
      BY <2>4, <3>1, <1>0, <1>1, <1>4, <1>5 DEF Behind
  <2> QED
    BY <2>1, <2>2, <2>3, <2>4, <1>0 DEF Linking
<1>8. \A x \in Threads : /\ pc'[x] \in Opening <=> pc[x] \in Opening
                         /\ pc'[x] \in Joining <=> pc[x] \in Joining
                         /\ pc'[x] \in Linking => pc[x] \in Linking
                         /\ pc'[x] = "ru_open" <=> pc[x] = "ru_open"
                         /\ pc[x] \in Offerable => pc'[x] \in Offerable
                         /\ pc[x] \in Blockable => pc'[x] \in Blockable
                         /\ pc[x] \in WriteLocs <=> pc'[x] \in WriteLocs
                         /\ pc[x] \in ReadLocs <=> pc'[x] \in ReadLocs
  BY <1>0, <1>3 DEF Opening, Joining, Linking, Offerable, Blockable, WriteLocs, ReadLocs
<1>9. \A x \in Threads : (WriterIn(x)' <=> WriterIn(x)) /\ (ReaderIn(x)' <=> ReaderIn(x))
  BY <1>0, <1>1, <1>3, <1>4 DEF WriterIn, ReaderIn, Offerable, Linking
<1>10. \A x \in Threads : Last(x)' <=> Last(x)
  <2>1. \A x \in Threads : (\E h \in Threads : pc'[h] \in Joining /\ predecessor'[h] = x)
                            <=> (\E h \in Threads : pc[h] \in Joining /\ predecessor[h] = x)
    <3>1. pc[t] \notin Joining
      BY <1>0 DEF Joining, Linking
    <3> QED
      BY <3>1, <1>2, <1>8
  <2>2. ASSUME NEW x \in Threads, x # p
        PROVE  Followed(x)' <=> Followed(x)
    <3>1. x # t => pc'[x] = pc[x]
      BY <1>0
    <3>2. pc[t] \notin {"reading", "ru_close", "ru_next"} /\ pc'[t] \notin {"reading", "ru_close", "ru_next"}
      BY <1>0, <1>3 DEF Linking
    <3> QED
      BY <2>1, <2>2, <3>1, <3>2, <1>2 DEF Followed
  <2>3. ASSUME Last(p)
        PROVE  Last(p)'
    <3>1. CASE WriterIn(p)
      BY <3>1, <1>9 DEF Last
    <3>2. CASE ReaderIn(p) /\ ~Followed(p)
      <4>1. ~\E h \in Threads : pc'[h] \in Joining /\ predecessor'[h] = p
        BY <3>2, <2>1 DEF Followed
      <4>2. ~blocked[p]
        BY <2>3, LastFacts
      <4>3. lockclass[p] = "READ"
        BY <3>2, <4>2 DEF ReaderIn, Shape, LocalOK, ReadLocs, WriteLocs
      <4>4. successor_class'[p] # "NONE" \/ next'[p] = NULL
        <5>1. CASE pc'[t] \in {"w_wait", "r_wait"}
          BY <5>1, <4>3, <1>1, <1>7 DEF Behind
        <5>2. CASE pc'[t] \notin {"w_wait", "r_wait"}
          BY <5>2, <1>7 DEF Behind
        <5> QED
          BY <5>1, <5>2
      <4>5. ~(successor_class'[p] = "READ" /\ pc'[p] \in {"reading", "ru_close", "ru_next"})
        <5>1. successor_class'[p] = "READ" => successor_class[p] = "READ"
          BY <4>2 DEF Announce, Link, Shape, Typed
        <5> QED
          BY <5>1, <3>2, <1>0, <1>4 DEF Followed
      <4> QED
        BY <3>2, <4>1, <4>4, <4>5, <1>9 DEF Last, Followed
    <3> QED
      BY <2>3, <3>1, <3>2 DEF Last
  <2>4. ASSUME Last(p)'
        PROVE  Last(p)
    <3>1. WriterIn(p) \/ ReaderIn(p)
      BY <2>4, <1>9 DEF Last
    <3>2. ~blocked[p]
      BY <3>1 DEF WriterIn, ReaderIn, Shape, LocalOK, Blockable, Opening, Linking, Offerable
    <3> QED
      BY <3>2, <1>4
  <2> QED
    BY <2>2, <2>3, <2>4, <1>9 DEF Last
<1>11. \A x \in Threads : (HasTurn(x)' <=> HasTurn(x)) /\ (Front(x)' <=> Front(x))
  BY <1>1, <1>8, <1>10 DEF HasTurn, Front
<1>12. \A q, h \in Threads : Ahead(q, h)' <=> Ahead(q, h)
  BY <1>1, <1>10, <1>11 DEF Ahead
<1>t. Typed'
  BY <1>0, <1>1 DEF Shape, Typed
<1>l. LineOK'
  BY <1>1 DEF Shape, LineOK
<1>c. LocalOK'
  <2>1. SUFFICES ASSUME NEW x \in Threads
                 PROVE  /\ lockclass[x] = IF pc'[x] \in WriteLocs THEN "WRITE"
                                          ELSE IF pc'[x] \in ReadLocs THEN "READ" ELSE "NONE"
                        /\ blocked[x] => pc'[x] \in Blockable
                        /\ pc'[x] \in Opening \cup Linking => blocked[x]
                        /\ pc'[x] \in {"r_next", "r_pass"} => successor_class'[x] = "READ"
                        /\ pc'[x] \in {"r_pass", "wu_count", "wu_open"} => next'[x] # NULL
                        /\ pc'[x] = "wu_count" => lockclass[next'[x]] = "READ"
    BY <1>1 DEF LocalOK
  <2>2. /\ lockclass[x] = IF pc'[x] \in WriteLocs THEN "WRITE"
                          ELSE IF pc'[x] \in ReadLocs THEN "READ" ELSE "NONE"
        /\ blocked[x] => pc'[x] \in Blockable
        /\ pc'[x] \in Opening \cup Linking => blocked[x]
    BY <1>8 DEF Shape, LocalOK
  <2>3. pc'[x] \in {"r_next", "r_pass", "wu_count", "wu_open"} => x # t /\ pc'[x] = pc[x]
    BY <1>0, <1>3
  <2>4. pc[p] \in {"r_next", "r_pass"} => successor_class'[p] = "READ"
    <3>1. ASSUME pc[p] \in {"r_next", "r_pass"}
          PROVE  successor_class[p] = "READ" /\ ~blocked[p]
      BY <3>1 DEF Shape, LocalOK, Blockable, Opening, Linking, Offerable
    <3>2. pc[t] = "w_announce" => successor_class[p] = "NONE"
      BY <1>4 DEF Behind
    <3> QED
      BY <3>1, <3>2 DEF Announce, Link
  <2>5. pc[p] \notin {"r_pass", "wu_count", "wu_open"}
    BY <1>5 DEF Shape, LocalOK
  <2> QED
    BY <2>2, <2>3, <2>4, <2>5, <1>2 DEF Shape, LocalOK
<1>n. LinkedOK'
  <2>1. SUFFICES ASSUME NEW q \in Threads, NEW h \in Threads, Ahead(q, h)
                 PROVE  Behind(q, h)'
    BY <1>12 DEF LinkedOK
  <2>2. CASE h = t
    BY <2>1, <2>2, <1>7, AheadUnique
  <2>3. CASE h # t
    <3>1. q # p
      BY <2>1, <2>3, AheadUnique
    <3>2. Behind(q, h)
      BY <2>1, AheadFacts
    <3> QED
      BY <2>3, <3>1, <3>2, <1>0, <1>1, <1>2 DEF Behind
  <2> QED
    BY <2>2, <2>3
<1>k. LinkingOK'
  <2>1. SUFFICES ASSUME NEW h \in Threads, pc'[h] \in Linking
                 PROVE  predecessor'[h] = predecessor[h] /\ pc[h] \in Linking
    BY <1>12 DEF Shape, LinkingOK
  <2>2. CASE h = t
    <3>1. pc'[t] \in {"w_link", "r_link"}
      BY <2>1, <2>2, <1>0, <1>3 DEF Linking
    <3> QED
      BY <2>2, <3>1, <1>0
  <2>3. CASE h # t
    BY <2>1, <2>3, <1>2, <1>8
  <2> QED
    BY <2>2, <2>3
<1>j. JoiningOK'
  <2>1. SUFFICES ASSUME NEW h \in Threads, pc[h] \in Joining
                 PROVE  /\ predecessor'[h] = predecessor[h]
                        /\ predecessor[h] # p
    BY <1>2, <1>8, <1>9 DEF Shape, JoiningOK, NothingBehind
  <2>2. h # t
    BY <2>1, <1>0 DEF Joining, Linking
  <2>3. ASSUME predecessor[h] = p
        PROVE  FALSE
    <3>1. Followed(p) /\ ReaderIn(p) /\ ~WriterIn(p)
      BY <2>1, <2>3 DEF Followed, Shape, JoiningOK, ReaderIn, WriterIn, Offerable
    <3>2. ~blocked[p]
      BY <3>1 DEF ReaderIn, Shape, LocalOK, Blockable, Opening, Linking, Offerable
    <3> QED
      BY <3>1, <3>2, <1>4 DEF Last
  <2> QED
    BY <2>2, <2>3, <1>2
<1>a. TailOK'
  <2>1. tail # p /\ waiting # <<>> /\ tail = waiting[Len(waiting)] /\ tail \in Threads
    BY AheadNotTail DEF Shape, Typed, Requests, LocalOK
  <2>2. NothingBehind(tail)'
    BY <2>1, <1>1, <1>2 DEF Shape, TailOK, NothingBehind
  <2> QED
    BY <2>1, <2>2, <1>1 DEF TailOK
<1>f. FrontOK'
  BY <1>1, <1>8, <1>11 DEF Shape, FrontOK
<1>o. OneTurn'
  BY <1>11 DEF Shape, OneTurn
<1> QED
  BY <1>t, <1>l, <1>c, <1>n, <1>k, <1>j, <1>a, <1>f, <1>o DEF Shape

----------------------------------------------------------------------------
\* Who has the turn is alone in having it.
LEMMA TurnIsOne ==
  ASSUME Shape, NEW a \in Threads, NEW b \in Threads, HasTurn(a), HasTurn(b)
  PROVE  a = b
BY DEF Shape, OneTurn

\* A reader behind one that is inside stops waiting: it takes the turn.
LEMMA TryStep ==
  ASSUME Shape, NEW t \in Threads, pc[t] = "r_try", Goto(t, "r_count"),
         NEW p \in Threads, p = predecessor[t], Ahead(p, t), lockclass[p] # "WRITE",
         ~(blocked[p] /\ successor_class[p] = "NONE"),
         UNCHANGED <<shared, fields, locals, waiting, late>>
  PROVE  Shape'
<1> USE DEF fields, locals, shared, ghosts
<1>0. /\ pc \in [Threads -> Locations] /\ pc' \in [Threads -> Locations]
      /\ pc'[t] = "r_count" /\ \A x \in Threads : x # t => pc'[x] = pc[x]
  BY DEF Shape, Typed, Goto, Locations
<1>1. blocked[t] /\ Behind(p, t) /\ p # t
  BY AheadFacts
<1>2. NothingBehind(p)
  BY <1>1 DEF Behind, NothingBehind
<1>3. ~blocked[p] /\ Last(p) /\ Front(t)
  BY <1>2, AheadFacts DEF NothingBehind
<1>4. ReaderIn(p) /\ HasTurn(p)
  <2>1. ~WriterIn(p)
    BY <1>3 DEF Shape, LocalOK, WriterIn, WriteLocs, Offerable
  <2> QED
    BY <1>3, <2>1, LastFacts DEF Last
<1>5. \A x \in Threads : (WriterIn(x)' <=> WriterIn(x)) /\ (ReaderIn(x)' <=> ReaderIn(x))
  <2>1. /\ ~WriterIn(t) /\ ~ReaderIn(t) /\ ~WriterIn(t)' /\ ~ReaderIn(t)'
    BY <1>0 DEF WriterIn, ReaderIn, Offerable
  <2> QED
    BY <2>1, <1>0 DEF WriterIn, ReaderIn
<1>6. \A x \in Threads : ~Last(x)'
  <2>1. ASSUME NEW x \in Threads, x # p, Last(x)'
        PROVE  Last(x)
    <3>1. x # t
      BY <2>1, <1>0 DEF Last, WriterIn, ReaderIn, Offerable
    <3>2. Followed(x) => Followed(x)'
      <4>1. \A h \in Threads : pc[h] \in Joining => pc'[h] \in Joining
        BY <1>0 DEF Joining
      <4> QED
        BY <4>1, <3>1, <1>0 DEF Followed
    <3> QED
      BY <2>1, <3>2, <1>5 DEF Last
  <2>2. Followed(p)'
    BY <1>0 DEF Followed, Joining
  <2>3. ~Last(p)'
    <3>1. ~WriterIn(p)
      BY <1>4 DEF ReaderIn, WriterIn, Offerable
    <3> QED
      BY <2>2, <3>1, <1>5 DEF Last
  <2> QED
    BY <2>1, <2>3, <1>4, TurnIsOne DEF HasTurn
<1>7. \A x \in Threads : HasTurn(x)' => x = t
  <2>1. ASSUME NEW x \in Threads, HasTurn(x)', x # t
        PROVE  HasTurn(x)
    BY <2>1, <1>0, <1>6 DEF HasTurn
  <2>2. ~HasTurn(p)'
    <3>1. next_writer # p /\ pc[p] \notin Opening /\ pc[p] # "ru_open"
      BY <1>3, LastFacts
    <3>2. pc'[p] = pc[p]
      BY <1>0, <1>1
    <3> QED
      BY <3>1, <3>2, <1>6 DEF HasTurn
  <2> QED
    BY <2>1, <2>2, <1>4, TurnIsOne
<1>8. \A x \in Threads : (Front(x)' <=> Front(x)) /\ (NothingBehind(x)' <=> NothingBehind(x))
  BY DEF Front, NothingBehind
<1>9. \A q, h \in Threads : /\ Ahead(q, h)' => Ahead(q, h) /\ h # t
                            /\ Ahead(q, h) /\ h # t => Ahead(q, h)'
  <2>1. ASSUME NEW q \in Threads, NEW h \in Threads, Ahead(q, h)'
        PROVE  Ahead(q, h) /\ h # t
    <3>1. \E i \in 1 .. Len(waiting) - 1 : q = waiting[i] /\ h = waiting[i + 1]
      BY <2>1, <1>6 DEF Ahead
    <3>2. Ahead(q, h)
      BY <3>1 DEF Ahead
    <3>3. PICK i \in 1 .. Len(waiting) - 1 : q = waiting[i]
      BY <3>1
    <3>4. i \in 1 .. Len(waiting)
      BY DEF Shape, Typed
    <3>5. blocked[q]
      BY <3>3, <3>4 DEF Shape, LineOK
    <3> QED
      BY <3>2, <3>5, <1>3, AheadFacts
  <2>2. ASSUME NEW q \in Threads, NEW h \in Threads, Ahead(q, h), h # t
        PROVE  Ahead(q, h)'
    <3>1. ~Front(h)
      BY <2>2, <1>3 DEF Front
    <3> QED
      BY <2>2, <3>1 DEF Ahead
  <2> QED
    BY <2>1, <2>2
<1>t. Typed'
  BY <1>0 DEF Shape, Typed
<1>l. LineOK'
  BY DEF Shape, LineOK
<1>c. LocalOK'
  BY <1>0, <1>1 DEF Shape, LocalOK, WriteLocs, ReadLocs, Blockable, Opening, Linking, Offerable
<1>n. LinkedOK'
  <2>1. ASSUME NEW q \in Threads, NEW h \in Threads, Behind(q, h), h # t
        PROVE  Behind(q, h)'
    BY <2>1, <1>0 DEF Behind
  <2> QED
    BY <2>1, <1>9, AheadFacts DEF LinkedOK
<1>k. LinkingOK'
  BY <1>0, <1>9 DEF Shape, LinkingOK, Linking
<1>j. JoiningOK'
  <2>1. SUFFICES ASSUME NEW h \in Threads, pc'[h] \in Joining
                 PROVE  predecessor[h] \in Threads /\ ReaderIn(predecessor[h]) /\ NothingBehind(predecessor[h])
    BY <1>5, <1>8 DEF JoiningOK
  <2> QED
    BY <2>1, <1>0, <1>2, <1>4 DEF Shape, JoiningOK
<1>a. TailOK'
  BY <1>3 DEF Shape, TailOK, Front, NothingBehind
<1>f. FrontOK'
  <2>1. \A x \in Threads : x # t => pc'[x] = pc[x]
    BY <1>0
  <2>2. \A x \in Threads : pc[x] \in Offerable => x # t
    BY DEF Offerable
  <2>3. \A h \in Threads : pc'[h] \in Opening => Front(h)'
    BY <1>0, <1>3, <1>8 DEF Shape, FrontOK
  <2>4. \A h \in Threads : next_writer = h => Front(h)' /\ pc'[h] \in Offerable
    BY <2>1, <2>2, <1>8 DEF Shape, FrontOK
  <2>5. ASSUME NEW h \in Threads, pc'[h] = "ru_open"
        PROVE  w[h] \in Threads /\ Front(w[h])' /\ pc'[w[h]] \in Offerable
    <3>1. pc[h] = "ru_open"
      BY <2>5, <1>0
    <3> QED
      BY <3>1, <2>1, <2>2, <1>8 DEF Shape, FrontOK
  <2> QED
    BY <2>3, <2>4, <2>5 DEF FrontOK
<1>o. OneTurn'
  BY <1>7 DEF OneTurn
<1> QED
  BY <1>t, <1>l, <1>c, <1>n, <1>k, <1>j, <1>a, <1>f, <1>o DEF Shape

\* That reader links itself to the one inside.
LEMMA JoinStep ==
  ASSUME Shape, NEW t \in Threads, pc[t] = "r_join", Goto(t, "r_open"), Link(t),
         UNCHANGED <<shared, ghosts>>
  PROVE  Shape'
<1> USE DEF fields, shared, ghosts
<1>0. /\ pc \in [Threads -> Locations] /\ pc' \in [Threads -> Locations]
      /\ pc'[t] = "r_open" /\ \A x \in Threads : x # t => pc'[x] = pc[x]
  BY DEF Shape, Typed, Goto, Locations
<1> DEFINE p == predecessor[t]
<1>1. p \in Threads /\ ReaderIn(p) /\ NothingBehind(p)
  BY DEF Shape, JoiningOK, Joining
<1>2. /\ next' = [next EXCEPT ![p] = t] /\ predecessor' = [predecessor EXCEPT ![t] = NULL]
      /\ UNCHANGED <<successor_class, blocked, lockclass, w>>
  BY DEF Link
<1>3. blocked[t] /\ Front(t) /\ HasTurn(t) /\ ~blocked[p] /\ p # t
  <2>1. blocked[t] /\ Front(t) /\ HasTurn(t)
    BY DEF Shape, LocalOK, FrontOK, HasTurn, Opening
  <2>2. ~blocked[p]
    BY <1>1 DEF ReaderIn, Shape, LocalOK, Blockable, Opening, Linking, Offerable
  <2> QED
    BY <2>1, <2>2
<1>4. \A x \in Threads : x # p => next'[x] = next[x]
  BY <1>2 DEF Shape, Typed
<1>5. \A x \in Threads : ~Last(x)
  BY <1>3, TurnIsOne, LastFacts
<1>6. \A x \in Threads : (WriterIn(x)' <=> WriterIn(x)) /\ (ReaderIn(x)' <=> ReaderIn(x))
  <2>1. /\ ~WriterIn(t) /\ ~ReaderIn(t) /\ ~WriterIn(t)' /\ ~ReaderIn(t)'
    BY <1>0 DEF WriterIn, ReaderIn, Offerable
  <2> QED
    BY <2>1, <1>0, <1>2 DEF WriterIn, ReaderIn
<1>7. \A x \in Threads : ~Last(x)'
  <2>1. next'[p] # NULL /\ successor_class'[p] = "NONE"
    <3>1. next'[p] = t
      BY <1>1, <1>2 DEF Shape, Typed
    <3> QED
      BY <3>1, <1>1, <1>2, ThreadsAssumption DEF NothingBehind
  <2>2. ASSUME NEW x \in Threads, x # p, ReaderIn(x)
        PROVE  Followed(x)'
    <3>1. Followed(x)
      BY <2>2, <1>5 DEF Last
    <3>2. x # t
      BY <2>2 DEF ReaderIn
    <3>3. ASSUME NEW h \in Threads, pc[h] \in Joining, predecessor[h] = x
          PROVE  pc'[h] \in Joining /\ predecessor'[h] = x
      <4>1. h # t
        BY <2>2, <3>3
      <4> QED
        BY <3>3, <4>1, <1>0, <1>2 DEF Shape, Typed
    <3> QED
      BY <2>2, <3>1, <3>2, <3>3, <1>0, <1>2, <1>4 DEF Followed
  <2>3. \A x \in Threads : ~WriterIn(x)
    BY <1>5 DEF Last
  <2> QED
    BY <2>1, <2>2, <2>3, <1>6 DEF Last, Followed
<1>8. \A x \in Threads : HasTurn(x)' => HasTurn(x)
  <2>1. \A x \in Threads : pc'[x] \in Opening => pc[x] \in Opening
    BY <1>0 DEF Opening
  <2>2. \A x \in Threads : pc'[x] = "ru_open" => pc[x] = "ru_open"
    BY <1>0
  <2> QED
    BY <2>1, <2>2, <1>7 DEF HasTurn
<1>9. \A q, h \in Threads : Ahead(q, h)' <=> Ahead(q, h)
  BY <1>5, <1>7 DEF Ahead
<1>10. \A x \in Threads : Front(x)' <=> Front(x)
  BY DEF Front
<1> HIDE DEF p
<1>t. Typed'
  BY <1>0, <1>2 DEF Shape, Typed, Requests
<1>l. LineOK'
  BY <1>2 DEF Shape, LineOK
<1>c. LocalOK'
  <2>1. SUFFICES ASSUME NEW x \in Threads
                 PROVE  /\ lockclass[x] = IF pc'[x] \in WriteLocs THEN "WRITE"
                                          ELSE IF pc'[x] \in ReadLocs THEN "READ" ELSE "NONE"
                        /\ blocked[x] => pc'[x] \in Blockable
                        /\ pc'[x] \in Opening \cup Linking => blocked[x]
                        /\ pc'[x] \in {"r_next", "r_pass"} => successor_class[x] = "READ"
                        /\ pc'[x] \in {"r_pass", "wu_count", "wu_open"} => next'[x] # NULL
                        /\ pc'[x] = "wu_count" => lockclass[next'[x]] = "READ"
    BY <1>2 DEF LocalOK
  <2>2. CASE x = t
    BY <2>2, <1>0, <1>3 DEF Shape, LocalOK, WriteLocs, ReadLocs, Blockable, Opening, Linking, Offerable
  <2>3. CASE x # t
    <3>1. pc'[x] = pc[x]
      BY <2>3, <1>0
    <3>2. x = p => next[x] = NULL
      BY <1>1 DEF NothingBehind
    <3>3. pc[x] \in {"r_pass", "wu_count", "wu_open"} => next[x] # NULL /\ x # p
      BY <3>2 DEF Shape, LocalOK
    <3> QED
      BY <3>1, <3>3, <1>4 DEF Shape, LocalOK
  <2> QED
    BY <2>2, <2>3
<1>n. LinkedOK'
  <2>1. SUFFICES ASSUME NEW q \in Threads, NEW h \in Threads, Ahead(q, h)
                 PROVE  Behind(q, h)'
    BY <1>9 DEF LinkedOK
  <2>2. blocked[q] /\ Behind(q, h)
    BY <2>1, <1>5, AheadFacts
  <2>3. next'[q] = next[q] /\ q # p
    BY <2>2, <1>3, <1>4
  <2>4. h # t
    BY <2>2 DEF Behind, Linking
  <2> QED
    BY <2>2, <2>3, <2>4, <1>0, <1>2 DEF Behind, Shape, Typed
<1>k. LinkingOK'
  <2>1. ASSUME NEW h \in Threads, pc'[h] \in Linking
        PROVE  pc[h] \in Linking /\ predecessor'[h] = predecessor[h]
    <3>1. h # t
      BY <2>1, <1>0 DEF Linking
    <3> QED
      BY <2>1, <3>1, <1>0, <1>2 DEF Shape, Typed
  <2> QED
    BY <2>1, <1>9 DEF Shape, LinkingOK
<1>j. JoiningOK'
  <2>1. ASSUME NEW h \in Threads, pc'[h] \in Joining
        PROVE  FALSE
    <3>1. h # t /\ pc[h] \in Joining
      BY <2>1, <1>0 DEF Joining
    <3>2. HasTurn(h)
      BY <3>1 DEF HasTurn, Opening, Joining
    <3> QED
      BY <3>1, <3>2, <1>3, TurnIsOne
  <2> QED
    BY <2>1 DEF JoiningOK
<1>a. TailOK'
  <2>1. waiting # <<>> /\ Len(waiting) \in 1 .. Len(waiting) /\ tail = waiting[Len(waiting)] /\ tail \in Threads
    BY <1>3 DEF Front, Shape, Typed, TailOK
  <2>2. blocked[tail]
    BY <2>1 DEF Shape, LineOK
  <2>3. NothingBehind(tail)'
    BY <2>1, <2>2, <1>2, <1>3, <1>4 DEF Shape, TailOK, NothingBehind
  <2> QED
    BY <2>1, <2>3 DEF TailOK
<1>f. FrontOK'
  <2>1. \A x \in Threads : pc'[x] \in Offerable <=> pc[x] \in Offerable
    BY <1>0 DEF Offerable
  <2>2. \A x \in Threads : pc'[x] \in Opening <=> pc[x] \in Opening
    BY <1>0 DEF Opening
  <2>3. \A x \in Threads : pc'[x] = "ru_open" <=> pc[x] = "ru_open"
    BY <1>0
  <2> QED
    BY <2>1, <2>2, <2>3, <1>2, <1>10 DEF Shape, FrontOK
<1>o. OneTurn'
  BY <1>8 DEF Shape, OneTurn
<1> QED
  BY <1>t, <1>l, <1>c, <1>n, <1>k, <1>j, <1>a, <1>f, <1>o DEF Shape

----------------------------------------------------------------------------
\* A request becomes the tail: the head of an empty queue, which has the turn,
\* or the one behind the former tail, which has told nobody of anything yet.
LEMMA EnqueueStep ==
  ASSUME Shape, NEW t \in Threads, NEW class \in {"READ", "WRITE"}, NEW l,
         Enqueue(t, class), Goto(t, l),
         l = IF class = "WRITE" THEN IF tail = NULL THEN "w_publish" ELSE "w_announce"
                                ELSE IF tail = NULL THEN "r_first" ELSE "r_try"
  PROVE  Shape'
<1>0. /\ pc \in [Threads -> Locations] /\ pc' \in [Threads -> Locations]
      /\ pc[t] = "idle" /\ pc'[t] = l /\ \A x \in Threads : x # t => pc'[x] = pc[x]
  BY DEF Shape, Typed, Goto, Locations, Enqueue, At
<1>1. /\ lockclass' = [lockclass EXCEPT ![t] = class] /\ next' = [next EXCEPT ![t] = NULL]
      /\ successor_class' = [successor_class EXCEPT ![t] = "NONE"]
      /\ blocked' = [blocked EXCEPT ![t] = TRUE] /\ tail' = t
      /\ predecessor' = [predecessor EXCEPT ![t] = tail] /\ waiting' = Append(waiting, t)
      /\ UNCHANGED <<reader_count, next_writer, w, late>>
  BY DEF Enqueue
<1>2. /\ lockclass'[t] = class /\ next'[t] = NULL /\ successor_class'[t] = "NONE"
      /\ predecessor'[t] = tail /\ blocked'[t] = TRUE
      /\ \A x \in Threads : x # t => /\ lockclass'[x] = lockclass[x] /\ next'[x] = next[x]
                                     /\ successor_class'[x] = successor_class[x]
                                     /\ predecessor'[x] = predecessor[x] /\ blocked'[x] = blocked[x]
  BY <1>1 DEF Shape, Typed
<1>3. /\ waiting \in Seq(Threads) /\ waiting' \in Seq(Threads) /\ waiting' # <<>>
      /\ Len(waiting) \in Nat /\ Len(waiting') = Len(waiting) + 1 /\ waiting'[Len(waiting) + 1] = t
      /\ \A i \in 1 .. Len(waiting) : waiting'[i] = waiting[i]
  BY <1>1, AppendProperties DEF Shape, Typed
<1>4. ~blocked[t]
  BY <1>0 DEF Shape, LocalOK, Blockable, Opening, Linking, Offerable
<1>5. /\ ~WriterIn(t) /\ ~ReaderIn(t) /\ ~WriterIn(t)' /\ ~ReaderIn(t)' /\ l \notin Joining /\ l # "ru_open"
  BY <1>0 DEF WriterIn, ReaderIn, Offerable, Joining
<1>6. \A x \in Threads : (WriterIn(x)' <=> WriterIn(x)) /\ (ReaderIn(x)' <=> ReaderIn(x))
  BY <1>5, <1>0, <1>2 DEF WriterIn, ReaderIn
<1>7. \A x \in Threads : Last(x)' <=> Last(x)
  <2>1. \A x \in Threads : (\E h \in Threads : pc'[h] \in Joining /\ predecessor'[h] = x)
                            <=> (\E h \in Threads : pc[h] \in Joining /\ predecessor[h] = x)
    <3>1. pc[t] \notin Joining /\ pc'[t] \notin Joining
      BY <1>0, <1>5 DEF Joining
    <3> QED
      BY <3>1, <1>0, <1>2
  <2>2. \A x \in Threads : x # t => (Followed(x)' <=> Followed(x))
    BY <2>1, <1>0, <1>2 DEF Followed
  <2> QED
    BY <2>2, <1>5, <1>6 DEF Last
<1>8. \A h \in Threads : h # t /\ Front(h) => Front(h)'
  <2>1. waiting # <<>> => 1 \in 1 .. Len(waiting)
    BY <1>3
  <2> QED
    BY <2>1, <1>3 DEF Front
<1>9. \A h \in Threads : Front(h)' => Front(h) \/ (waiting = <<>> /\ h = t)
  <2>1. waiting # <<>> => 1 \in 1 .. Len(waiting)
    BY <1>3
  <2>2. waiting = <<>> => waiting'[1] = t
    BY <1>3
  <2> QED
    BY <2>1, <2>2, <1>3 DEF Front
<1>10. \A x \in Threads : pc[x] \in Blockable \/ pc[x] = "ru_open" \/ pc[x] \in Joining => x # t
  BY <1>0 DEF Blockable, Opening, Linking, Offerable, Joining
<1>t. Typed'
  BY <1>0, <1>1, <1>3 DEF Shape, Typed, Requests, Classes
<1>l. LineOK'
  <2>1. \A i \in 1 .. Len(waiting) : waiting[i] \in Threads /\ waiting[i] # t
    BY <1>3, <1>4 DEF Shape, LineOK
  <2>2. ASSUME NEW i \in 1 .. Len(waiting'), NEW j \in 1 .. Len(waiting'), waiting'[i] = waiting'[j]
        PROVE  i = j
    <3>1. (i \in 1 .. Len(waiting) \/ i = Len(waiting) + 1) /\ (j \in 1 .. Len(waiting) \/ j = Len(waiting) + 1)
      BY <1>3
    <3> QED
      BY <2>1, <2>2, <3>1, <1>3 DEF Shape, LineOK
  <2>3. ASSUME NEW x \in Threads
        PROVE  blocked'[x] <=> \E i \in 1 .. Len(waiting') : waiting'[i] = x
    <3>1. CASE x = t
      <4>1. Len(waiting) + 1 \in 1 .. Len(waiting')
        BY <1>3
      <4> QED
        BY <3>1, <4>1, <1>2, <1>3
    <3>2. CASE x # t
      <4>1. (\E i \in 1 .. Len(waiting') : waiting'[i] = x) <=> (\E i \in 1 .. Len(waiting) : waiting[i] = x)
        <5>1. 1 .. Len(waiting') = (1 .. Len(waiting)) \cup {Len(waiting) + 1}
          BY <1>3
        <5> QED
          BY <5>1, <3>2, <1>3
      <4> QED
        BY <3>2, <4>1, <1>2 DEF Shape, LineOK
    <3> QED
      BY <3>1, <3>2
  <2> QED
    BY <2>2, <2>3 DEF LineOK
<1>c. LocalOK'
  <2>1. SUFFICES ASSUME NEW x \in Threads
                 PROVE  /\ lockclass'[x] = IF pc'[x] \in WriteLocs THEN "WRITE"
                                           ELSE IF pc'[x] \in ReadLocs THEN "READ" ELSE "NONE"
                        /\ blocked'[x] => pc'[x] \in Blockable
                        /\ pc'[x] \in Opening \cup Linking => blocked'[x]
                        /\ pc'[x] \in {"r_next", "r_pass"} => successor_class'[x] = "READ"
                        /\ pc'[x] \in {"r_pass", "wu_count", "wu_open"} => next'[x] # NULL
                        /\ pc'[x] = "wu_count" => lockclass'[next'[x]] = "READ"
    BY DEF LocalOK
  <2>2. CASE x = t
    BY <2>2, <1>0, <1>2 DEF WriteLocs, ReadLocs, Blockable, Opening, Linking
  <2>3. CASE x # t
    <3>1. ASSUME pc[x] = "wu_count"
          PROVE  lockclass'[next[x]] = "READ"
      <4>1. next[x] \in Threads /\ lockclass[next[x]] = "READ"
        BY <3>1 DEF Shape, LocalOK, Typed, Requests
      <4>2. next[x] # t
        BY <4>1, <1>0 DEF Shape, LocalOK, WriteLocs, ReadLocs
      <4> QED
        BY <4>1, <4>2, <1>2
    <3> QED
      BY <2>3, <3>1, <1>0, <1>2 DEF Shape, LocalOK
  <2> QED
    BY <2>2, <2>3
<1>j. JoiningOK'
  <2>1. ASSUME NEW h \in Threads, pc'[h] \in Joining
        PROVE  /\ predecessor'[h] \in Threads
               /\ ReaderIn(predecessor[h])' /\ NothingBehind(predecessor[h])'
    <3>1. h # t /\ pc[h] \in Joining /\ predecessor'[h] = predecessor[h]
      BY <2>1, <1>0, <1>2, <1>5
    <3>2. predecessor[h] \in Threads /\ ReaderIn(predecessor[h]) /\ NothingBehind(predecessor[h])
      BY <3>1 DEF Shape, JoiningOK
    <3>3. predecessor[h] # t
      BY <3>2, <1>5
    <3>4. PICK p \in Threads : p = predecessor[h]
      BY <3>2
    <3>5. ReaderIn(p)' /\ NothingBehind(p)'
      BY <3>2, <3>3, <3>4, <1>2, <1>6 DEF NothingBehind
    <3>6. predecessor'[h] = p
      BY <3>1, <3>4
    <3> QED
      BY <3>5, <3>6
  <2> QED
    BY <2>1 DEF JoiningOK
<1>a. TailOK'
  BY <1>1, <1>2, <1>3 DEF TailOK, NothingBehind
<1>f. FrontOK'
  <2>1. \A h \in Threads : Front(h) => h # t /\ Front(h)'
    BY <1>4, <1>8, FrontFacts
  <2>2. \A h \in Threads : next_writer' = h => Front(h)' /\ pc'[h] \in Offerable
    BY <2>1, <1>0, <1>1 DEF Shape, FrontOK
  <2>3. ASSUME NEW h \in Threads, pc'[h] = "ru_open"
        PROVE  w'[h] \in Threads /\ Front(w[h])' /\ pc'[w'[h]] \in Offerable
    <3>1. h # t /\ pc[h] = "ru_open"
      BY <2>3, <1>0, <1>5
    <3>2. w[h] \in Threads /\ Front(w[h]) /\ pc[w[h]] \in Offerable
      BY <3>1 DEF Shape, FrontOK
    <3>3. PICK x \in Threads : x = w[h]
      BY <3>2
    <3>4. Front(x)' /\ pc'[x] \in Offerable
      BY <2>1, <3>2, <3>3, <1>0
    <3> QED
      BY <3>3, <3>4, <1>1
  <2>4. ASSUME NEW h \in Threads, pc'[h] \in Opening
        PROVE  Front(h)'
    <3>1. CASE h # t
      BY <2>1, <2>4, <3>1, <1>0 DEF Shape, FrontOK
    <3>2. CASE h = t
      <4>1. tail = NULL
        BY <2>4, <3>2, <1>0 DEF Opening
      <4>2. waiting = <<>>
        <5>1. waiting # <<>> => tail \in Threads
          BY <1>3 DEF Shape, TailOK
        <5> QED
          BY <4>1, <5>1, ThreadsAssumption
      <4> QED
        BY <3>2, <4>2, <1>3 DEF Front
    <3> QED
      BY <3>1, <3>2
  <2> QED
    BY <2>2, <2>3, <2>4 DEF FrontOK
<1>e. ASSUME tail = NULL
      PROVE  LinkedOK' /\ LinkingOK' /\ OneTurn'
  <2>1. waiting = <<>>
    <3>1. waiting # <<>> => tail \in Threads
      BY <1>3 DEF Shape, TailOK
    <3> QED
      BY <1>e, <3>1, ThreadsAssumption
  <2>2. \A x \in Threads : ~Front(x)
    BY <2>1 DEF Front
  <2>3. \A x \in Threads : ~Last(x)
    BY <1>e, <2>1, ThreadsAssumption DEF Shape, TailOK
  <2>4. \A x \in Threads : ~HasTurn(x)
    BY <2>2, <2>3 DEF HasTurn, Shape, FrontOK
  <2>5. \A x \in Threads : HasTurn(x)' => x = t
    BY <2>4, <1>0, <1>1, <1>7 DEF HasTurn
  <2>6. \A q, h \in Threads : ~Ahead(q, h)' /\ ~Ahead(q, h)
    <3>1. Len(waiting) = 0 /\ Len(waiting') = 1
      BY <2>1, <1>3
    <3>2. \A i : i \notin 1 .. Len(waiting) - 1 /\ i \notin 1 .. Len(waiting') - 1
      BY <3>1
    <3> QED
      BY <2>2, <2>3, <3>2, <1>7 DEF Ahead
  <2>7. ASSUME NEW h \in Threads
        PROVE  pc'[h] \notin Linking
    <3>1. pc[h] \notin Linking
      BY <2>6 DEF Shape, LinkingOK
    <3>2. l \notin Linking
      BY <1>e DEF Linking
    <3> QED
      BY <3>1, <3>2, <1>0
  <2> QED
    BY <2>5, <2>6, <2>7 DEF LinkedOK, LinkingOK, OneTurn
<1>b. ASSUME tail # NULL
      PROVE  LinkedOK' /\ LinkingOK' /\ OneTurn'
  <2>0. PICK c \in Threads : c = tail
    BY <1>b DEF Shape, Typed, Requests
  <2>1. tail \in Threads
    BY <2>0
  <2>2. c # t /\ NothingBehind(c) /\ (waiting = <<>> => Last(c))
    <3>1. CASE waiting = <<>>
      BY <3>1, <1>b, <1>5, <2>0 DEF Shape, TailOK, Last
    <3>2. CASE waiting # <<>>
      <4>1. Len(waiting) \in 1 .. Len(waiting) /\ c = waiting[Len(waiting)] /\ NothingBehind(c)
        BY <3>2, <1>3, <2>0 DEF Shape, TailOK
      <4>2. blocked[c]
        BY <4>1 DEF Shape, LineOK
      <4> QED
        BY <3>2, <4>1, <4>2, <1>4
    <3> QED
      BY <3>1, <3>2
  <2>3. \A x \in Threads : HasTurn(x)' => HasTurn(x)
    <3>1. l \notin Opening
      BY <1>b DEF Opening
    <3> QED
      BY <3>1, <1>0, <1>1, <1>5, <1>7 DEF HasTurn
  <2>4. \A q, h \in Threads : Ahead(q, h)' => Ahead(q, h) \/ (q = c /\ h = t)
    <3>1. SUFFICES ASSUME NEW q \in Threads, NEW h \in Threads, Ahead(q, h)'
                   PROVE  Ahead(q, h) \/ (q = c /\ h = t)
      OBVIOUS
    <3>2. CASE Last(q)' /\ Front(h)'
      <4>1. CASE Front(h)
        BY <3>2, <4>1, <1>7 DEF Ahead
      <4>2. CASE waiting = <<>> /\ h = t
        BY <3>2, <4>2, <1>7, <2>2, LastFacts, TurnIsOne
      <4> QED
        BY <3>2, <4>1, <4>2, <1>9
    <3>3. CASE \E i \in 1 .. Len(waiting') - 1 : q = waiting'[i] /\ h = waiting'[i + 1]
      <4>1. PICK i \in 1 .. Len(waiting') - 1 : q = waiting'[i] /\ h = waiting'[i + 1]
        BY <3>3
      <4>2. i \in 1 .. Len(waiting) /\ q = waiting[i]
        BY <4>1, <1>3
      <4>3. CASE i = Len(waiting)
        <5>1. h = t /\ waiting # <<>>
          BY <4>1, <4>2, <4>3, <1>3
        <5>2. tail = waiting[Len(waiting)]
          BY <5>1 DEF Shape, TailOK
        <5> QED
          BY <2>0, <4>2, <4>3, <5>1, <5>2
      <4>4. CASE i # Len(waiting)
        <5>1. i \in 1 .. Len(waiting) - 1 /\ i + 1 \in 1 .. Len(waiting)
          BY <4>2, <4>4, <1>3
        <5>2. h = waiting[i + 1]
          BY <4>1, <5>1, <1>3
        <5> QED
          BY <4>2, <5>1, <5>2 DEF Ahead
      <4> QED
        BY <4>3, <4>4
    <3> QED
      BY <3>1, <3>2, <3>3 DEF Ahead
  <2>5. \A q, h \in Threads : Ahead(q, h) => Ahead(q, h)'
    <3>1. SUFFICES ASSUME NEW q \in Threads, NEW h \in Threads, Ahead(q, h)
                   PROVE  Ahead(q, h)'
      OBVIOUS
    <3>2. CASE Last(q) /\ Front(h)
      <4>1. Front(h)'
        BY <3>2, <1>4, <1>8, FrontFacts
      <4> QED
        BY <3>2, <4>1, <1>7 DEF Ahead
    <3>3. CASE \E i \in 1 .. Len(waiting) - 1 : q = waiting[i] /\ h = waiting[i + 1]
      <4>1. PICK i \in 1 .. Len(waiting) - 1 : q = waiting[i] /\ h = waiting[i + 1]
        BY <3>3
      <4>2. i \in 1 .. Len(waiting) /\ i + 1 \in 1 .. Len(waiting) /\ i \in 1 .. Len(waiting') - 1
        BY <4>1, <1>3
      <4>3. q = waiting'[i] /\ h = waiting'[i + 1]
        BY <4>1, <4>2, <1>3
      <4> QED
        BY <4>2, <4>3 DEF Ahead
    <3> QED
      BY <3>1, <3>2, <3>3 DEF Ahead
  <2>6. Ahead(c, t)'
    <3>1. CASE waiting = <<>>
      BY <3>1, <1>3, <1>7, <2>2 DEF Ahead, Front
    <3>2. CASE waiting # <<>>
      BY <3>2, <2>0, <1>3 DEF Ahead, Shape, TailOK
    <3> QED
      BY <3>1, <3>2
  <2>7. LinkedOK'
    <3>1. SUFFICES ASSUME NEW q \in Threads, NEW h \in Threads, Ahead(q, h)'
                   PROVE  Behind(q, h)'
      BY DEF LinkedOK
    <3>2. CASE Ahead(q, h)
      <4>1. Behind(q, h) /\ q # t /\ h # t
        BY <3>2, <1>4, <1>5, AheadFacts DEF Last
      <4> QED
        BY <4>1, <1>0, <1>2 DEF Behind
    <3>3. CASE q = c /\ h = t
      BY <3>3, <2>0, <2>2, <1>0, <1>2, <1>b DEF Behind, Linking, NothingBehind
    <3> QED
      BY <3>1, <3>2, <3>3, <2>4
  <2>8. LinkingOK'
    <3>1. ASSUME NEW h \in Threads, pc'[h] \in Linking
          PROVE  predecessor'[h] \in Threads /\ Ahead(predecessor[h], h)'
      <4>1. CASE h = t
        <5>1. predecessor'[h] = c
          BY <4>1, <2>0, <1>2
        <5> QED
          BY <4>1, <5>1, <2>6
      <4>2. CASE h # t
        <5>1. predecessor'[h] = predecessor[h] /\ predecessor[h] \in Threads /\ Ahead(predecessor[h], h)
          BY <3>1, <4>2, <1>0, <1>2 DEF Shape, LinkingOK
        <5>2. PICK q \in Threads : q = predecessor[h]
          BY <5>1
        <5>3. Ahead(q, h)'
          BY <5>1, <5>2, <2>5
        <5> QED
          BY <5>1, <5>2, <5>3
      <4> QED
        BY <4>1, <4>2
    <3> QED
      BY <3>1 DEF LinkingOK
  <2> QED
    BY <2>3, <2>7, <2>8 DEF Shape, OneTurn
<1> QED
  BY <1>t, <1>l, <1>c, <1>j, <1>a, <1>f, <1>e, <1>b DEF Shape

----------------------------------------------------------------------------
\* Clearing the flag of the head takes it off the line, and nobody else.
LEMMA UnblockHead ==
  ASSUME Shape, NEW u \in Threads, Front(u), Unblock(u)
  PROVE  /\ blocked' = [blocked EXCEPT ![u] = FALSE]
         /\ waiting' = Tail(waiting) /\ waiting' \in Seq(Threads)
         /\ Len(waiting) \in Nat /\ Len(waiting) # 0 /\ Len(waiting') = Len(waiting) - 1
         /\ \A i \in 1 .. Len(waiting) - 1 : waiting'[i] = waiting[i + 1]
         /\ LineOK'
<1>1. /\ waiting \in Seq(Threads) /\ waiting # <<>> /\ Len(waiting) \in Nat /\ Len(waiting) # 0
      /\ u = waiting[1] /\ 1 \in 1 .. Len(waiting) /\ DOMAIN waiting = 1 .. Len(waiting)
  BY DEF Shape, Typed, Front
<1>2. blocked[u]
  BY FrontFacts
<1> DEFINE i == CHOOSE i \in DOMAIN waiting : waiting[i] = u
<1>3. i \in DOMAIN waiting /\ waiting[i] = u
  BY <1>1
<1>4. i = 1
  BY <1>1, <1>3 DEF Shape, LineOK
<1>5. waiting' = SubSeq(waiting, 1, i - 1) \o SubSeq(waiting, i + 1, Len(waiting))
  BY <1>2 DEF Unblock
<1> HIDE DEF i
<1>6. SubSeq(waiting, 1, i - 1) = <<>>
  BY <1>1, <1>4, SubSeqEmpty
<1>7. SubSeq(waiting, i + 1, Len(waiting)) = Tail(waiting)
  BY <1>1, <1>4, TailIsSubSeq
<1>8. Tail(waiting) \in Seq(Threads)
  BY <1>1, HeadTailProperties
<1>9. waiting' = Tail(waiting)
  BY <1>5, <1>6, <1>7, <1>8, ConcatEmptySeq
<1>10. /\ Len(waiting') = Len(waiting) - 1
       /\ \A k \in 1 .. Len(waiting) - 1 : waiting'[k] = waiting[k + 1]
  BY <1>1, <1>9, HeadTailProperties
<1>11. blocked' = [blocked EXCEPT ![u] = FALSE]
  BY DEF Unblock
<1>12. LineOK'
  <2>1. ASSUME NEW j \in 1 .. Len(waiting'), NEW k \in 1 .. Len(waiting'), waiting'[j] = waiting'[k]
        PROVE  j = k
    <3>1. /\ j \in 1 .. Len(waiting) - 1 /\ k \in 1 .. Len(waiting) - 1
          /\ j + 1 \in 1 .. Len(waiting) /\ k + 1 \in 1 .. Len(waiting)
      BY <1>1, <1>10
    <3>2. waiting[j + 1] = waiting[k + 1]
      BY <2>1, <3>1, <1>10
    <3>3. j + 1 = k + 1
      BY <3>1, <3>2 DEF Shape, LineOK
    <3> QED
      BY <3>3, <3>1
  <2>2. ASSUME NEW x \in Threads
        PROVE  blocked'[x] <=> \E k \in 1 .. Len(waiting') : waiting'[k] = x
    <3>1. ASSUME NEW k \in 1 .. Len(waiting'), waiting'[k] = x
          PROVE  blocked[x] /\ x # u
      <4>1. k \in 1 .. Len(waiting) - 1 /\ k + 1 \in 1 .. Len(waiting) /\ k + 1 # 1
        BY <1>1, <1>10
      <4>2. waiting[k + 1] = x
        BY <3>1, <4>1, <1>10
      <4> QED
        BY <4>1, <4>2, <1>1 DEF Shape, LineOK
    <3>2. ASSUME blocked[x], x # u
          PROVE  \E k \in 1 .. Len(waiting') : waiting'[k] = x
      <4>1. PICK k \in 1 .. Len(waiting) : waiting[k] = x
        BY <3>2 DEF Shape, LineOK
      <4>2. k # 1
        BY <3>2, <4>1, <1>1
      <4>3. k - 1 \in 1 .. Len(waiting) - 1 /\ (k - 1) + 1 = k
        BY <4>1, <4>2, <1>1
      <4>4. waiting'[k - 1] = x
        BY <4>1, <4>3, <1>10
      <4> QED
        BY <4>3, <4>4, <1>10
    <3>3. blocked'[x] <=> blocked[x] /\ x # u
      BY <1>11 DEF Shape, Typed
    <3> QED
      BY <3>1, <3>2, <3>3
  <2> QED
    BY <2>1, <2>2 DEF LineOK
<1> QED
  BY <1>1, <1>8, <1>9, <1>10, <1>11, <1>12

\* How a thread that has the turn lets in the head of the queue: itself, the
\* one in its next, or the writer that it took from next_writer.
LetsIn(t, l, u) ==
  \/ pc[t] = "w_open" /\ l = "w_wait" /\ u = t /\ UNCHANGED <<links, w>>
  \/ pc[t] = "r_open" /\ l = "r_chain" /\ u = t /\ UNCHANGED <<links, w>>
  \/ pc[t] = "wu_open" /\ l = "idle" /\ u = next[t] /\ Discard(t) /\ UNCHANGED w
  \/ pc[t] = "r_pass" /\ l = "reading" /\ u = next[t] /\ UNCHANGED <<links, w>>
  \/ pc[t] = "ru_open" /\ l = "idle" /\ u = w[t] /\ w' = [w EXCEPT ![t] = NULL] /\ UNCHANGED links

LEMMA LetInFacts ==
  ASSUME Shape, NEW t \in Threads, NEW l, NEW u, LetsIn(t, l, u)
  PROVE  /\ u \in Threads /\ Front(u) /\ blocked[u] /\ HasTurn(t)
         /\ u # t => ~blocked[t] /\ pc[u] \in Offerable \cup {"r_wait"}
         /\ pc[t] \in {"wu_open", "r_pass", "ru_open"} => u # t
         /\ pc[t] = "r_pass" => pc[u] = "r_wait"
<1>1. CASE pc[t] \in {"w_open", "r_open"}
  <2>1. u = t /\ pc[t] \in Opening
    BY <1>1 DEF LetsIn, Opening
  <2> QED
    BY <1>1, <2>1, FrontFacts DEF Shape, FrontOK, HasTurn
<1>2. CASE pc[t] \in {"wu_open", "r_pass"}
  <2>1. u = next[t] /\ next[t] # NULL
    BY <1>2 DEF LetsIn, Shape, LocalOK
  <2>2. Last(t)
    BY <1>2, ChainerFacts DEF Last, WriterIn
  <2>3. /\ u \in Threads /\ Front(u) /\ Ahead(t, u) /\ pc[u] \in {"w_wait", "r_wait"}
        /\ blocked[u] /\ HasTurn(t) /\ ~blocked[t]
    BY <2>1, <2>2, PasserFacts, FrontFacts, LastFacts
  <2>4. ASSUME pc[t] = "r_pass"
        PROVE  pc[u] = "r_wait"
    <3>1. successor_class[t] = "READ" /\ Behind(t, u)
      BY <2>3, <2>4, AheadFacts DEF Shape, LocalOK
    <3>2. lockclass[u] # "WRITE"
      BY <2>3, <3>1 DEF Behind
    <3> QED
      BY <2>3, <3>2 DEF Shape, LocalOK, WriteLocs
  <2> QED
    BY <2>3, <2>4 DEF Offerable
<1>3. CASE pc[t] = "ru_open"
  <2>1. u = w[t] /\ u \in Threads /\ Front(u) /\ pc[u] \in Offerable
    BY <1>3 DEF LetsIn, Shape, FrontOK
  <2>2. ~blocked[t] /\ HasTurn(t)
    BY <1>3 DEF HasTurn, Shape, LocalOK, Blockable, Opening, Linking, Offerable
  <2> QED
    BY <1>3, <2>1, <2>2, FrontFacts
<1> QED
  BY <1>1, <1>2, <1>3 DEF LetsIn

LEMMA LetInStep ==
  ASSUME Shape, NEW t \in Threads, NEW l, NEW u, LetsIn(t, l, u), Goto(t, l), Unblock(u),
         UNCHANGED <<shared, predecessor>>
  PROVE  Shape' /\ waiting' = Tail(waiting)
<1> USE DEF links, shared
<1>1. /\ u \in Threads /\ Front(u) /\ blocked[u] /\ HasTurn(t)
      /\ u # t => ~blocked[t] /\ pc[u] \in Offerable \cup {"r_wait"}
      /\ pc[t] \in {"wu_open", "r_pass", "ru_open"} => u # t
      /\ pc[t] = "r_pass" => pc[u] = "r_wait"
  BY LetInFacts
<1>2. /\ blocked' = [blocked EXCEPT ![u] = FALSE]
      /\ waiting' = Tail(waiting) /\ waiting' \in Seq(Threads)
      /\ Len(waiting) \in Nat /\ Len(waiting) # 0 /\ Len(waiting') = Len(waiting) - 1
      /\ \A i \in 1 .. Len(waiting) - 1 : waiting'[i] = waiting[i + 1]
      /\ LineOK' /\ late' = late
  <2>1. late' = late
    BY DEF Unblock
  <2> QED
    BY <1>1, <2>1, UnblockHead
<1>3. /\ pc \in [Threads -> Locations] /\ pc' \in [Threads -> Locations]
      /\ pc'[t] = l /\ \A x \in Threads : x # t => pc'[x] = pc[x]
  BY DEF Shape, Typed, Goto, Locations, LetsIn
<1>4. l \notin Opening /\ l \notin Linking /\ l \notin Joining /\ l # "ru_open"
  BY DEF LetsIn, Opening, Linking, Joining
<1>5. /\ pc[t] \in {"w_open", "r_open", "wu_open", "r_pass", "ru_open"}
      /\ pc[t] \notin Linking /\ pc[t] \notin Joining /\ pc[t] \notin Offerable
  BY DEF LetsIn, Linking, Joining, Offerable
<1>6. /\ next' \in [Threads -> Requests] /\ successor_class' \in [Threads -> Classes]
      /\ lockclass' \in [Threads -> Classes] /\ w' \in [Threads -> Requests]
      /\ \A x \in Threads : x # t => /\ next'[x] = next[x] /\ successor_class'[x] = successor_class[x]
                                     /\ lockclass'[x] = lockclass[x] /\ w'[x] = w[x]
      /\ \A x \in Threads : x # u => blocked'[x] = blocked[x]
      /\ blocked'[u] = FALSE
  <2>0. /\ next \in [Threads -> Requests] /\ successor_class \in [Threads -> Classes]
        /\ lockclass \in [Threads -> Classes] /\ w \in [Threads -> Requests]
        /\ blocked \in [Threads -> BOOLEAN] /\ NULL \in Requests /\ "NONE" \in Classes
    BY DEF Shape, Typed, Requests, Classes
  <2>1. (\A x \in Threads : x # u => blocked'[x] = blocked[x]) /\ blocked'[u] = FALSE
    BY <1>1, <1>2, <2>0
  <2>2. CASE UNCHANGED <<links, w>>
    BY <2>0, <2>1, <2>2
  <2>3. CASE Discard(t) /\ UNCHANGED w
    BY <2>0, <2>1, <2>3 DEF Discard
  <2>4. CASE w' = [w EXCEPT ![t] = NULL] /\ UNCHANGED links
    BY <2>0, <2>1, <2>4
  <2> QED
    BY <2>2, <2>3, <2>4 DEF LetsIn
<1>7. t = u => UNCHANGED links
  BY <1>1, <1>5 DEF LetsIn
<1>8. next'[u] = next[u] /\ successor_class'[u] = successor_class[u] /\ lockclass'[u] = lockclass[u]
  BY <1>1, <1>6, <1>7
\* Those that wait from now on have no turn.
<1>9. ASSUME NEW x \in Threads
      PROVE  pc'[x] \notin Opening /\ next_writer # x /\ pc'[x] # "ru_open" /\ pc'[x] \notin Joining
  <2>1. CASE x = t
    BY <2>1, <1>3, <1>4, <1>5 DEF Shape, FrontOK
  <2>2. CASE x # t
    <3>1. ~HasTurn(x)
      BY <2>2, <1>1, TurnIsOne
    <3> QED
      BY <2>2, <3>1, <1>3 DEF HasTurn, Opening, Joining
  <2> QED
    BY <2>1, <2>2
<1>10. \A x \in Threads : x # t /\ x # u => ~Last(x)'
  <2>1. ASSUME NEW x \in Threads, x # t, x # u
        PROVE  ~Last(x)'
    <3>1. (WriterIn(x)' <=> WriterIn(x)) /\ (ReaderIn(x)' <=> ReaderIn(x))
      BY <2>1, <1>3, <1>6 DEF WriterIn, ReaderIn
    <3>2. ASSUME NEW h \in Threads, pc[h] \in Joining
          PROVE  FALSE
      <4>1. HasTurn(h)
        BY <3>2 DEF HasTurn, Opening, Joining
      <4> QED
        BY <3>2, <4>1, <1>1, <1>5, TurnIsOne
    <3>3. Followed(x) => Followed(x)'
      BY <2>1, <3>2, <1>3, <1>6 DEF Followed
    <3>4. ~Last(x)
      BY <2>1, <1>1, TurnIsOne, LastFacts
    <3> QED
      BY <3>1, <3>3, <3>4 DEF Last
  <2> QED
    BY <2>1
<1>11. t # u => ~Last(t)'
  <2>1. CASE l = "idle"
    BY <2>1, <1>3 DEF Last, WriterIn, ReaderIn, Offerable
  <2>2. ASSUME pc[t] = "r_pass"
        PROVE  ~Last(t)'
    <3>1. l = "reading" /\ UNCHANGED links /\ successor_class[t] = "READ"
      BY <2>2 DEF LetsIn, Shape, LocalOK
    <3>2. Followed(t)' /\ ~WriterIn(t)'
      BY <3>1, <1>3 DEF Followed, WriterIn, Offerable
    <3> QED
      BY <3>2 DEF Last
  <2> QED
    BY <2>1, <2>2 DEF LetsIn
<1>12. pc'[u] \in Offerable \cup {"r_wait", "r_chain"}
  <2>1. CASE t = u
    BY <2>1, <1>1, <1>3 DEF LetsIn, Offerable
  <2>2. CASE t # u
    BY <2>2, <1>1, <1>3 DEF Offerable
  <2> QED
    BY <2>1, <2>2
<1>13. Last(u)'
  <2>1. CASE pc'[u] \in Offerable
    BY <2>1, <1>6 DEF Last, WriterIn
  <2>2. ASSUME pc'[u] \in {"r_wait", "r_chain"}
        PROVE  Last(u)'
    <3>1. lockclass[u] = "READ"
      <4>1. pc[u] \in {"r_wait", "r_open"}
        BY <2>2, <1>1, <1>3 DEF LetsIn, Offerable
      <4> QED
        BY <4>1, <1>1 DEF Shape, LocalOK, WriteLocs, ReadLocs
    <3>2. next[u] = NULL \/ successor_class[u] # "NONE"
      <4>1. CASE Len(waiting) = 1
        <5>1. u = tail
          BY <4>1, <1>1, <1>2 DEF Front, Shape, TailOK
        <5> QED
          BY <5>1, <1>1 DEF Front, Shape, TailOK, NothingBehind
      <4>2. CASE Len(waiting) # 1
        <5>1. 1 \in 1 .. Len(waiting) - 1 /\ 1 + 1 \in 1 .. Len(waiting)
          BY <4>2, <1>2
        <5>2. PICK h \in Threads : h = waiting[1 + 1]
          BY <5>1, <1>2 DEF Shape, Typed
        <5>3. Ahead(u, h)
          BY <5>1, <5>2, <1>1 DEF Ahead, Front
        <5>4. Behind(u, h)
          BY <1>1, <5>3, AheadFacts
        <5> QED
          BY <3>1, <5>4 DEF Behind
      <4> QED
        BY <4>1, <4>2
    <3>3. ~Followed(u)'
      BY <2>2, <3>2, <1>8, <1>9 DEF Followed
    <3>4. ReaderIn(u)'
      BY <2>2, <1>6 DEF ReaderIn
    <3> QED
      BY <3>3, <3>4 DEF Last
  <2> QED
    BY <2>1, <2>2, <1>12
<1>14. \A x \in Threads : (Last(x)' <=> x = u) /\ (HasTurn(x)' => x = u)
  <2>1. \A x \in Threads : Last(x)' <=> x = u
    BY <1>1, <1>10, <1>11, <1>13
  <2> QED
    BY <2>1, <1>9 DEF HasTurn
<1>15. \A q, h \in Threads : Ahead(q, h)' => Ahead(q, h) /\ ~Front(h)
  <2>1. ASSUME NEW q \in Threads, NEW h \in Threads, Ahead(q, h)'
        PROVE  \E i \in 1 .. Len(waiting) - 1 : q = waiting[i] /\ h = waiting[i + 1]
    <3>1. CASE Last(q)' /\ Front(h)'
      <4>1. q = waiting[1] /\ waiting' # <<>> /\ h = waiting'[1]
        BY <3>1, <1>1, <1>14 DEF Front
      <4>2. 1 \in 1 .. Len(waiting) - 1
        BY <4>1, <1>2
      <4>3. h = waiting[1 + 1]
        BY <4>1, <4>2, <1>2
      <4> QED
        BY <4>1, <4>2, <4>3
    <3>2. CASE \E i \in 1 .. Len(waiting') - 1 : q = waiting'[i] /\ h = waiting'[i + 1]
      <4>1. PICK i \in 1 .. Len(waiting') - 1 : q = waiting'[i] /\ h = waiting'[i + 1]
        BY <3>2
      <4>2. i \in 1 .. Len(waiting) - 1 /\ i + 1 \in 1 .. Len(waiting) - 1
        BY <4>1, <1>2
      <4>3. q = waiting[i + 1] /\ h = waiting[(i + 1) + 1]
        BY <4>1, <4>2, <1>2
      <4> QED
        BY <4>2, <4>3
    <3> QED
      BY <2>1, <3>1, <3>2 DEF Ahead
  <2>2. ASSUME NEW q \in Threads, NEW h \in Threads,
               \E i \in 1 .. Len(waiting) - 1 : q = waiting[i] /\ h = waiting[i + 1]
        PROVE  Ahead(q, h) /\ ~Front(h)
    <3>1. PICK i \in 1 .. Len(waiting) - 1 : q = waiting[i] /\ h = waiting[i + 1]
      BY <2>2
    <3>2. 1 \in 1 .. Len(waiting) /\ i \in 1 .. Len(waiting) /\ i + 1 \in 1 .. Len(waiting) /\ i + 1 # 1
      BY <3>1, <1>2
    <3>3. ~Front(h)
      BY <3>1, <3>2 DEF Front, Shape, LineOK
    <3> QED
      BY <2>2, <3>3 DEF Ahead
  <2> QED
    BY <2>1, <2>2
<1>16. \A q, h \in Threads : Ahead(q, h) /\ ~Front(h) => Ahead(q, h)'
  <2>1. SUFFICES ASSUME NEW q \in Threads, NEW h \in Threads, Ahead(q, h), ~Front(h)
                 PROVE  Ahead(q, h)'
    OBVIOUS
  <2>2. PICK i \in 1 .. Len(waiting) - 1 : q = waiting[i] /\ h = waiting[i + 1]
    BY <2>1 DEF Ahead
  <2>3. CASE i = 1
    <3>1. q = u
      BY <2>2, <2>3, <1>1 DEF Front
    <3>2. waiting' # <<>> /\ waiting'[1] = h
      <4>1. 1 \in 1 .. Len(waiting) - 1 /\ Len(waiting') # 0
        BY <2>2, <2>3, <1>2
      <4> QED
        BY <2>2, <2>3, <4>1, <1>2
    <3> QED
      BY <3>1, <3>2, <1>13 DEF Ahead, Front
  <2>4. CASE i # 1
    <3>1. /\ i - 1 \in 1 .. Len(waiting) - 1 /\ i \in 1 .. Len(waiting) - 1
          /\ (i - 1) + 1 = i /\ i - 1 \in 1 .. Len(waiting') - 1
      BY <2>2, <2>4, <1>2
    <3>2. q = waiting'[i - 1] /\ h = waiting'[(i - 1) + 1]
      BY <2>2, <3>1, <1>2
    <3> QED
      BY <3>1, <3>2 DEF Ahead
  <2> QED
    BY <2>3, <2>4
<1>t. Typed'
  BY <1>2, <1>3, <1>6 DEF Shape, Typed
<1>c. LocalOK'
  <2>1. SUFFICES ASSUME NEW x \in Threads
                 PROVE  /\ lockclass'[x] = IF pc'[x] \in WriteLocs THEN "WRITE"
                                           ELSE IF pc'[x] \in ReadLocs THEN "READ" ELSE "NONE"
                        /\ blocked'[x] => pc'[x] \in Blockable
                        /\ pc'[x] \in Opening \cup Linking => blocked'[x]
                        /\ pc'[x] \in {"r_next", "r_pass"} => successor_class'[x] = "READ"
                        /\ pc'[x] \in {"r_pass", "wu_count", "wu_open"} => next'[x] # NULL
                        /\ pc'[x] = "wu_count" => lockclass'[next'[x]] = "READ"
    BY DEF LocalOK
  <2>2. pc'[x] # "wu_count"
    <3>1. x = t => pc'[x] # "wu_count"
      BY <1>3 DEF LetsIn
    <3>2. x # t => ~HasTurn(x)
      BY <1>1, TurnIsOne
    <3> QED
      BY <3>1, <3>2, <1>3 DEF HasTurn, Last, WriterIn
  <2>3. blocked'[x] => blocked[x] /\ x # u
    BY <1>1, <1>6
  <2>4. CASE x = t
    <3>1. lockclass'[t] = IF l \in WriteLocs THEN "WRITE" ELSE IF l \in ReadLocs THEN "READ" ELSE "NONE"
      BY DEF LetsIn, Discard, Shape, LocalOK, WriteLocs, ReadLocs, Typed
    <3>2. l \notin {"r_next", "r_pass", "wu_count", "wu_open"}
      BY DEF LetsIn
    <3>3. ~blocked'[t]
      BY <1>1, <1>6
    <3> QED
      BY <2>4, <3>1, <3>2, <3>3, <1>3, <1>4
  <2>5. CASE x # t
    <3>1. x = u => pc[x] \notin Opening \cup Linking
      BY <2>5, <1>1 DEF Opening, Linking, Offerable
    <3> QED
      BY <2>2, <2>3, <2>5, <3>1, <1>3, <1>6 DEF Shape, LocalOK
  <2> QED
    BY <2>4, <2>5
<1>n. LinkedOK'
  <2>1. SUFFICES ASSUME NEW q \in Threads, NEW h \in Threads, Ahead(q, h), ~Front(h)
                 PROVE  Behind(q, h)'
    BY <1>15 DEF LinkedOK
  <2>2. Behind(q, h) /\ blocked[q] /\ blocked[h] /\ h # u
    BY <2>1, <1>1, AheadFacts
  <2>3. h # t
    BY <2>2, <1>1
  <2>4. /\ next'[q] = next[q] /\ successor_class'[q] = successor_class[q] /\ lockclass'[q] = lockclass[q]
        /\ lockclass'[h] = lockclass[h] /\ pc'[h] = pc[h] /\ predecessor'[h] = predecessor[h]
    BY <2>2, <2>3, <1>1, <1>3, <1>6, <1>8
  <2> QED
    BY <2>2, <2>4 DEF Behind
<1>k. LinkingOK'
  <2>1. ASSUME NEW h \in Threads, pc'[h] \in Linking
        PROVE  predecessor[h] \in Threads /\ Ahead(predecessor[h], h)'
    <3>1. h # t /\ pc[h] \in Linking
      BY <2>1, <1>3, <1>4
    <3>2. h # u
      BY <3>1, <1>1 DEF Offerable, Linking
    <3>3. PICK q \in Threads : q = predecessor[h] /\ Ahead(q, h)
      BY <3>1 DEF Shape, LinkingOK
    <3>4. Ahead(q, h)'
      BY <3>2, <3>3, <1>1, <1>16 DEF Front
    <3> QED
      BY <3>3, <3>4
  <2> QED
    BY <2>1 DEF LinkingOK
<1>j. JoiningOK'
  BY <1>9 DEF JoiningOK
<1>a. TailOK'
  <2>1. tail = waiting[Len(waiting)] /\ NothingBehind(tail) /\ tail \in Threads /\ blocked[tail]
    <3>1. waiting # <<>> /\ Len(waiting) \in 1 .. Len(waiting)
      BY <1>1, <1>2 DEF Front
    <3>2. tail = waiting[Len(waiting)] /\ NothingBehind(tail) /\ tail \in Threads
      BY <3>1 DEF Shape, TailOK, Typed
    <3> QED
      BY <3>1, <3>2 DEF Shape, LineOK
  <2>2. NothingBehind(tail)'
    <3>1. next'[tail] = next[tail] /\ successor_class'[tail] = successor_class[tail]
      BY <2>1, <1>1, <1>6, <1>7
    <3> QED
      BY <2>1, <3>1 DEF NothingBehind
  <2>3. ASSUME waiting' # <<>>
        PROVE  tail = waiting'[Len(waiting')]
    <3>1. Len(waiting) - 1 \in 1 .. Len(waiting) - 1 /\ (Len(waiting) - 1) + 1 = Len(waiting)
      BY <2>3, <1>2
    <3>2. waiting'[Len(waiting) - 1] = waiting[Len(waiting)]
      BY <3>1, <1>2
    <3> QED
      BY <2>1, <3>2, <1>2
  <2>4. ASSUME waiting' = <<>>
        PROVE  tail = u
    <3>1. Len(waiting) = 1
      BY <2>4, <1>2
    <3> QED
      BY <2>1, <3>1, <1>1 DEF Front
  <2>5. waiting' = <<>> => \A p \in Threads : Last(p)' => tail = p /\ NothingBehind(p)'
    <3>1. waiting' = <<>> => NothingBehind(u)'
      BY <2>2, <2>4
    <3> QED
      BY <2>4, <3>1, <1>14
  <2>6. waiting' = <<>> => Last(tail)'
    BY <2>4, <1>13
  <2> QED
    BY <2>2, <2>3, <2>5, <2>6 DEF TailOK
<1>f. FrontOK'
  BY <1>9 DEF FrontOK
<1>o. OneTurn'
  BY <1>14 DEF OneTurn
<1> QED
  BY <1>t, <1>2, <1>c, <1>n, <1>k, <1>j, <1>a, <1>f, <1>o DEF Shape

----------------------------------------------------------------------------
\* The last request leaves, and the queue is empty.
LEMMA CloseStep ==
  ASSUME Shape, NEW t \in Threads, NEW l, Goto(t, l), tail = t, tail' = NULL, Discard(t),
         \/ pc[t] = "wu_close" /\ l = "idle"
         \/ pc[t] = "ru_close" /\ l = "ru_count",
         UNCHANGED <<reader_count, next_writer, blocked, locals, ghosts>>
  PROVE  Shape'
<1> USE DEF locals, ghosts
<1>0. /\ pc \in [Threads -> Locations] /\ pc' \in [Threads -> Locations]
      /\ pc'[t] = l /\ \A x \in Threads : x # t => pc'[x] = pc[x]
      /\ l \in {"idle", "ru_count"}
  BY DEF Shape, Typed, Goto, Locations
<1>1. ~blocked[t] /\ pc[t] # "wu_count"
  BY DEF Shape, LocalOK, Blockable, Opening, Linking, Offerable
<1>2. waiting = <<>>
  <2>1. ASSUME waiting # <<>>
        PROVE  FALSE
    <3>1. Len(waiting) \in 1 .. Len(waiting) /\ t = waiting[Len(waiting)]
      BY <2>1 DEF Shape, Typed, TailOK
    <3> QED
      BY <3>1, <1>1 DEF Shape, LineOK
  <2> QED
    BY <2>1
<1>3. Last(t)
  BY <1>2, ThreadsAssumption DEF Shape, TailOK
<1>4. \A x \in Threads : x # t => ~HasTurn(x)
  BY <1>3, LastFacts, TurnIsOne
<1>5. \A x \in Threads : ~blocked[x]
  <2>1. Len(waiting) = 0
    BY <1>2
  <2>2. \A i : i \notin 1 .. Len(waiting)
    BY <2>1
  <2> QED
    BY <2>2 DEF Shape, LineOK
<1>6. \A x \in Threads : pc[x] \notin Opening \cup Linking
  BY <1>5 DEF Shape, LocalOK
<1>7. \A x \in Threads : pc'[x] \notin Opening \cup Linking
  BY <1>0, <1>6 DEF Opening, Linking
<1>8. /\ next' \in [Threads -> Requests] /\ successor_class' \in [Threads -> Classes]
      /\ lockclass' \in [Threads -> Classes]
      /\ lockclass'[t] = "NONE"
      /\ \A x \in Threads : x # t => /\ next'[x] = next[x] /\ successor_class'[x] = successor_class[x]
                                     /\ lockclass'[x] = lockclass[x]
  BY DEF Discard, Shape, Typed, Requests, Classes
<1>9. \A x \in Threads : ~Last(x)'
  <2>1. ~Last(t)'
    BY <1>0 DEF Last, WriterIn, ReaderIn, Offerable
  <2>2. ASSUME NEW x \in Threads, x # t
        PROVE  ~Last(x)'
    <3>1. (WriterIn(x)' <=> WriterIn(x)) /\ (ReaderIn(x)' <=> ReaderIn(x))
      BY <2>2, <1>0 DEF WriterIn, ReaderIn
    <3>2. \A h \in Threads : pc[h] \notin Joining
      BY <1>6 DEF Opening, Joining
    <3>3. Followed(x) => Followed(x)'
      BY <2>2, <3>2, <1>0, <1>8 DEF Followed
    <3>4. ~Last(x)
      BY <2>2, <1>4 DEF HasTurn
    <3> QED
      BY <3>1, <3>3, <3>4 DEF Last
  <2> QED
    BY <2>1, <2>2
<1>10. \A x \in Threads : next_writer # x /\ pc'[x] # "ru_open"
  <2>1. \A x : ~Front(x)
    BY <1>2 DEF Front
  <2> QED
    BY <2>1, <1>0 DEF Shape, FrontOK
<1>11. \A q, h \in Threads : ~Ahead(q, h)'
  <2>1. Len(waiting) - 1 < 1
    BY <1>2
  <2>2. \A i : i \notin 1 .. Len(waiting) - 1
    BY <2>1
  <2> QED
    BY <2>2, <1>9 DEF Ahead
<1>t. Typed'
  BY <1>0, <1>8 DEF Shape, Typed, Requests
<1>l. LineOK'
  BY DEF Shape, LineOK
<1>c. LocalOK'
  <2>1. SUFFICES ASSUME NEW x \in Threads
                 PROVE  /\ lockclass'[x] = IF pc'[x] \in WriteLocs THEN "WRITE"
                                           ELSE IF pc'[x] \in ReadLocs THEN "READ" ELSE "NONE"
                        /\ blocked'[x] => pc'[x] \in Blockable
                        /\ pc'[x] \in Opening \cup Linking => blocked'[x]
                        /\ pc'[x] \in {"r_next", "r_pass"} => successor_class'[x] = "READ"
                        /\ pc'[x] \in {"r_pass", "wu_count", "wu_open"} => next'[x] # NULL
                        /\ pc'[x] = "wu_count" => lockclass'[next'[x]] = "READ"
    BY DEF LocalOK
  <2>2. CASE x = t
    BY <2>2, <1>0, <1>1, <1>8 DEF WriteLocs, ReadLocs, Opening, Linking
  <2>3. CASE x # t
    <3>1. pc[x] # "wu_count"
      BY <2>3, <1>4 DEF HasTurn, Last, WriterIn
    <3> QED
      BY <2>3, <3>1, <1>0, <1>5, <1>8 DEF Shape, LocalOK
  <2> QED
    BY <2>2, <2>3
<1>n. LinkedOK'
  BY <1>11 DEF LinkedOK
<1>k. LinkingOK'
  BY <1>7 DEF LinkingOK
<1>j. JoiningOK'
  BY <1>7 DEF JoiningOK, Joining, Opening
<1>a. TailOK'
  BY <1>2, <1>9 DEF TailOK
<1>f. FrontOK'
  BY <1>7, <1>10 DEF FrontOK
<1>o. OneTurn'
  BY <1>7, <1>9, <1>10 DEF OneTurn, HasTurn
<1> QED
  BY <1>t, <1>l, <1>c, <1>n, <1>k, <1>j, <1>a, <1>f, <1>o DEF Shape

\* A reader leaves whose successor is linked: a reader that it let in, or the
\* head of the queue, a writer, to which it passes the turn.
LEMMA HandOverStep ==
  ASSUME Shape, NEW t \in Threads, pc[t] = "ru_next", Goto(t, "ru_count"), next[t] # NULL,
         next_writer' = IF successor_class[t] = "WRITE" THEN next[t] ELSE next_writer,
         Discard(t), UNCHANGED <<tail, reader_count, blocked, locals, ghosts>>
  PROVE  Shape' /\ (successor_class[t] = "WRITE" => pc[next[t]] = "w_wait")
<1> USE DEF locals, ghosts
<1>0. /\ pc \in [Threads -> Locations] /\ pc' \in [Threads -> Locations]
      /\ pc'[t] = "ru_count" /\ \A x \in Threads : x # t => pc'[x] = pc[x]
  BY DEF Shape, Typed, Goto, Locations
<1>1. ~blocked[t] /\ lockclass[t] = "READ"
  BY DEF Shape, LocalOK, Blockable, Opening, Linking, Offerable, WriteLocs, ReadLocs
<1>2. /\ next' \in [Threads -> Requests] /\ successor_class' \in [Threads -> Classes]
      /\ lockclass' \in [Threads -> Classes]
      /\ lockclass'[t] = "NONE"
      /\ \A x \in Threads : x # t => /\ next'[x] = next[x] /\ successor_class'[x] = successor_class[x]
                                     /\ lockclass'[x] = lockclass[x]
  BY DEF Discard, Shape, Typed, Requests, Classes
<1>3. ASSUME successor_class[t] = "WRITE"
      PROVE  /\ Last(t) /\ next[t] \in Threads /\ Front(next[t]) /\ Ahead(t, next[t])
             /\ pc[next[t]] = "w_wait" /\ next_writer' = next[t]
  <2>1. /\ Last(t) /\ next[t] \in Threads /\ Front(next[t]) /\ Ahead(t, next[t])
        /\ pc[next[t]] \in {"w_wait", "r_wait"}
    BY <1>3, ChainerFacts, PasserFacts
  <2>2. lockclass[next[t]] = "WRITE"
    BY <2>1, <1>3, AheadFacts DEF Behind
  <2> QED
    BY <2>1, <2>2, <1>3 DEF Shape, LocalOK, ReadLocs, WriteLocs
<1>4. ASSUME successor_class[t] # "WRITE"
      PROVE  ~Last(t) /\ next_writer' = next_writer
  <2>1. successor_class[t] \in {"READ", "NONE"}
    BY <1>4 DEF Shape, Typed, Classes
  <2>2. Followed(t) /\ ~WriterIn(t)
    BY <2>1 DEF Followed, WriterIn, Offerable
  <2> QED
    BY <2>2, <1>4 DEF Last
<1>5. next_writer' \in Requests
  BY <1>3, <1>4 DEF Shape, Typed, Requests
<1>6. \A x \in Threads : (pc'[x] \in Opening <=> pc[x] \in Opening) /\ (pc'[x] \in Joining <=> pc[x] \in Joining)
                         /\ (pc'[x] \in Linking <=> pc[x] \in Linking) /\ (pc'[x] = "ru_open" <=> pc[x] = "ru_open")
                         /\ (pc'[x] \in Offerable <=> pc[x] \in Offerable) /\ (pc[x] \in Blockable => x # t)
                         /\ (pc[x] \in Linking => pc'[x] = pc[x])
  BY <1>0 DEF Opening, Joining, Linking, Offerable, Blockable
<1>7. \A x \in Threads : x # t => /\ WriterIn(x)' <=> WriterIn(x)
                                  /\ ReaderIn(x)' <=> ReaderIn(x)
                                  /\ Last(x)' <=> Last(x)
  <2>1. ASSUME NEW x \in Threads, x # t
        PROVE  /\ WriterIn(x)' <=> WriterIn(x)
               /\ ReaderIn(x)' <=> ReaderIn(x)
               /\ Followed(x)' <=> Followed(x)
    <3>1. (WriterIn(x)' <=> WriterIn(x)) /\ (ReaderIn(x)' <=> ReaderIn(x))
      BY <2>1, <1>0 DEF WriterIn, ReaderIn
    <3>2. Followed(x)' <=> Followed(x)
      BY <2>1, <1>0, <1>2, <1>6 DEF Followed
    <3> QED
      BY <3>1, <3>2
  <2> QED
    BY <2>1 DEF Last
<1>8. ~Last(t)'
  BY <1>0 DEF Last, WriterIn, ReaderIn, Offerable
<1>9. \A x \in Threads : Front(x)' <=> Front(x)
  BY DEF Front
<1>10. \A q, h \in Threads : Ahead(q, h)' <=> Ahead(q, h) /\ q # t
  <2>1. \A i \in 1 .. Len(waiting) - 1 : waiting[i] # t
    <3>1. \A i \in 1 .. Len(waiting) - 1 : i \in 1 .. Len(waiting)
      BY DEF Shape, Typed
    <3> QED
      BY <3>1, <1>1 DEF Shape, LineOK
  <2> QED
    BY <2>1, <1>7, <1>8, <1>9 DEF Ahead
<1>11. OneTurn'
  <2>1. CASE successor_class[t] = "WRITE"
    <3>1. PICK u \in Threads : u = next[t]
      BY <2>1, <1>3
    <3>2. ASSUME NEW x \in Threads, HasTurn(x)'
          PROVE  x = u
      <4>1. next_writer' = u
        BY <2>1, <3>1, <1>3
      <4>2. ASSUME x # u
            PROVE  x # t /\ HasTurn(x)
        <5>1. x # t
          BY <3>2, <4>1, <4>2, <1>0, <1>8 DEF HasTurn, Opening
        <5> QED
          BY <3>2, <4>1, <4>2, <5>1, <1>6, <1>7 DEF HasTurn
      <4> QED
        BY <2>1, <4>2, <1>3, LastFacts, TurnIsOne
    <3> QED
      BY <3>2 DEF OneTurn
  <2>2. CASE successor_class[t] # "WRITE"
    <3>1. \A x \in Threads : HasTurn(x)' => HasTurn(x)
      BY <2>2, <1>4, <1>6, <1>7, <1>8 DEF HasTurn
    <3> QED
      BY <3>1 DEF Shape, OneTurn
  <2> QED
    BY <2>1, <2>2
<1>t. Typed'
  BY <1>0, <1>2, <1>5 DEF Shape, Typed
<1>l. LineOK'
  BY DEF Shape, LineOK
<1>c. LocalOK'
  <2>1. SUFFICES ASSUME NEW x \in Threads
                 PROVE  /\ lockclass'[x] = IF pc'[x] \in WriteLocs THEN "WRITE"
                                           ELSE IF pc'[x] \in ReadLocs THEN "READ" ELSE "NONE"
                        /\ blocked'[x] => pc'[x] \in Blockable
                        /\ pc'[x] \in Opening \cup Linking => blocked'[x]
                        /\ pc'[x] \in {"r_next", "r_pass"} => successor_class'[x] = "READ"
                        /\ pc'[x] \in {"r_pass", "wu_count", "wu_open"} => next'[x] # NULL
                        /\ pc'[x] = "wu_count" => lockclass'[next'[x]] = "READ"
    BY DEF LocalOK
  <2>2. CASE x = t
    BY <2>2, <1>0, <1>1, <1>2 DEF WriteLocs, ReadLocs, Opening, Linking
  <2>3. CASE x # t
    <3>1. ASSUME pc[x] = "wu_count"
          PROVE  next[x] \in Threads /\ next[x] # t
      <4>1. Last(x) /\ next[x] # NULL
        BY <3>1 DEF Last, WriterIn, Shape, LocalOK
      <4>2. next[x] \in Threads /\ blocked[next[x]]
        BY <4>1, PasserFacts, FrontFacts
      <4> QED
        BY <4>2, <1>1
    <3> QED
      BY <2>3, <3>1, <1>0, <1>2 DEF Shape, LocalOK
  <2> QED
    BY <2>2, <2>3
<1>n. LinkedOK'
  <2>1. SUFFICES ASSUME NEW q \in Threads, NEW h \in Threads, Ahead(q, h), q # t
                 PROVE  Behind(q, h)'
    BY <1>10 DEF LinkedOK
  <2>2. Behind(q, h) /\ h # t
    BY <2>1, <1>1, AheadFacts
  <2> QED
    BY <2>1, <2>2, <1>0, <1>2 DEF Behind
<1>k. LinkingOK'
  <2>1. ASSUME NEW h \in Threads, pc'[h] \in Linking
        PROVE  predecessor[h] \in Threads /\ Ahead(predecessor[h], h)'
    <3>1. pc[h] \in Linking
      BY <2>1, <1>6
    <3>2. PICK q \in Threads : q = predecessor[h] /\ Ahead(q, h)
      BY <3>1 DEF Shape, LinkingOK
    <3>3. q # t
      <4>1. next[q] = NULL
        BY <3>1, <3>2, AheadFacts DEF Behind, Linking
      <4> QED
        BY <4>1
    <3>4. Ahead(q, h)'
      BY <3>2, <3>3, <1>10
    <3> QED
      BY <3>2, <3>4
  <2> QED
    BY <2>1 DEF LinkingOK
<1>j. JoiningOK'
  <2>1. ASSUME NEW h \in Threads, pc'[h] \in Joining
        PROVE  /\ predecessor[h] \in Threads /\ ReaderIn(predecessor[h])'
               /\ NothingBehind(predecessor[h])'
    <3>1. pc[h] \in Joining
      BY <2>1, <1>6
    <3>2. PICK q \in Threads : q = predecessor[h] /\ ReaderIn(q) /\ NothingBehind(q)
      BY <3>1 DEF Shape, JoiningOK
    <3>3. q # t
      BY <3>2 DEF NothingBehind
    <3>4. ReaderIn(q)' /\ NothingBehind(q)'
      BY <3>2, <3>3, <1>2, <1>7 DEF NothingBehind
    <3> QED
      BY <3>2, <3>4
  <2> QED
    BY <2>1 DEF JoiningOK
<1>a. TailOK'
  <2>1. tail # t
    <3>1. ~NothingBehind(t)
      BY DEF NothingBehind
    <3>2. waiting # <<>> => tail # t
      BY <3>1 DEF Shape, TailOK
    <3>3. waiting = <<>> => ~Last(t)
      BY <3>1 DEF Shape, TailOK
    <3>4. waiting = <<>> => (tail = t => Last(t))
      BY ThreadsAssumption DEF Shape, TailOK
    <3> QED
      BY <3>2, <3>3, <3>4
  <2>2. waiting # <<>> => tail = waiting[Len(waiting)] /\ NothingBehind(tail)'
    <3>1. ASSUME waiting # <<>>
          PROVE  tail \in Threads /\ tail = waiting[Len(waiting)] /\ NothingBehind(tail)
      BY <3>1 DEF Shape, TailOK, Typed
    <3> QED
      BY <3>1, <2>1, <1>2 DEF NothingBehind
  <2>3. ASSUME waiting = <<>>, NEW p \in Threads, Last(p)'
        PROVE  tail = p /\ NothingBehind(p)'
    <3>1. p # t /\ Last(p)
      BY <2>3, <1>7, <1>8
    <3> QED
      BY <2>3, <3>1, <1>2 DEF Shape, TailOK, NothingBehind
  <2>4. ASSUME waiting = <<>>, tail # NULL
        PROVE  Last(tail)'
    <3>1. tail \in Threads /\ Last(tail)
      BY <2>4 DEF Shape, TailOK, Typed, Requests
    <3> QED
      BY <2>1, <3>1, <1>7
  <2> QED
    BY <2>2, <2>3, <2>4 DEF TailOK
<1>f. FrontOK'
  <2>1. ASSUME NEW h \in Threads, next_writer' = h
        PROVE  Front(h) /\ pc[h] \in Offerable
    BY <2>1, <1>3, <1>4 DEF Offerable, Shape, FrontOK
  <2> QED
    BY <2>1, <1>6, <1>9 DEF Shape, FrontOK
<1> QED
  BY <1>3, <1>t, <1>l, <1>c, <1>n, <1>k, <1>j, <1>a, <1>f, <1>11 DEF Shape

----------------------------------------------------------------------------
\* Nobody but the writer itself is in next_writer when it takes its offer back.
LEMMA OwnOffer ==
  ASSUME Shape, NEW t \in Threads, pc[t] = "w_take", next_writer # t
  PROVE  next_writer = NULL
<1>1. ASSUME NEW u \in Threads, next_writer = u
      PROVE  FALSE
  <2>1. Front(u) /\ HasTurn(u)
    BY <1>1 DEF HasTurn, Shape, FrontOK
  <2>2. CASE ~blocked[t]
    <3>1. HasTurn(t)
      BY <2>2 DEF HasTurn, Last, WriterIn, Offerable
    <3> QED
      BY <2>1, <3>1, <1>1, TurnIsOne
  <2>3. CASE blocked[t]
    <3>1. PICK i \in 1 .. Len(waiting) : waiting[i] = t
      BY <2>3 DEF Shape, LineOK
    <3>2. i # 1
      BY <2>1, <3>1, <1>1 DEF Front
    <3>3. /\ i - 1 \in 1 .. Len(waiting) - 1 /\ (i - 1) + 1 = i /\ i - 1 \in 1 .. Len(waiting)
      BY <3>1, <3>2 DEF Shape, Typed
    <3>4. PICK q \in Threads : q = waiting[i - 1]
      BY <3>3 DEF Shape, Typed
    <3>5. Ahead(q, t)
      BY <3>1, <3>3, <3>4 DEF Ahead
    <3> QED
      BY <3>5, AheadFacts DEF Behind, Linking
  <2> QED
    BY <2>2, <2>3
<1> QED
  BY <1>1 DEF Shape, Typed, Requests

\* The turn passes from a writer to next_writer, from there to the writer or
\* to the reader that takes it.
OfferMove(t, l) ==
  \/ pc[t] = "w_publish" /\ l = "w_test" /\ next_writer' = t /\ UNCHANGED w
  \/ pc[t] = "w_take" /\ l = "w_open" /\ next_writer = t /\ next_writer' = NULL /\ UNCHANGED w
  \/ /\ pc[t] = "ru_take" /\ l = "ru_open" /\ next_writer # NULL /\ next_writer' = NULL
     /\ w' = [w EXCEPT ![t] = next_writer]

LEMMA OfferStep ==
  ASSUME Shape, NEW t \in Threads, NEW l, OfferMove(t, l), Goto(t, l),
         UNCHANGED <<tail, reader_count, fields, predecessor, waiting>>, late' \in BOOLEAN
  PROVE  Shape'
<1> USE DEF fields
<1>0. /\ pc \in [Threads -> Locations] /\ pc' \in [Threads -> Locations]
      /\ pc'[t] = l /\ \A x \in Threads : x # t => pc'[x] = pc[x]
  BY DEF Shape, Typed, Goto, Locations, OfferMove
<1>1. PICK a \in Threads : HasTurn(a) /\ Front(a) /\ (pc[t] = "ru_take" => a = next_writer /\ a # t)
                           /\ (pc[t] # "ru_take" => a = t)
  <2>1. CASE pc[t] = "w_publish"
    BY <2>1 DEF HasTurn, Opening, Shape, FrontOK
  <2>2. CASE pc[t] = "w_take"
    BY <2>2 DEF OfferMove, HasTurn, Shape, FrontOK
  <2>3. CASE pc[t] = "ru_take"
    <3>1. next_writer \in Threads /\ next_writer # t
      BY <2>3 DEF OfferMove, Shape, Typed, Requests, FrontOK, Offerable
    <3> QED
      BY <2>3, <3>1 DEF HasTurn, Shape, FrontOK
  <2> QED
    BY <2>1, <2>2, <2>3 DEF OfferMove
<1>2. \A x \in Threads : HasTurn(x) => x = a
  BY <1>1, TurnIsOne
<1>3. \A x \in Threads : ~Last(x)
  BY <1>1, <1>2, LastFacts
<1>4. blocked[a] /\ (pc[t] # "ru_take" => blocked[t])
  BY <1>1, FrontFacts
<1>5. \A x \in Threads : (WriterIn(x)' <=> WriterIn(x)) /\ (ReaderIn(x)' <=> ReaderIn(x))
  <2>1. ~WriterIn(t) /\ ~ReaderIn(t) /\ ~WriterIn(t)' /\ ~ReaderIn(t)'
    BY <1>0, <1>4 DEF WriterIn, ReaderIn, Offerable, OfferMove
  <2> QED
    BY <2>1, <1>0 DEF WriterIn, ReaderIn
<1>6. \A x \in Threads : /\ pc'[x] \in Joining <=> pc[x] \in Joining
                         /\ pc'[x] \in Linking <=> pc[x] \in Linking
                         /\ x # t => pc'[x] = pc[x]
  BY <1>0 DEF Joining, Linking, OfferMove
<1>7. \A x \in Threads : ~Last(x)'
  <2>1. ASSUME NEW x \in Threads, Last(x)'
        PROVE  x # t /\ Last(x)
    <3>1. x # t
      BY <2>1, <1>0, <1>4 DEF Last, WriterIn, ReaderIn, Offerable, OfferMove
    <3>2. Followed(x) => Followed(x)'
      BY <3>1, <1>6 DEF Followed
    <3> QED
      BY <2>1, <3>1, <3>2, <1>5 DEF Last
  <2> QED
    BY <2>1, <1>3
<1>8. \A x \in Threads : HasTurn(x)' => x = t
  <2>1. ASSUME NEW x \in Threads, HasTurn(x)', x # t
        PROVE  HasTurn(x) /\ x # a
    <3>1. pc[x] \in Opening \/ pc[x] = "ru_open"
      BY <2>1, <1>0, <1>7, ThreadsAssumption DEF HasTurn, OfferMove
    <3>2. x # a
      <4>1. pc[t] = "ru_take" => pc[a] \in Offerable
        BY <1>1 DEF Shape, FrontOK
      <4> QED
        BY <2>1, <3>1, <4>1, <1>1 DEF Offerable, Opening
    <3> QED
      BY <3>1, <3>2 DEF HasTurn
  <2> QED
    BY <2>1, <1>2
<1>9. \A x \in Threads : (Front(x)' <=> Front(x)) /\ (NothingBehind(x)' <=> NothingBehind(x))
  BY DEF Front, NothingBehind
<1>10. \A q, h \in Threads : Ahead(q, h)' <=> Ahead(q, h)
  BY <1>3, <1>7 DEF Ahead
<1>11. next_writer' \in Requests /\ w' \in [Threads -> Requests] /\ \A x \in Threads : x # t => w'[x] = w[x]
  BY DEF OfferMove, Shape, Typed, Requests
<1>t. Typed'
  BY <1>0, <1>11 DEF Shape, Typed
<1>l. LineOK'
  BY DEF Shape, LineOK
<1>c. LocalOK'
  <2>1. SUFFICES ASSUME NEW x \in Threads
                 PROVE  /\ lockclass[x] = IF pc'[x] \in WriteLocs THEN "WRITE"
                                          ELSE IF pc'[x] \in ReadLocs THEN "READ" ELSE "NONE"
                        /\ blocked[x] => pc'[x] \in Blockable
                        /\ pc'[x] \in Opening \cup Linking => blocked[x]
                        /\ pc'[x] \in {"r_next", "r_pass"} => successor_class[x] = "READ"
                        /\ pc'[x] \in {"r_pass", "wu_count", "wu_open"} => next[x] # NULL
                        /\ pc'[x] = "wu_count" => lockclass[next[x]] = "READ"
    BY DEF LocalOK
  <2>2. CASE x = t
    BY <2>2, <1>0, <1>4 DEF Shape, LocalOK, OfferMove, WriteLocs, ReadLocs, Blockable, Opening, Linking, Offerable
  <2>3. CASE x # t
    BY <2>3, <1>0 DEF Shape, LocalOK
  <2> QED
    BY <2>2, <2>3
<1>n. LinkedOK'
  <2>1. SUFFICES ASSUME NEW q \in Threads, NEW h \in Threads, Ahead(q, h)
                 PROVE  Behind(q, h)'
    BY <1>10 DEF LinkedOK
  <2>2. Behind(q, h)
    BY <2>1, AheadFacts
  <2>3. h # t
    BY <2>2 DEF Behind, Linking, OfferMove
  <2> QED
    BY <2>2, <2>3, <1>0 DEF Behind
<1>k. LinkingOK'
  BY <1>6, <1>10 DEF Shape, LinkingOK
<1>j. JoiningOK'
  BY <1>5, <1>6, <1>9 DEF Shape, JoiningOK
<1>a. TailOK'
  <2>1. waiting # <<>>
    BY <1>1 DEF Front
  <2> QED
    BY <2>1 DEF Shape, TailOK, NothingBehind
<1>f. FrontOK'
  <2>1. ASSUME NEW h \in Threads, pc'[h] \in Opening
        PROVE  Front(h)'
    <3>1. h = t
      BY <2>1, <1>8 DEF HasTurn
    <3>2. pc[t] # "ru_take"
      BY <2>1, <3>1, <1>0 DEF OfferMove, Opening
    <3> QED
      BY <3>1, <3>2, <1>1, <1>9
  <2>2. ASSUME NEW h \in Threads, next_writer' = h
        PROVE  Front(h)' /\ pc'[h] \in Offerable
    <3>1. pc[t] = "w_publish" /\ h = t
      BY <2>2, ThreadsAssumption DEF OfferMove
    <3> QED
      BY <3>1, <1>0, <1>1, <1>9 DEF OfferMove, Offerable
  <2>3. ASSUME NEW h \in Threads, pc'[h] = "ru_open"
        PROVE  w'[h] \in Threads /\ Front(w[h])' /\ pc'[w'[h]] \in Offerable
    <3>1. h = t /\ pc[t] = "ru_take"
      <4>1. h = t
        BY <2>3, <1>8 DEF HasTurn
      <4> QED
        BY <2>3, <4>1, <1>0 DEF OfferMove
    <3>2. w'[h] = a /\ pc[a] \in Offerable /\ a # t
      BY <3>1, <1>1 DEF OfferMove, Shape, Typed, FrontOK
    <3>3. Front(a)' /\ pc'[a] \in Offerable
      BY <3>2, <1>0, <1>1, <1>9
    <3> QED
      BY <3>2, <3>3
  <2> QED
    BY <2>1, <2>2, <2>3 DEF FrontOK
<1>o. OneTurn'
  BY <1>8 DEF OneTurn
<1> QED
  BY <1>t, <1>l, <1>c, <1>n, <1>k, <1>j, <1>a, <1>f, <1>o DEF Shape

----------------------------------------------------------------------------
(* The readers that are counted: what changes their set.                    *)

InCount(x) ==
  \/ pc[x] \in {"r_chain", "r_next", "r_pass", "reading", "ru_close", "ru_next", "ru_count", "r_open", "r_join"}
  \/ pc[x] = "r_wait" /\ ~blocked[x]

Passing(x) == pc[x] = "r_pass" \/ (pc[x] = "wu_open" /\ lockclass[next[x]] = "READ")

LEMMA PassingFacts ==
  ASSUME Shape, NEW x \in Threads, pc[x] \in {"r_pass", "wu_open", "wu_count"}
  PROVE  /\ HasTurn(x) /\ next[x] \in Threads /\ Front(next[x]) /\ blocked[next[x]] /\ next[x] # NULL
         /\ ~blocked[x] /\ pc[next[x]] \in {"w_wait", "r_wait"}
         /\ lockclass[next[x]] = "READ" => pc[next[x]] = "r_wait"
         /\ pc[x] = "r_pass" => lockclass[next[x]] = "READ"
<1>1. Last(x)
  BY ChainerFacts DEF Last, WriterIn
<1>2. next[x] # NULL
  BY DEF Shape, LocalOK
<1>3. /\ next[x] \in Threads /\ Front(next[x]) /\ Ahead(x, next[x]) /\ blocked[next[x]]
      /\ pc[next[x]] \in {"w_wait", "r_wait"} /\ HasTurn(x) /\ ~blocked[x]
  BY <1>1, <1>2, PasserFacts, LastFacts, FrontFacts
<1>4. lockclass[next[x]] = IF pc[next[x]] = "w_wait" THEN "WRITE" ELSE "READ"
  BY <1>3 DEF Shape, LocalOK, WriteLocs, ReadLocs
<1>5. ASSUME pc[x] = "r_pass"
      PROVE  lockclass[next[x]] = "READ"
  <2>1. successor_class[x] = "READ" /\ Behind(x, next[x])
    BY <1>3, <1>5, AheadFacts DEF Shape, LocalOK
  <2>2. lockclass[next[x]] # "WRITE"
    BY <1>3, <2>1 DEF Behind
  <2> QED
    BY <1>4, <2>2
<1> QED
  BY <1>2, <1>3, <1>4, <1>5

Counts(x) == InCount(x) \/ \E t \in Threads : Passing(t) /\ next[t] = x

ReallyCounted == {x \in Threads : Counts(x)}

CountedFinite ==
  /\ Counted = ReallyCounted
  /\ IsFiniteSet(Counted) /\ Cardinality(Counted) \in Nat

LEMMA CountedIs == Shape => CountedFinite
<1> SUFFICES ASSUME Shape
             PROVE  CountedFinite
  OBVIOUS
<1>1. \A t \in Threads : Passing(t) => next[t] \in Threads
  BY PassingFacts DEF Passing
<1>2. Counted = {x \in Threads : InCount(x)} \cup {next[t] : t \in {t \in Threads : Passing(t)}}
  BY DEF Counted, InCount, Passing
<1>3. Counted = ReallyCounted
  BY <1>1, <1>2 DEF ReallyCounted, Counts
<1>4. Counted \subseteq Threads
  BY <1>3 DEF ReallyCounted
<1> QED
  BY <1>3, <1>4, ThreadsAssumption, FS_Subset, FS_CardinalityType DEF CountedFinite

LEMMA CountSame ==
  ASSUME Shape, Shape', CountExact, reader_count' = reader_count,
         \A x \in Threads : Counts(x)' <=> Counts(x)
  PROVE  CountExact'
<1>1. CountedFinite'
  BY CountedIs, PTL
<1>2. Counted' = Counted
  BY <1>1, CountedIs DEF CountedFinite, ReallyCounted
<1> QED
  BY <1>2 DEF CountExact

LEMMA CountAdd ==
  ASSUME Shape, Shape', CountExact, reader_count' = reader_count + 1,
         NEW y \in Threads, ~Counts(y),
         \A x \in Threads : Counts(x)' <=> Counts(x) \/ x = y
  PROVE  CountExact'
<1>1. CountedFinite'
  BY CountedIs, PTL
<1>2. Counted' = Counted \cup {y} /\ y \notin Counted /\ IsFiniteSet(Counted)
  BY <1>1, CountedIs DEF CountedFinite, ReallyCounted
<1>3. Cardinality(Counted') = Cardinality(Counted) + 1
  BY <1>2, FS_AddElement
<1> QED
  BY <1>3 DEF CountExact

LEMMA CountRemove ==
  ASSUME Shape, Shape', CountExact, reader_count' = reader_count - 1,
         NEW y \in Threads, Counts(y),
         \A x \in Threads : Counts(x)' <=> Counts(x) /\ x # y
  PROVE  CountExact'
<1>1. CountedFinite'
  BY CountedIs, PTL
<1>2. Counted' = Counted \ {y} /\ y \in Counted /\ IsFiniteSet(Counted)
  BY <1>1, CountedIs DEF CountedFinite, ReallyCounted
<1>3. Cardinality(Counted') = Cardinality(Counted) - 1
  BY <1>2, FS_RemoveElement
<1> QED
  BY <1>3 DEF CountExact

LEMMA CountPositive ==
  ASSUME Shape, CountExact, NEW t \in Threads, Counts(t)
  PROVE  reader_count \in Nat /\ reader_count # 0
<1>1. t \in Counted /\ IsFiniteSet(Counted) /\ Cardinality(Counted) \in Nat
  BY CountedIs DEF CountedFinite, ReallyCounted
<1>2. Cardinality(Counted) # 0
  BY <1>1, FS_EmptySet
<1> QED
  BY <1>1, <1>2 DEF CountExact

\* The threads that did not move are counted as before.
LEMMA OthersCount ==
  ASSUME Shape, NEW t \in Threads, NEW l, Goto(t, l),
         \A x \in Threads : x # t => blocked'[x] = blocked[x] \/ pc[x] # "r_wait",
         \A x \in Threads : x # t /\ next[x] # NULL => next'[x] = next[x],
         \A x \in Threads : blocked[x] => lockclass'[x] = lockclass[x]
  PROVE  \A x \in Threads : x # t => /\ InCount(x)' <=> InCount(x)
                                     /\ Passing(x)' <=> Passing(x)
                                     /\ Passing(x) => next'[x] = next[x]
<1>1. \A x \in Threads : x # t => pc'[x] = pc[x]
  BY DEF Goto, Shape, Typed
<1>2. SUFFICES ASSUME NEW x \in Threads, x # t
               PROVE  /\ InCount(x)' <=> InCount(x)
                      /\ Passing(x)' <=> Passing(x)
                      /\ Passing(x) => next'[x] = next[x]
  OBVIOUS
<1>3. InCount(x)' <=> InCount(x)
  BY <1>1, <1>2 DEF InCount
<1>4. CASE pc[x] \in {"r_pass", "wu_open"}
  <2>1. next[x] \in Threads /\ blocked[next[x]] /\ next[x] # NULL
    BY <1>4, PassingFacts
  <2>2. next'[x] = next[x] /\ lockclass'[next[x]] = lockclass[next[x]]
    BY <1>2, <2>1
  <2> QED
    BY <1>1, <1>2, <1>3, <2>2 DEF Passing
<1>5. CASE pc[x] \notin {"r_pass", "wu_open"}
  BY <1>1, <1>2, <1>3, <1>5 DEF Passing
<1> QED
  BY <1>4, <1>5

LEMMA CountKept ==
  ASSUME Shape, Shape', CountExact, reader_count' = reader_count,
         NEW t \in Threads, NEW l, Goto(t, l),
         \A x \in Threads : x # t => blocked'[x] = blocked[x] \/ pc[x] # "r_wait",
         \A x \in Threads : x # t /\ next[x] # NULL => next'[x] = next[x],
         \A x \in Threads : blocked[x] => lockclass'[x] = lockclass[x],
         InCount(t)' <=> InCount(t), ~Passing(t), ~Passing(t)'
  PROVE  CountExact'
<1>1. \A x \in Threads : x # t => /\ InCount(x)' <=> InCount(x)
                                  /\ Passing(x)' <=> Passing(x)
                                  /\ Passing(x) => next'[x] = next[x]
  BY OthersCount
<1>2. \A x \in Threads : Counts(x)' <=> Counts(x)
  BY <1>1 DEF Counts
<1> QED
  BY <1>2, CountSame

----------------------------------------------------------------------------
(* Every step keeps Shape, and lets in no one but the head of the queue.    *)

Orderly(t) ==
  \/ waiting' = waiting
  \/ waiting' = Append(waiting, t)
  \/ waiting # <<>> /\ waiting' = Tail(waiting)

LEMMA SilentActions ==
  ASSUME Shape, CountExact, NEW t \in Threads,
         \/ WriteTest(t) \/ WriteWait(t) \/ WriteAssert(t) \/ WriteUnlock(t)
         \/ WriteNext(t) \/ WriteCount(t) \/ ReadWait(t) \/ ReadFirst(t) \/ ReadCount(t)
         \/ ReadChain(t) \/ ReadNext(t) \/ ReadUnlock(t) \/ ReadUncount(t)
         \/ WriteClose(t) /\ tail # t
         \/ ReadClose(t) /\ tail # t
         \/ WriteTake(t) /\ next_writer # t
         \/ ReadTake(t) /\ next_writer = NULL
  PROVE  Shape' /\ waiting' = waiting
<1> USE DEF fields, locals, shared, ghosts
<1>1. PICK l \in Locations : Goto(t, l) /\ SilentMove(t, l)
  <2>1. ASSUME WriteTest(t) \/ WriteWait(t) \/ WriteAssert(t) \/ WriteUnlock(t)
        PROVE  \E l \in Locations : Goto(t, l) /\ SilentMove(t, l)
    BY <2>1 DEF WriteTest, WriteWait, WriteAssert, WriteUnlock, At, SilentMove, Locations
  <2>2. ASSUME WriteNext(t)
        PROVE  \E l \in Locations : Goto(t, l) /\ SilentMove(t, l)
    <3>1. CASE lockclass[next[t]] = "READ"
      BY <2>2, <3>1 DEF WriteNext, At, SilentMove, Locations
    <3>2. CASE lockclass[next[t]] # "READ"
      BY <2>2, <3>2 DEF WriteNext, At, SilentMove, Locations
    <3> QED
      BY <3>1, <3>2
  <2>3. ASSUME WriteCount(t) \/ ReadWait(t) \/ ReadFirst(t) \/ ReadCount(t)
        PROVE  \E l \in Locations : Goto(t, l) /\ SilentMove(t, l)
    BY <2>3 DEF WriteCount, ReadWait, ReadFirst, ReadCount, At, SilentMove, Locations
  <2>4. ASSUME ReadChain(t) \/ ReadNext(t) \/ ReadUnlock(t) \/ ReadUncount(t)
        PROVE  \E l \in Locations : Goto(t, l) /\ SilentMove(t, l)
    BY <2>4 DEF ReadChain, ReadNext, ReadUnlock, ReadUncount, At, SilentMove, Locations
  <2>5. ASSUME (WriteClose(t) \/ ReadClose(t)) /\ tail # t
        PROVE  \E l \in Locations : Goto(t, l) /\ SilentMove(t, l)
    BY <2>5 DEF WriteClose, ReadClose, CloseQueue, At, SilentMove, Locations
  <2>6. ASSUME (WriteTake(t) /\ next_writer # t) \/ (ReadTake(t) /\ next_writer = NULL)
        PROVE  \E l \in Locations : Goto(t, l) /\ SilentMove(t, l)
    BY <2>6 DEF WriteTake, ReadTake, At, SilentMove, Locations
  <2> QED
    BY <2>1, <2>2, <2>3, <2>4, <2>5, <2>6
<1>2. reader_count' \in Nat
  <2>0. reader_count \in Nat /\ reader_count + 1 \in Nat
    BY DEF Shape, Typed
  <2>1. ReadUncount(t) => reader_count - 1 \in Nat
    <3>1. ReadUncount(t) => Counts(t)
      BY DEF ReadUncount, At, Counts, InCount
    <3>2. ReadUncount(t) => reader_count \in Nat /\ reader_count # 0
      BY <3>1, CountPositive
    <3> QED
      BY <3>2
  <2> QED
    BY <2>0, <2>1 DEF WriteTest, WriteWait, WriteAssert, WriteUnlock, WriteNext, WriteCount, ReadWait, ReadFirst,
        ReadCount, ReadChain, ReadNext, ReadUnlock, ReadUncount, WriteClose, ReadClose, CloseQueue,
        WriteTake, ReadTake, CountReader
<1>3. /\ UNCHANGED <<tail, fields, predecessor, waiting>>
      /\ w' \in [Threads -> Requests] /\ \A x \in Threads : x # t => w'[x] = w[x]
      /\ late' \in BOOLEAN
  <2>0. w \in [Threads -> Requests] /\ late \in BOOLEAN /\ next_writer \in Requests
    BY DEF Shape, Typed
  <2>1. ASSUME WriteTest(t) \/ WriteWait(t) \/ WriteAssert(t) \/ WriteUnlock(t) \/ WriteNext(t) \/ WriteCount(t)
               \/ WriteTake(t)
        PROVE  UNCHANGED <<tail, fields, predecessor, waiting, w, late>>
    BY <2>1 DEF WriteTest, WriteWait, WriteAssert, WriteUnlock, WriteNext, WriteCount, WriteTake, CountReader
  <2>2. ASSUME ReadWait(t) \/ ReadFirst(t) \/ ReadCount(t) \/ ReadChain(t) \/ ReadNext(t) \/ ReadUnlock(t)
               \/ ReadUncount(t)
        PROVE  UNCHANGED <<tail, fields, predecessor, waiting, w, late>>
    BY <2>2 DEF ReadWait, ReadFirst, ReadCount, ReadChain, ReadNext, ReadUnlock, ReadUncount, CountReader
  <2>3. ASSUME (WriteClose(t) \/ ReadClose(t)) /\ tail # t
        PROVE  UNCHANGED <<tail, fields, predecessor, waiting, w, late>>
    BY <2>3 DEF WriteClose, ReadClose, CloseQueue
  <2>4. ASSUME ReadTake(t)
        PROVE  /\ UNCHANGED <<tail, fields, predecessor, waiting>>
               /\ w' = [w EXCEPT ![t] = next_writer]
               /\ late' = (late \/ (next_writer # NULL /\ reader_count # 0))
    BY <2>4 DEF ReadTake
  <2>5. late' \in BOOLEAN
    BY <2>0, <2>1, <2>2, <2>3, <2>4
  <2> QED
    BY <2>0, <2>1, <2>2, <2>3, <2>4, <2>5
<1>4. next_writer' = next_writer
  <2>1. ASSUME WriteTake(t) /\ next_writer # t
        PROVE  next_writer' = next_writer
    BY <2>1, OwnOffer DEF WriteTake, At
  <2>2. ASSUME ReadTake(t) /\ next_writer = NULL
        PROVE  next_writer' = next_writer
    BY <2>2 DEF ReadTake
  <2>3. ASSUME WriteTest(t) \/ WriteWait(t) \/ WriteAssert(t) \/ WriteUnlock(t) \/ WriteNext(t) \/ WriteCount(t)
               \/ WriteClose(t) \/ ReadClose(t)
        PROVE  next_writer' = next_writer
    BY <2>3 DEF WriteTest, WriteWait, WriteAssert, WriteUnlock, WriteNext, WriteCount, CountReader,
        WriteClose, ReadClose, CloseQueue
  <2>4. ASSUME ReadWait(t) \/ ReadFirst(t) \/ ReadCount(t) \/ ReadChain(t) \/ ReadNext(t) \/ ReadUnlock(t)
               \/ ReadUncount(t)
        PROVE  next_writer' = next_writer
    BY <2>4 DEF ReadWait, ReadFirst, ReadCount, ReadChain, ReadNext, ReadUnlock, ReadUncount, CountReader
  <2> QED
    BY <2>1, <2>2, <2>3, <2>4
<1>5. Shape'
  BY <1>1, <1>2, <1>3, <1>4, SilentStep
<1> QED
  BY <1>3, <1>5

LEMMA OfferActions ==
  ASSUME Shape, NEW t \in Threads,
         \/ WritePublish(t)
         \/ WriteTake(t) /\ next_writer = t
         \/ ReadTake(t) /\ next_writer # NULL
  PROVE  Shape' /\ waiting' = waiting
<1> USE DEF fields, locals, shared, ghosts
<1>1. CASE WritePublish(t)
  <2>1. OfferMove(t, "w_test") /\ Goto(t, "w_test") /\ late' \in BOOLEAN
        /\ UNCHANGED <<tail, reader_count, fields, predecessor, waiting>>
    BY <1>1 DEF WritePublish, At, OfferMove, Shape, Typed
  <2> QED
    BY <2>1, OfferStep
<1>2. CASE WriteTake(t) /\ next_writer = t
  <2>1. OfferMove(t, "w_open") /\ Goto(t, "w_open") /\ late' \in BOOLEAN
        /\ UNCHANGED <<tail, reader_count, fields, predecessor, waiting>>
    BY <1>2 DEF WriteTake, At, OfferMove, Shape, Typed
  <2> QED
    BY <2>1, OfferStep
<1>3. CASE ReadTake(t) /\ next_writer # NULL
  <2>1. OfferMove(t, "ru_open") /\ Goto(t, "ru_open")
        /\ UNCHANGED <<tail, reader_count, fields, predecessor, waiting>>
    BY <1>3 DEF ReadTake, At, OfferMove
  <2>2. late' = (late \/ reader_count # 0) /\ late \in BOOLEAN
    BY <1>3 DEF ReadTake, Shape, Typed
  <2>3. late' \in BOOLEAN
    BY <2>2
  <2> QED
    BY <2>1, <2>3, OfferStep
<1> QED
  BY <1>1, <1>2, <1>3

LEMMA LetInActions ==
  ASSUME Shape, NEW t \in Threads,
         WriteOpen(t) \/ WritePass(t) \/ ReadOpen(t) \/ ReadPass(t) \/ ReadRelease(t)
  PROVE  /\ Shape' /\ waiting # <<>> /\ waiting' = Tail(waiting)
         /\ \E l, u : LetsIn(t, l, u) /\ Goto(t, l) /\ Unblock(u) /\ UNCHANGED <<shared, predecessor>>
<1> USE DEF locals
<1>1. \E l, u : LetsIn(t, l, u) /\ Goto(t, l) /\ Unblock(u) /\ UNCHANGED <<shared, predecessor>>
  <2>1. CASE WriteOpen(t)
    <3>1. LetsIn(t, "w_wait", t) /\ Goto(t, "w_wait") /\ Unblock(t) /\ UNCHANGED <<shared, predecessor>>
      BY <2>1 DEF WriteOpen, At, LetsIn
    <3> QED
      BY <3>1
  <2>2. CASE ReadOpen(t)
    <3>1. LetsIn(t, "r_chain", t) /\ Goto(t, "r_chain") /\ Unblock(t) /\ UNCHANGED <<shared, predecessor>>
      BY <2>2 DEF ReadOpen, At, LetsIn
    <3> QED
      BY <3>1
  <2>3. CASE WritePass(t)
    <3>1. LetsIn(t, "idle", next[t]) /\ Goto(t, "idle") /\ Unblock(next[t]) /\ UNCHANGED <<shared, predecessor>>
      BY <2>3 DEF WritePass, At, LetsIn
    <3> QED
      BY <3>1
  <2>4. CASE ReadPass(t)
    <3>1. LetsIn(t, "reading", next[t]) /\ Goto(t, "reading") /\ Unblock(next[t]) /\ UNCHANGED <<shared, predecessor>>
      BY <2>4 DEF ReadPass, At, LetsIn
    <3> QED
      BY <3>1
  <2>5. CASE ReadRelease(t)
    <3>1. LetsIn(t, "idle", w[t]) /\ Goto(t, "idle") /\ Unblock(w[t]) /\ UNCHANGED <<shared, predecessor>>
      BY <2>5 DEF ReadRelease, At, LetsIn
    <3> QED
      BY <3>1
  <2> QED
    BY <2>1, <2>2, <2>3, <2>4, <2>5
<1>2. PICK l, u : LetsIn(t, l, u) /\ Goto(t, l) /\ Unblock(u) /\ UNCHANGED <<shared, predecessor>>
  BY <1>1
<1>3. Shape' /\ waiting' = Tail(waiting)
  BY <1>2, LetInStep
<1>4. waiting # <<>>
  BY <1>2, LetInFacts DEF Front
<1> QED
  BY <1>1, <1>3, <1>4

LEMMA TellActions ==
  ASSUME Shape, ~garbled', NEW t \in Threads,
         WriteAnnounce(t) \/ WriteLink(t) \/ ReadTry(t) \/ ReadLink(t) \/ ReadJoin(t)
  PROVE  Shape' /\ waiting' = waiting
<1> USE DEF fields, locals, shared, ghosts
<1>0. pc[t] \in Linking => predecessor[t] \in Threads /\ Ahead(predecessor[t], t)
  BY DEF Shape, LinkingOK
<1>1. CASE WriteAnnounce(t)
  <2>1. pc[t] = "w_announce" /\ Goto(t, "w_link") /\ Announce(predecessor[t], "WRITE")
        /\ UNCHANGED <<shared, locals, ghosts>>
    BY <1>1 DEF WriteAnnounce, At
  <2>2. PICK p \in Threads : p = predecessor[t] /\ Ahead(p, t)
    BY <2>1, <1>0 DEF Linking
  <2>3. Shape'
    BY <2>1, <2>2, TellStep DEF Locations
  <2> QED
    BY <2>1, <2>3
<1>2. CASE WriteLink(t)
  <2>1. pc[t] = "w_link" /\ Goto(t, "w_wait") /\ Link(t) /\ UNCHANGED <<shared, ghosts>>
    BY <1>2 DEF WriteLink, At
  <2>2. PICK p \in Threads : p = predecessor[t] /\ Ahead(p, t)
    BY <2>1, <1>0 DEF Linking
  <2>3. UNCHANGED w
    BY <2>1 DEF Link
  <2>4. Shape'
    BY <2>1, <2>2, <2>3, TellStep DEF Locations
  <2> QED
    BY <2>1, <2>4
<1>3. CASE ReadLink(t)
  <2>1. pc[t] = "r_link" /\ Goto(t, "r_wait") /\ Link(t) /\ UNCHANGED <<shared, ghosts>>
    BY <1>3 DEF ReadLink, At
  <2>2. PICK p \in Threads : p = predecessor[t] /\ Ahead(p, t)
    BY <2>1, <1>0 DEF Linking
  <2>3. UNCHANGED w
    BY <2>1 DEF Link
  <2>4. Shape'
    BY <2>1, <2>2, <2>3, TellStep DEF Locations
  <2> QED
    BY <2>1, <2>4
<1>4. CASE ReadJoin(t)
  <2>1. pc[t] = "r_join" /\ Goto(t, "r_open") /\ Link(t) /\ UNCHANGED <<shared, ghosts>>
    BY <1>4 DEF ReadJoin, At
  <2> QED
    BY <2>1, JoinStep
<1>5. CASE ReadTry(t)
  <2>1. pc[t] = "r_try" /\ UNCHANGED <<shared, locals, waiting, late>>
    BY <1>5 DEF ReadTry, At
  <2>2. PICK p \in Threads : p = predecessor[t] /\ Ahead(p, t)
    BY <2>1, <1>0 DEF Linking
  <2>3. \/ lockclass[p] = "WRITE" /\ Goto(t, "r_link") /\ UNCHANGED fields
        \/ /\ lockclass[p] # "WRITE" /\ blocked[p] /\ successor_class[p] = "NONE"
           /\ Announce(p, "READ") /\ Goto(t, "r_link")
        \/ /\ lockclass[p] # "WRITE" /\ ~(blocked[p] /\ successor_class[p] = "NONE")
           /\ Goto(t, "r_count") /\ UNCHANGED fields
    BY <1>5, <2>2 DEF ReadTry
  <2>4. CASE lockclass[p] = "WRITE" /\ Goto(t, "r_link") /\ UNCHANGED fields
    BY <2>1, <2>2, <2>4, TellStep DEF Locations
  <2>5. CASE /\ lockclass[p] # "WRITE" /\ blocked[p] /\ successor_class[p] = "NONE"
             /\ Announce(p, "READ") /\ Goto(t, "r_link")
    BY <2>1, <2>2, <2>5, TellStep DEF Locations
  <2>6. CASE /\ lockclass[p] # "WRITE" /\ ~(blocked[p] /\ successor_class[p] = "NONE")
             /\ Goto(t, "r_count") /\ UNCHANGED fields
    BY <2>1, <2>2, <2>6, TryStep
  <2> QED
    BY <2>3, <2>4, <2>5, <2>6
<1> QED
  BY <1>1, <1>2, <1>3, <1>4, <1>5

LEMMA LeaveActions ==
  ASSUME Shape, NEW t \in Threads,
         \/ WriteClose(t) /\ tail = t
         \/ ReadClose(t) /\ tail = t
         \/ ReadHandOver(t)
  PROVE  Shape' /\ waiting' = waiting
<1> USE DEF locals, ghosts
<1>1. CASE WriteClose(t) /\ tail = t
  <2>1. /\ pc[t] = "wu_close" /\ tail' = NULL /\ Goto(t, "idle") /\ Discard(t)
        /\ UNCHANGED <<reader_count, next_writer, blocked, locals, ghosts>>
    BY <1>1 DEF WriteClose, CloseQueue, At
  <2> QED
    BY <1>1, <2>1, CloseStep
<1>2. CASE ReadClose(t) /\ tail = t
  <2>1. /\ pc[t] = "ru_close" /\ tail' = NULL /\ Goto(t, "ru_count") /\ Discard(t)
        /\ UNCHANGED <<reader_count, next_writer, blocked, locals, ghosts>>
    BY <1>2 DEF ReadClose, CloseQueue, At
  <2> QED
    BY <1>2, <2>1, CloseStep
<1>3. CASE ReadHandOver(t)
  <2>1. /\ pc[t] = "ru_next" /\ Goto(t, "ru_count") /\ next[t] # NULL /\ Discard(t)
        /\ next_writer' = IF successor_class[t] = "WRITE" THEN next[t] ELSE next_writer
        /\ UNCHANGED <<tail, reader_count, blocked, locals, ghosts>>
    BY <1>3 DEF ReadHandOver, At
  <2> QED
    BY <2>1, HandOverStep
<1> QED
  BY <1>1, <1>2, <1>3

LEMMA ShapeStep ==
  ASSUME Shape, CountExact, ~garbled', NEW t \in Threads,
         CallWrite(t) \/ CallRead(t) \/ WriteStep(t) \/ ReadStep(t)
  PROVE  Shape' /\ Orderly(t)
<1>1. ASSUME CallWrite(t) PROVE Shape' /\ Orderly(t)
  <2>1. Enqueue(t, "WRITE") /\ Goto(t, IF tail = NULL THEN "w_publish" ELSE "w_announce")
    BY <1>1 DEF CallWrite
  <2>2. waiting' = Append(waiting, t)
    BY <2>1 DEF Enqueue
  <2> QED
    BY <2>1, <2>2, EnqueueStep DEF Orderly
<1>2. ASSUME CallRead(t) PROVE Shape' /\ Orderly(t)
  <2>1. Enqueue(t, "READ") /\ Goto(t, IF tail = NULL THEN "r_first" ELSE "r_try")
    BY <1>2 DEF CallRead
  <2>2. waiting' = Append(waiting, t)
    BY <2>1 DEF Enqueue
  <2> QED
    BY <2>1, <2>2, EnqueueStep DEF Orderly
<1>3. ASSUME WriteStep(t) PROVE Shape' /\ Orderly(t)
  <2>1. ASSUME WriteOpen(t) \/ WritePass(t) \/ WriteAnnounce(t) \/ WriteLink(t)
        PROVE  Shape' /\ Orderly(t)
    BY <2>1, LetInActions, TellActions DEF Orderly
  <2>2. ASSUME WritePublish(t) \/ WriteTake(t) \/ WriteClose(t)
        PROVE  Shape' /\ Orderly(t)
    <3>1. CASE WritePublish(t) \/ (WriteTake(t) /\ next_writer = t)
      BY <3>1, OfferActions DEF Orderly
    <3>2. CASE WriteClose(t) /\ tail = t
      BY <3>2, LeaveActions DEF Orderly
    <3>3. CASE WriteTake(t) /\ next_writer # t
      BY <3>3, SilentActions DEF Orderly
    <3>4. CASE WriteClose(t) /\ tail # t
      BY <3>4, SilentActions DEF Orderly
    <3> QED
      BY <2>2, <3>1, <3>2, <3>3, <3>4
  <2>3. ASSUME \/ WriteTest(t) \/ WriteWait(t) \/ WriteAssert(t)
               \/ WriteUnlock(t) \/ WriteNext(t) \/ WriteCount(t)
        PROVE  Shape' /\ Orderly(t)
    BY <2>3, SilentActions DEF Orderly
  <2> QED
    BY <1>3, <2>1, <2>2, <2>3 DEF WriteStep
<1>4. ASSUME ReadStep(t) PROVE Shape' /\ Orderly(t)
  <2>1. ASSUME ReadTry(t) \/ ReadLink(t) \/ ReadJoin(t) \/ ReadClose(t) \/ ReadHandOver(t)
        PROVE  Shape' /\ Orderly(t)
    BY <2>1, SilentActions, TellActions, LeaveActions DEF Orderly
  <2>2. ASSUME ReadOpen(t) \/ ReadPass(t) \/ ReadTake(t) \/ ReadRelease(t)
        PROVE  Shape' /\ Orderly(t)
    BY <2>2, SilentActions, OfferActions, LetInActions DEF Orderly
  <2>3. ASSUME \/ ReadWait(t) \/ ReadFirst(t) \/ ReadCount(t) \/ ReadChain(t)
               \/ ReadNext(t) \/ ReadUnlock(t) \/ ReadUncount(t)
        PROVE  Shape' /\ Orderly(t)
    BY <2>3, SilentActions DEF Orderly
  <2> QED
    BY <1>4, <2>1, <2>2, <2>3 DEF ReadStep
<1> QED
  BY <1>1, <1>2, <1>3, <1>4

----------------------------------------------------------------------------
(* Every step keeps the count exact.                                        *)

\* The steps that leave next, lockclass and the flags of the others alone.
LEMMA QuietCount ==
  ASSUME Shape, Shape', CountExact, NEW t \in Threads,
         \/ WritePublish(t) \/ WriteTest(t) \/ WriteTake(t) \/ WriteAnnounce(t) \/ WriteWait(t)
         \/ WriteAssert(t) \/ WriteUnlock(t) \/ WriteNext(t) \/ ReadTry(t) \/ ReadWait(t)
         \/ ReadChain(t) \/ ReadUnlock(t) \/ ReadTake(t) \/ WriteOpen(t) \/ ReadOpen(t)
         \/ WriteClose(t) /\ tail # t
         \/ ReadClose(t) /\ tail # t
  PROVE  CountExact'
<1> USE DEF fields, locals, shared, ghosts, links, At
<1>1. /\ reader_count' = reader_count /\ UNCHANGED <<next, lockclass>>
      /\ \A x \in Threads : x # t => blocked'[x] = blocked[x]
  <2>1. ASSUME WritePublish(t) \/ WriteTest(t) \/ WriteTake(t) \/ WriteWait(t) \/ WriteAssert(t)
               \/ WriteUnlock(t) \/ WriteNext(t) \/ ReadWait(t)
        PROVE  UNCHANGED <<reader_count, next, lockclass, blocked>>
    BY <2>1 DEF WritePublish, WriteTest, WriteTake, WriteWait, WriteAssert, WriteUnlock, WriteNext, ReadWait
  <2>2. ASSUME ReadChain(t) \/ ReadUnlock(t) \/ ReadTake(t)
               \/ ((WriteClose(t) \/ ReadClose(t)) /\ tail # t)
        PROVE  UNCHANGED <<reader_count, next, lockclass, blocked>>
    BY <2>2 DEF ReadChain, ReadUnlock, ReadTake, WriteClose, ReadClose, CloseQueue
  <2>3. ASSUME WriteAnnounce(t) \/ ReadTry(t)
        PROVE  UNCHANGED <<reader_count, next, lockclass, blocked>>
    BY <2>3 DEF WriteAnnounce, ReadTry, Announce
  <2>4. ASSUME WriteOpen(t) \/ ReadOpen(t)
        PROVE  UNCHANGED <<reader_count, next, lockclass>> /\ blocked' = [blocked EXCEPT ![t] = FALSE]
    BY <2>4 DEF WriteOpen, ReadOpen, Unblock
  <2> QED
    BY <2>1, <2>2, <2>3, <2>4 DEF Shape, Typed
<1>2. PICK l : /\ Goto(t, l) /\ ~(l = "wu_open" /\ lockclass[next[t]] = "READ")
               /\ pc[t] \notin {"r_pass", "wu_open"} /\ l # "r_pass"
               /\ \/ /\ pc[t] \notin {"r_wait", "r_chain", "r_next", "reading", "ru_close", "ru_next", "ru_count",
                                      "r_open", "r_join"}
                     /\ l \notin {"r_wait", "r_chain", "r_next", "reading", "ru_close", "ru_next", "ru_count",
                                  "r_open", "r_join"}
                  \/ /\ \/ pc[t] \in {"r_chain", "r_next", "reading", "ru_close", "ru_next", "r_open"}
                        \/ pc[t] = "r_wait" /\ ~blocked[t]
                     /\ l \in {"r_chain", "r_next", "reading", "ru_close", "ru_next"}
  <2>1. ASSUME WritePublish(t) \/ WriteTest(t) \/ WriteTake(t) \/ WriteAnnounce(t) \/ WriteWait(t)
               \/ WriteAssert(t) \/ WriteUnlock(t) \/ WriteOpen(t) \/ (WriteClose(t) /\ tail # t)
        PROVE  \E l : /\ Goto(t, l)
                      /\ pc[t] \in WriteLocs \ {"wu_open"} /\ l \in WriteLocs \ {"wu_open"}
    BY <2>1 DEF WritePublish, WriteTest, WriteTake, WriteAnnounce, WriteWait, WriteAssert, WriteUnlock,
                WriteOpen, WriteClose, CloseQueue, WriteLocs
  <2>2. ASSUME WriteNext(t)
        PROVE  pc[t] = "wu_next" /\ Goto(t, IF lockclass[next[t]] = "READ" THEN "wu_count" ELSE "wu_open")
    BY <2>2 DEF WriteNext
  <2>3. ASSUME ReadTry(t)
        PROVE  \E l \in {"r_link", "r_count"} : pc[t] = "r_try" /\ Goto(t, l)
    BY <2>3 DEF ReadTry
  <2>4. ASSUME ReadTake(t)
        PROVE  \E l \in {"ru_open", "idle"} : pc[t] = "ru_take" /\ Goto(t, l)
    BY <2>4 DEF ReadTake
  <2>5. ASSUME ReadWait(t) \/ ReadChain(t) \/ ReadUnlock(t) \/ ReadOpen(t) \/ (ReadClose(t) /\ tail # t)
        PROVE  \E l \in {"r_chain", "r_next", "reading", "ru_close", "ru_next"} :
                 /\ Goto(t, l)
                 /\ \/ pc[t] \in {"r_chain", "r_next", "reading", "ru_close", "ru_next", "r_open"}
                    \/ pc[t] = "r_wait" /\ ~blocked[t]
    BY <2>5 DEF ReadWait, ReadChain, ReadUnlock, ReadOpen, ReadClose, CloseQueue
  <2>6. CASE WriteNext(t)
    <3>1. CASE lockclass[next[t]] = "READ"
      BY <2>2, <2>6, <3>1
    <3>2. CASE lockclass[next[t]] # "READ"
      BY <2>2, <2>6, <3>2
    <3> QED
      BY <3>1, <3>2
  <2>7. CASE ~WriteNext(t)
    BY <2>1, <2>3, <2>4, <2>5, <2>7 DEF WriteLocs
  <2> QED
    BY <2>6, <2>7
<1>3. pc'[t] = l
  BY <1>2 DEF Goto, Shape, Typed
<1>4. l \in {"r_chain", "r_next", "reading", "ru_close", "ru_next"} => (InCount(t)' /\ InCount(t))
  BY <1>2, <1>3 DEF InCount
<1>5. (InCount(t)' <=> InCount(t)) /\ ~Passing(t) /\ ~Passing(t)'
  BY <1>1, <1>2, <1>3, <1>4 DEF InCount, Passing
<1> QED
  BY <1>1, <1>2, <1>5, CountKept

\* Linking a request and taking it out of use reach no request that a passing
\* thread looks at.
LEMMA LinkCount ==
  ASSUME Shape, Shape', CountExact, NEW t \in Threads,
         \/ CallWrite(t) \/ CallRead(t) \/ WriteLink(t) \/ ReadLink(t) \/ ReadJoin(t)
         \/ WriteClose(t) /\ tail = t
         \/ ReadClose(t) /\ tail = t
         \/ ReadHandOver(t)
  PROVE  CountExact'
<1> USE DEF fields, locals, shared, ghosts, At
<1>1. CASE CallWrite(t) \/ CallRead(t)
  <2>1. PICK class, l : /\ Enqueue(t, class) /\ Goto(t, l)
                        /\ l \in {"w_publish", "w_announce", "r_first", "r_try"}
    BY <1>1 DEF CallWrite, CallRead
  <2>2. /\ pc[t] = "idle" /\ pc'[t] = l /\ reader_count' = reader_count
        /\ next' = [next EXCEPT ![t] = NULL] /\ lockclass' = [lockclass EXCEPT ![t] = class]
        /\ blocked' = [blocked EXCEPT ![t] = TRUE]
    BY <2>1 DEF Enqueue, Goto, Shape, Typed
  <2>3. ~blocked[t]
    BY <2>2 DEF Shape, LocalOK, Blockable, Opening, Linking, Offerable
  <2>4. ~InCount(t) /\ ~InCount(t)' /\ ~Passing(t) /\ ~Passing(t)'
    BY <2>1, <2>2 DEF InCount, Passing
  <2>5. /\ \A x \in Threads : x # t => blocked'[x] = blocked[x] /\ next'[x] = next[x]
        /\ \A x \in Threads : blocked[x] => lockclass'[x] = lockclass[x]
    BY <2>2, <2>3 DEF Shape, Typed
  <2> QED
    BY <2>1, <2>2, <2>4, <2>5, CountKept
<1>2. CASE WriteLink(t) \/ ReadLink(t) \/ ReadJoin(t)
  <2>1. PICK l : /\ Goto(t, l) /\ Link(t) /\ reader_count' = reader_count
                 /\ \/ pc[t] = "w_link" /\ l = "w_wait"
                    \/ pc[t] = "r_link" /\ l = "r_wait"
                    \/ pc[t] = "r_join" /\ l = "r_open"
    BY <1>2 DEF WriteLink, ReadLink, ReadJoin
  <2>2. predecessor[t] \in Threads /\ next[predecessor[t]] = NULL
    <3>1. CASE pc[t] = "r_join"
      BY <3>1 DEF Shape, JoiningOK, Joining, NothingBehind
    <3>2. CASE pc[t] \in {"w_link", "r_link"}
      <4>1. predecessor[t] \in Threads /\ Ahead(predecessor[t], t)
        BY <3>2 DEF Shape, LinkingOK, Linking
      <4> QED
        BY <3>2, <4>1, AheadFacts DEF Behind
    <3> QED
      BY <2>1, <3>1, <3>2
  <2>3. /\ pc'[t] = l /\ UNCHANGED <<blocked, lockclass>>
        /\ \A x \in Threads : x # predecessor[t] => next'[x] = next[x]
    BY <2>1 DEF Link, Goto, Shape, Typed
  <2>4. blocked[t]
    <3>1. pc[t] \in Opening \cup Linking
      BY <2>1 DEF Opening, Linking
    <3> QED
      BY <3>1 DEF Shape, LocalOK
  <2>5. (InCount(t)' <=> InCount(t)) /\ ~Passing(t) /\ ~Passing(t)'
    BY <2>1, <2>3, <2>4 DEF InCount, Passing
  <2> QED
    BY <2>1, <2>2, <2>3, <2>5, CountKept
<1>3. CASE \/ WriteClose(t) /\ tail = t
           \/ ReadClose(t) /\ tail = t
           \/ ReadHandOver(t)
  <2>1. PICK l : /\ Goto(t, l) /\ Discard(t) /\ reader_count' = reader_count /\ blocked' = blocked
                 /\ \/ pc[t] = "wu_close" /\ l = "idle"
                    \/ pc[t] \in {"ru_close", "ru_next"} /\ l = "ru_count"
    BY <1>3 DEF WriteClose, ReadClose, CloseQueue, ReadHandOver
  <2>2. /\ pc'[t] = l
        /\ \A x \in Threads : x # t => next'[x] = next[x] /\ lockclass'[x] = lockclass[x]
    BY <2>1 DEF Discard, Goto, Shape, Typed
  <2>3. ~blocked[t]
    BY <2>1 DEF Shape, LocalOK, Blockable, Opening, Linking, Offerable
  <2>4. (InCount(t)' <=> InCount(t)) /\ ~Passing(t) /\ ~Passing(t)'
    BY <2>1, <2>2 DEF InCount, Passing
  <2>5. \A x \in Threads : blocked[x] => lockclass'[x] = lockclass[x]
    BY <2>2, <2>3
  <2> QED
    BY <2>1, <2>2, <2>4, <2>5, CountKept
<1> QED
  BY <1>1, <1>2, <1>3

\* No thread but the one with the turn passes anything on.
LEMMA PassingTurn ==
  ASSUME Shape, NEW t \in Threads, HasTurn(t)
  PROVE  \A x \in Threads : x # t => ~Passing(x)
BY PassingFacts, TurnIsOne DEF Passing

\* Who lets a reader in has counted it.
LEMMA LetInCount ==
  ASSUME Shape, Shape', CountExact, NEW t \in Threads, WritePass(t) \/ ReadPass(t) \/ ReadRelease(t)
  PROVE  CountExact'
<1> USE DEF locals, At
<1>1. PICK l, u : LetsIn(t, l, u) /\ Goto(t, l) /\ Unblock(u) /\ UNCHANGED <<shared, predecessor>>
  BY LetInActions
<1>2. pc[t] \in {"wu_open", "r_pass", "ru_open"}
  BY DEF WritePass, ReadPass, ReadRelease
<1>3. /\ u \in Threads /\ blocked[u] /\ HasTurn(t) /\ u # t /\ ~blocked[t]
      /\ pc[u] \in Offerable \cup {"r_wait"} /\ (pc[t] = "r_pass" => pc[u] = "r_wait")
  BY <1>1, <1>2, LetInFacts
<1>4. /\ reader_count' = reader_count /\ blocked' = [blocked EXCEPT ![u] = FALSE]
      /\ pc'[t] = l /\ \A x \in Threads : x # t => pc'[x] = pc[x]
  BY <1>1 DEF Unblock, Goto, Shape, Typed, shared
<1>5. \A x \in Threads : x # t => next'[x] = next[x] /\ lockclass'[x] = lockclass[x]
  <2>1. UNCHANGED links \/ Discard(t)
    BY <1>1 DEF LetsIn
  <2> QED
    BY <2>1 DEF Discard, links, Shape, Typed
<1>6. ~Passing(t)'
  BY <1>1, <1>4 DEF LetsIn, Passing
<1>7. pc[t] \in {"wu_open", "r_pass"} => u = next[t]
  BY <1>1 DEF LetsIn
<1>8. InCount(t)' <=> InCount(t)
  BY <1>1, <1>4 DEF LetsIn, InCount
<1>9. CASE Passing(t)
  <2>1. pc[u] = "r_wait" /\ u = next[t]
    BY <1>2, <1>7, <1>9, PassingFacts DEF Passing
  <2>2. \A x \in Threads : x # t => ~Passing(x) /\ ~Passing(x)'
    <3>1. \A x \in Threads : x # t => pc[x] \notin {"r_pass", "wu_open"}
      BY <1>3, PassingFacts, TurnIsOne
    <3> QED
      BY <3>1, <1>4 DEF Passing
  <2>3. \A x \in Threads : InCount(x)' <=> InCount(x) \/ x = u
    <3>1. InCount(u)'
      BY <2>1, <1>3, <1>4 DEF InCount, Shape, Typed
    <3>2. \A x \in Threads : x # u /\ x # t => (InCount(x)' <=> InCount(x))
      BY <1>4 DEF InCount, Shape, Typed
    <3> QED
      BY <3>1, <3>2, <1>3, <1>8
  <2>4. \A x \in Threads : Counts(x) <=> InCount(x) \/ x = u
    BY <2>1, <2>2, <1>9 DEF Counts
  <2>5. \A x \in Threads : Counts(x)' <=> InCount(x)'
    BY <2>2, <1>6 DEF Counts
  <2>6. \A x \in Threads : Counts(x)' <=> Counts(x)
    BY <2>3, <2>4, <2>5
  <2> QED
    BY <2>6, <1>4, CountSame
<1>10. CASE ~Passing(t)
  <2>1. pc[u] # "r_wait"
    <3>1. CASE pc[t] = "ru_open"
      <4>1. u = w[t]
        BY <1>1, <3>1 DEF LetsIn
      <4>2. pc[u] \in Offerable
        BY <3>1, <4>1 DEF Shape, FrontOK
      <4> QED
        BY <4>2 DEF Offerable
    <3>2. CASE pc[t] # "ru_open"
      <4>1. pc[t] = "wu_open" /\ lockclass[u] # "READ"
        BY <1>2, <1>7, <1>10, <3>2 DEF Passing
      <4> QED
        BY <4>1, <1>3 DEF Shape, LocalOK, WriteLocs, ReadLocs
    <3> QED
      BY <3>1, <3>2
  <2>2. \A x \in Threads : x # t => blocked'[x] = blocked[x] \/ pc[x] # "r_wait"
    BY <2>1, <1>4 DEF Shape, Typed
  <2>3. \A x \in Threads : blocked[x] => lockclass'[x] = lockclass[x]
    BY <1>3, <1>5
  <2> QED
    BY <2>2, <2>3, <1>1, <1>4, <1>5, <1>6, <1>8, <1>10, CountKept
<1> QED
  BY <1>9, <1>10

\* The steps that count a reader, or one less.
LEMMA CountingSteps ==
  ASSUME Shape, Shape', CountExact, NEW t \in Threads,
         WriteCount(t) \/ ReadFirst(t) \/ ReadCount(t) \/ ReadNext(t) \/ ReadUncount(t)
  PROVE  CountExact'
<1> USE DEF fields, locals, ghosts, At
<1>1. UNCHANGED <<next, lockclass, blocked>>
  BY DEF WriteCount, ReadFirst, ReadCount, ReadNext, ReadUncount
<1>2. CASE WriteCount(t) \/ ReadNext(t)
  <2>1. PICK l : /\ Goto(t, l) /\ reader_count' = reader_count + 1 /\ next[t] # NULL
                 /\ \/ pc[t] = "wu_count" /\ l = "wu_open" /\ lockclass[next[t]] = "READ"
                    \/ pc[t] = "r_next" /\ l = "r_pass"
    BY <1>2 DEF WriteCount, ReadNext, CountReader, Shape, LocalOK
  <2>2. Last(t)
    BY <2>1, ChainerFacts DEF Last, WriterIn
  <2>3. PICK y \in Threads : /\ y = next[t] /\ Front(y) /\ blocked[y] /\ pc[y] \in {"w_wait", "r_wait"}
    BY <2>1, <2>2, PasserFacts, FrontFacts
  <2>4. HasTurn(t) /\ ~blocked[t] /\ y # t
    BY <2>2, <2>3, LastFacts
  <2>5. pc'[t] = l /\ \A x \in Threads : x # t => pc'[x] = pc[x]
    BY <2>1 DEF Goto, Shape, Typed
  <2>6. \A x \in Threads : x # t => ~Passing(x) /\ ~Passing(x)'
    <3>1. \A x \in Threads : x # t => pc[x] \notin {"r_pass", "wu_open"}
      BY <2>4, PassingFacts, TurnIsOne
    <3> QED
      BY <3>1, <2>5 DEF Passing
  <2>7. ~Passing(t) /\ Passing(t)'
    BY <2>1, <2>3, <2>5, <1>1 DEF Passing
  <2>8. \A x \in Threads : InCount(x)' <=> InCount(x)
    <3>1. InCount(t)' <=> InCount(t)
      BY <2>1, <2>5 DEF InCount
    <3> QED
      BY <3>1, <2>5, <1>1 DEF InCount
  <2>9. ~Counts(y)
    BY <2>3, <2>6, <2>7 DEF Counts, InCount
  <2>10. \A x \in Threads : Counts(x)' <=> Counts(x) \/ x = y
    BY <2>3, <2>6, <2>7, <2>8, <1>1 DEF Counts
  <2> QED
    BY <2>1, <2>9, <2>10, CountAdd
<1>3. CASE ReadFirst(t) \/ ReadCount(t)
  <2>1. PICK l : /\ Goto(t, l) /\ reader_count' = reader_count + 1
                 /\ \/ pc[t] = "r_first" /\ l = "r_open"
                    \/ pc[t] = "r_count" /\ l = "r_join"
    BY <1>3 DEF ReadFirst, ReadCount, CountReader
  <2>2. HasTurn(t)
    BY <2>1 DEF HasTurn, Opening
  <2>3. pc'[t] = l /\ \A x \in Threads : x # t => pc'[x] = pc[x]
    BY <2>1 DEF Goto, Shape, Typed
  <2>4. \A x \in Threads : ~Passing(x) /\ ~Passing(x)'
    <3>1. \A x \in Threads : x # t => pc[x] \notin {"r_pass", "wu_open"}
      BY <2>2, PassingFacts, TurnIsOne
    <3>2. pc[t] \notin {"r_pass", "wu_open"} /\ l \notin {"r_pass", "wu_open"}
      BY <2>1
    <3> QED
      BY <3>1, <3>2, <2>3 DEF Passing
  <2>5. ~Counts(t) /\ \A x \in Threads : Counts(x)' <=> Counts(x) \/ x = t
    <3>1. ~InCount(t) /\ InCount(t)'
      BY <2>1, <2>3 DEF InCount
    <3>2. \A x \in Threads : x # t => (InCount(x)' <=> InCount(x))
      BY <2>3, <1>1 DEF InCount
    <3> QED
      BY <3>1, <3>2, <2>4 DEF Counts
  <2> QED
    BY <2>1, <2>5, CountAdd
<1>4. CASE ReadUncount(t)
  <2>1. PICK l : Goto(t, l) /\ reader_count' = reader_count - 1 /\ pc[t] = "ru_count" /\ l \in {"ru_take", "idle"}
    BY <1>4 DEF ReadUncount
  <2>2. pc'[t] = l /\ \A x \in Threads : x # t => pc'[x] = pc[x]
    BY <2>1 DEF Goto, Shape, Typed
  <2>3. ~blocked[t]
    BY <2>1 DEF Shape, LocalOK, Blockable, Opening, Linking, Offerable
  <2>4. \A x \in Threads : (Passing(x)' <=> Passing(x)) /\ (Passing(x) => next[x] # t)
    <3>1. \A x \in Threads : Passing(x) => next[x] # t
      BY <2>3, PassingFacts DEF Passing
    <3>2. ~Passing(t) /\ ~Passing(t)'
      BY <2>1, <2>2 DEF Passing
    <3>3. \A x \in Threads : x # t => (Passing(x)' <=> Passing(x))
      BY <2>2, <1>1 DEF Passing
    <3> QED
      BY <3>1, <3>2, <3>3
  <2>5. Counts(t) /\ \A x \in Threads : Counts(x)' <=> Counts(x) /\ x # t
    <3>1. InCount(t) /\ ~InCount(t)'
      BY <2>1, <2>2 DEF InCount
    <3>2. \A x \in Threads : x # t => (InCount(x)' <=> InCount(x))
      BY <2>2, <1>1 DEF InCount
    <3> QED
      BY <3>1, <3>2, <2>4, <1>1 DEF Counts
  <2> QED
    BY <2>1, <2>5, CountRemove
<1> QED
  BY <1>2, <1>3, <1>4

LEMMA CountStep ==
  ASSUME Shape, Shape', CountExact, NEW t \in Threads,
         CallWrite(t) \/ CallRead(t) \/ WriteStep(t) \/ ReadStep(t)
  PROVE  CountExact'
<1>1. ASSUME WriteStep(t) PROVE CountExact'
  <2>1. ASSUME \/ WritePublish(t) \/ WriteTest(t) \/ WriteTake(t) \/ WriteAnnounce(t) \/ WriteWait(t)
               \/ WriteAssert(t) \/ WriteUnlock(t) \/ WriteNext(t) \/ WriteOpen(t)
        PROVE  CountExact'
    BY <2>1, QuietCount
  <2>2. ASSUME WriteClose(t) PROVE CountExact'
    <3>1. CASE tail = t
      BY <2>2, <3>1, LinkCount
    <3>2. CASE tail # t
      BY <2>2, <3>2, QuietCount
    <3> QED
      BY <3>1, <3>2
  <2> QED
    BY <1>1, <2>1, <2>2, LinkCount, LetInCount, CountingSteps DEF WriteStep
<1>2. ASSUME ReadStep(t) PROVE CountExact'
  <2>1. ASSUME \/ ReadTry(t) \/ ReadWait(t) \/ ReadChain(t) \/ ReadUnlock(t) \/ ReadTake(t) \/ ReadOpen(t)
        PROVE  CountExact'
    BY <2>1, QuietCount
  <2>2. ASSUME ReadClose(t) PROVE CountExact'
    <3>1. CASE tail = t
      BY <2>2, <3>1, LinkCount
    <3>2. CASE tail # t
      BY <2>2, <3>2, QuietCount
    <3> QED
      BY <3>1, <3>2
  <2> QED
    BY <1>2, <2>1, <2>2, LinkCount, LetInCount, CountingSteps DEF ReadStep
<1> QED
  BY <1>1, <1>2, LinkCount

----------------------------------------------------------------------------
(* Every step keeps NoReaders.                                              *)

\* The writers inside, and those that let one in next.
Entering(x) ==
  \/ pc[x] \in {"w_open", "ru_open"}
  \/ WriterIn(x)
  \/ pc[x] = "w_take" /\ next_writer = x

LEMMA NoReadersIs ==
  NoReaders <=> (~late => \A x \in Threads : Entering(x) => reader_count = 0 \/ Passing(x))
BY DEF NoReaders, Entering, Passing, WriterIn, Offerable

LEMMA EnteringTurn ==
  ASSUME Shape, NEW x \in Threads, Entering(x)
  PROVE  HasTurn(x)
BY DEF Entering, HasTurn, Last, Opening

LEMMA EnteringFree ==
  ASSUME NoReaders, ~late, NEW x \in Threads, Entering(x), pc[x] # "wu_open"
  PROVE  reader_count = 0
BY NoReadersIs DEF Passing, Entering, WriterIn, Offerable

LEMMA NoReadersKept ==
  ASSUME Shape, NoReaders, reader_count' = reader_count, late => late',
         NEW t \in Threads, NEW l, Goto(t, l),
         \A x \in Threads : x # t => blocked'[x] = blocked[x],
         \A x \in Threads : x # t /\ next_writer' = x /\ pc[x] = "w_take" => next_writer = x,
         \A x \in Threads : x # t /\ next[x] # NULL => next'[x] = next[x],
         \A x \in Threads : blocked[x] => lockclass'[x] = lockclass[x],
         ~late' /\ Entering(t)' => reader_count = 0
  PROVE  NoReaders'
<1>1. \A x \in Threads : x # t => (Passing(x)' <=> Passing(x))
  BY OthersCount
<1>2. \A x \in Threads : x # t => pc'[x] = pc[x]
  BY DEF Goto, Shape, Typed
<1>3. \A x \in Threads : x # t => (Entering(x)' => Entering(x))
  BY <1>2 DEF Entering, WriterIn
<1>4. ~late' => \A x \in Threads : Entering(x)' => reader_count' = 0 \/ Passing(x)'
  BY <1>1, <1>3, NoReadersIs
<1>5. (NoReaders <=> (~late => \A x \in Threads : Entering(x) => reader_count = 0 \/ Passing(x)))'
  BY NoReadersIs, PTL
<1> QED
  BY <1>4, <1>5

LEMMA QuietNoReaders ==
  ASSUME Shape, Shape', NoReaders, NEW t \in Threads,
         \/ WritePublish(t) \/ WriteTest(t) \/ WriteTake(t) \/ WriteAnnounce(t) \/ WriteWait(t)
         \/ WriteAssert(t) \/ WriteUnlock(t) \/ WriteNext(t) \/ ReadTry(t) \/ ReadWait(t)
         \/ ReadChain(t) \/ ReadUnlock(t) \/ ReadTake(t) \/ WriteOpen(t) \/ ReadOpen(t)
         \/ WriteClose(t) /\ tail # t
         \/ ReadClose(t) /\ tail # t
  PROVE  NoReaders'
<1> USE DEF fields, locals, shared, ghosts, links, At
<1>1. /\ reader_count' = reader_count /\ UNCHANGED <<next, lockclass>>
      /\ \A x \in Threads : x # t => blocked'[x] = blocked[x]
      /\ pc[t] = "w_open" \/ pc[t] = "r_open" \/ blocked' = blocked
  <2>1. ASSUME WritePublish(t) \/ WriteTest(t) \/ WriteTake(t) \/ WriteWait(t) \/ WriteAssert(t)
               \/ WriteUnlock(t) \/ WriteNext(t) \/ ReadWait(t)
        PROVE  UNCHANGED <<reader_count, next, lockclass, blocked>>
    BY <2>1 DEF WritePublish, WriteTest, WriteTake, WriteWait, WriteAssert, WriteUnlock, WriteNext, ReadWait
  <2>2. ASSUME ReadChain(t) \/ ReadUnlock(t) \/ ReadTake(t)
               \/ ((WriteClose(t) \/ ReadClose(t)) /\ tail # t)
        PROVE  UNCHANGED <<reader_count, next, lockclass, blocked>>
    BY <2>2 DEF ReadChain, ReadUnlock, ReadTake, WriteClose, ReadClose, CloseQueue
  <2>3. ASSUME WriteAnnounce(t) \/ ReadTry(t)
        PROVE  UNCHANGED <<reader_count, next, lockclass, blocked>>
    BY <2>3 DEF WriteAnnounce, ReadTry, Announce
  <2>4. ASSUME WriteOpen(t) \/ ReadOpen(t)
        PROVE  /\ UNCHANGED <<reader_count, next, lockclass>> /\ blocked' = [blocked EXCEPT ![t] = FALSE]
               /\ pc[t] \in {"w_open", "r_open"}
    BY <2>4 DEF WriteOpen, ReadOpen, Unblock
  <2> QED
    BY <2>1, <2>2, <2>3, <2>4 DEF Shape, Typed
<1>2. (late => late') /\ (\A x \in Threads : x # t /\ next_writer' = x /\ pc[x] = "w_take" => next_writer = x)
  <2>1. ASSUME WriteTest(t) \/ WriteAnnounce(t) \/ WriteWait(t) \/ WriteAssert(t) \/ WriteUnlock(t)
               \/ WriteNext(t) \/ ReadTry(t) \/ ReadWait(t)
        PROVE  late' = late /\ next_writer' = next_writer
    BY <2>1 DEF WriteTest, WriteAnnounce, WriteWait, WriteAssert, WriteUnlock, WriteNext, ReadTry, ReadWait
  <2>2. ASSUME ReadChain(t) \/ ReadUnlock(t) \/ WriteOpen(t) \/ ReadOpen(t)
               \/ ((WriteClose(t) \/ ReadClose(t)) /\ tail # t)
        PROVE  late' = late /\ next_writer' = next_writer
    BY <2>2 DEF ReadChain, ReadUnlock, WriteOpen, ReadOpen, Unblock, WriteClose, ReadClose, CloseQueue
  <2>3. ASSUME WritePublish(t)
        PROVE  late' = late /\ next_writer' = t
    BY <2>3 DEF WritePublish
  <2>4. ASSUME WriteTake(t) \/ ReadTake(t)
        PROVE  (late => late') /\ next_writer' = NULL
    <3>1. next_writer' = NULL
      BY <2>4 DEF WriteTake, ReadTake
    <3>2. ASSUME WriteTake(t) PROVE late' = late
      BY <3>2 DEF WriteTake
    <3>3. ASSUME ReadTake(t) PROVE late => late'
      <4>1. late' = (late \/ (next_writer # NULL /\ reader_count # 0))
        BY <3>3, Zenon DEF ReadTake
      <4> QED
        BY <4>1, Zenon
    <3> QED
      BY <2>4, <3>1, <3>2, <3>3
  <2> QED
    BY <2>1, <2>2, <2>3, <2>4, ThreadsAssumption
<1>3. \E l : Goto(t, l)
  BY DEF WritePublish, WriteTest, WriteTake, WriteAnnounce, WriteWait, WriteAssert, WriteUnlock, WriteNext,
         ReadTry, ReadWait, ReadChain, ReadUnlock, ReadTake, WriteOpen, ReadOpen, WriteClose, ReadClose, CloseQueue
<1>4. PICK l : Goto(t, l)
  BY <1>3
<1>5. pc'[t] = l
  BY <1>4 DEF Goto, Shape, Typed
<1>6. ASSUME ~late', Entering(t)'
      PROVE  reader_count = 0
  <2>1. ~late
    BY <1>2, <1>6
  <2>2. CASE WriteTest(t)
    <3>1. CASE reader_count = 0
      BY <3>1
    <3>2. CASE reader_count # 0
      <4>1. pc'[t] = "w_wait" /\ pc[t] = "w_test"
        BY <2>2, <3>2 DEF WriteTest, Goto, Shape, Typed
      <4>2. ~blocked[t]
        BY <4>1, <1>1, <1>6 DEF Entering, WriterIn
      <4>3. Entering(t) /\ pc[t] # "wu_open"
        BY <4>1, <4>2 DEF Entering, WriterIn, Offerable
      <4> QED
        BY <2>1, <4>3, EnteringFree
    <3> QED
      BY <3>1, <3>2
  <2>3. CASE WriteTake(t)
    <3>1. pc[t] = "w_take" /\ pc'[t] = IF next_writer = t THEN "w_open" ELSE "w_wait"
      BY <2>3 DEF WriteTake, Goto, Shape, Typed
    <3>2. next_writer = t \/ ~blocked[t]
      BY <3>1, <1>1, <1>6 DEF Entering, WriterIn
    <3>3. Entering(t) /\ pc[t] # "wu_open"
      BY <3>1, <3>2 DEF Entering, WriterIn, Offerable
    <3> QED
      BY <2>1, <3>3, EnteringFree
  <2>4. CASE WriteWait(t) \/ WriteAssert(t) \/ WriteUnlock(t) \/ WriteNext(t) \/ WriteClose(t) \/ WriteOpen(t)
    <3>1. /\ pc[t] \in {"w_wait", "w_assert", "writing", "wu_close", "wu_next", "w_open"}
          /\ pc[t] = "w_wait" => ~blocked[t]
      BY <2>4 DEF WriteWait, WriteAssert, WriteUnlock, WriteNext, WriteClose, WriteOpen
    <3>2. Entering(t) /\ pc[t] # "wu_open"
      BY <3>1 DEF Entering, WriterIn, Offerable
    <3> QED
      BY <2>1, <3>2, EnteringFree
  <2>5. CASE ReadTake(t)
    <3>1. Goto(t, IF next_writer # NULL THEN "ru_open" ELSE "idle")
      BY <2>5, Zenon DEF ReadTake
    <3>2. pc'[t] = IF next_writer # NULL THEN "ru_open" ELSE "idle"
      BY <3>1 DEF Goto, Shape, Typed
    <3>3. next_writer # NULL
      BY <3>2, <1>6 DEF Entering, WriterIn, Offerable
    <3>4. late' = (late \/ (next_writer # NULL /\ reader_count # 0))
      BY <2>5, Zenon DEF ReadTake
    <3> QED
      BY <3>3, <3>4, <1>6, Zenon
  <2>6. ASSUME \/ WritePublish(t) \/ WriteAnnounce(t) \/ ReadTry(t) \/ ReadWait(t) \/ ReadChain(t)
               \/ ReadUnlock(t) \/ ReadOpen(t) \/ ReadClose(t)
        PROVE  FALSE
    <3>1. l \in {"w_test", "w_link", "r_link", "r_count", "r_chain", "r_next", "reading", "ru_close", "ru_next", "ru_count"}
      <4>1. \E k \in {"w_test", "w_link", "r_link", "r_count", "r_chain", "r_next", "reading", "ru_close", "ru_next",
                      "ru_count"} : Goto(t, k)
        BY <2>6 DEF WritePublish, WriteAnnounce, ReadTry, ReadWait, ReadChain, ReadUnlock, ReadOpen, ReadClose, CloseQueue
      <4> QED
        BY <4>1, <1>5 DEF Goto, Shape, Typed
    <3>2. l = "w_test" => pc[t] = "w_publish"
      BY <2>6, <1>5 DEF WritePublish, WriteAnnounce, ReadTry, ReadWait, ReadChain, ReadUnlock, ReadOpen, ReadClose,
         CloseQueue, Goto, Shape, Typed
    <3>3. l = "w_test" => blocked'[t]
      <4>1. l = "w_test" => blocked[t]
        BY <3>2 DEF Shape, LocalOK, Opening
      <4> QED
        BY <3>2, <4>1, <1>1
    <3> QED
      BY <3>1, <3>3, <1>5, <1>6 DEF Entering, WriterIn, Offerable
  <2> QED
    BY <2>2, <2>3, <2>4, <2>5, <2>6
<1> QED
  BY <1>1, <1>2, <1>4, <1>6, NoReadersKept

LEMMA LinkNoReaders ==
  ASSUME Shape, Shape', NoReaders, NEW t \in Threads,
         \/ CallWrite(t) \/ CallRead(t) \/ WriteLink(t) \/ ReadLink(t) \/ ReadJoin(t)
         \/ WriteClose(t) /\ tail = t
         \/ ReadClose(t) /\ tail = t
         \/ ReadHandOver(t)
  PROVE  NoReaders'
<1> USE DEF fields, locals, shared, ghosts, At
<1>1. CASE CallWrite(t) \/ CallRead(t)
  <2>1. PICK class, l : /\ Enqueue(t, class) /\ Goto(t, l)
                        /\ l \in {"w_publish", "w_announce", "r_first", "r_try"}
    BY <1>1 DEF CallWrite, CallRead
  <2>2. /\ pc[t] = "idle" /\ pc'[t] = l /\ reader_count' = reader_count /\ next_writer' = next_writer
        /\ next' = [next EXCEPT ![t] = NULL] /\ lockclass' = [lockclass EXCEPT ![t] = class]
        /\ blocked' = [blocked EXCEPT ![t] = TRUE]
    BY <2>1 DEF Enqueue, Goto, Shape, Typed
  <2>3. ~blocked[t] /\ late' = late
    BY <2>1, <2>2 DEF Enqueue, Shape, LocalOK, Blockable, Opening, Linking, Offerable
  <2>4. ~Entering(t)'
    BY <2>1, <2>2 DEF Entering, WriterIn, Offerable
  <2>5. /\ \A x \in Threads : x # t => blocked'[x] = blocked[x] /\ next'[x] = next[x]
        /\ \A x \in Threads : blocked[x] => lockclass'[x] = lockclass[x]
    BY <2>2, <2>3 DEF Shape, Typed
  <2> QED
    BY <2>1, <2>2, <2>3, <2>4, <2>5, NoReadersKept
<1>2. CASE WriteLink(t) \/ ReadLink(t) \/ ReadJoin(t)
  <2>1. PICK l : /\ Goto(t, l) /\ Link(t) /\ UNCHANGED <<shared, ghosts>>
                 /\ \/ pc[t] = "w_link" /\ l = "w_wait"
                    \/ pc[t] = "r_link" /\ l = "r_wait"
                    \/ pc[t] = "r_join" /\ l = "r_open"
    BY <1>2 DEF WriteLink, ReadLink, ReadJoin
  <2>2. predecessor[t] \in Threads /\ next[predecessor[t]] = NULL
    <3>1. CASE pc[t] = "r_join"
      BY <3>1 DEF Shape, JoiningOK, Joining, NothingBehind
    <3>2. CASE pc[t] \in {"w_link", "r_link"}
      <4>1. predecessor[t] \in Threads /\ Ahead(predecessor[t], t)
        BY <3>2 DEF Shape, LinkingOK, Linking
      <4> QED
        BY <3>2, <4>1, AheadFacts DEF Behind
    <3> QED
      BY <2>1, <3>1, <3>2
  <2>3. /\ pc'[t] = l /\ UNCHANGED <<blocked, lockclass>>
        /\ \A x \in Threads : x # predecessor[t] => next'[x] = next[x]
    BY <2>1 DEF Link, Goto, Shape, Typed
  <2>4. blocked[t]
    <3>1. pc[t] \in Opening \cup Linking
      BY <2>1 DEF Opening, Linking
    <3> QED
      BY <3>1 DEF Shape, LocalOK
  <2>5. ~Entering(t)'
    BY <2>1, <2>3, <2>4 DEF Entering, WriterIn, Offerable
  <2>6. reader_count' = reader_count /\ next_writer' = next_writer /\ late' = late
    BY <2>1
  <2> QED
    BY <2>1, <2>2, <2>3, <2>5, <2>6, NoReadersKept
<1>3. CASE \/ WriteClose(t) /\ tail = t
           \/ ReadClose(t) /\ tail = t
           \/ ReadHandOver(t)
  <2>1. PICK l : /\ Goto(t, l) /\ Discard(t) /\ reader_count' = reader_count /\ blocked' = blocked
                 /\ late' = late /\ l \in {"idle", "ru_count"}
                 /\ pc[t] \in {"wu_close", "ru_close", "ru_next"}
    BY <1>3 DEF WriteClose, ReadClose, CloseQueue, ReadHandOver
  <2>2. /\ pc'[t] = l
        /\ \A x \in Threads : x # t => next'[x] = next[x] /\ lockclass'[x] = lockclass[x]
    BY <2>1 DEF Discard, Goto, Shape, Typed
  <2>3. ~blocked[t]
    BY <2>1 DEF Shape, LocalOK, Blockable, Opening, Linking, Offerable
  <2>4. ~Entering(t)'
    BY <2>1, <2>2 DEF Entering, WriterIn, Offerable
  <2>5. \A x \in Threads : blocked[x] => lockclass'[x] = lockclass[x]
    BY <2>2, <2>3
  <2>6. ASSUME NEW x \in Threads, next_writer' = x, pc[x] = "w_take"
        PROVE  next_writer = x
    <3>1. CASE ReadHandOver(t)
      <4>1. /\ pc[t] = "ru_next" /\ Goto(t, "ru_count") /\ next[t] # NULL /\ Discard(t)
            /\ next_writer' = IF successor_class[t] = "WRITE" THEN next[t] ELSE next_writer
            /\ UNCHANGED <<tail, reader_count, blocked, locals, ghosts>>
        BY <3>1 DEF ReadHandOver
      <4>2. successor_class[t] = "WRITE" => pc[next[t]] = "w_wait"
        BY <4>1, HandOverStep
      <4> QED
        BY <2>6, <4>1, <4>2
    <3>2. CASE ~ReadHandOver(t)
      BY <1>3, <2>6, <3>2 DEF WriteClose, ReadClose, CloseQueue
    <3> QED
      BY <3>1, <3>2
  <2> QED
    BY <2>1, <2>2, <2>4, <2>5, <2>6, NoReadersKept
<1> QED
  BY <1>1, <1>2, <1>3

LEMMA LetInNoReaders ==
  ASSUME Shape, Shape', NoReaders, NEW t \in Threads, WritePass(t) \/ ReadPass(t) \/ ReadRelease(t)
  PROVE  NoReaders'
<1> USE DEF locals, At
<1>1. PICK l, u : LetsIn(t, l, u) /\ Goto(t, l) /\ Unblock(u) /\ UNCHANGED <<shared, predecessor>>
  BY LetInActions
<1>2. pc[t] \in {"wu_open", "r_pass", "ru_open"}
  BY DEF WritePass, ReadPass, ReadRelease
<1>3. /\ u \in Threads /\ HasTurn(t) /\ u # t
      /\ pc[u] \in Offerable \cup {"r_wait"} /\ (pc[t] = "r_pass" => pc[u] = "r_wait")
  BY <1>1, <1>2, LetInFacts
<1>4. /\ reader_count' = reader_count /\ next_writer' = next_writer /\ late' = late
      /\ pc'[t] = l /\ (\A x \in Threads : x # t => pc'[x] = pc[x])
      /\ \A x \in Threads : x # u => blocked'[x] = blocked[x]
  BY <1>1 DEF Unblock, Goto, Shape, Typed, shared
<1>5. ~Entering(t)'
  BY <1>1, <1>2, <1>4 DEF LetsIn, Entering, WriterIn, Offerable
<1>6. \A x \in Threads : x # u => ~Entering(x)'
  <2>1. \A x \in Threads : x # t => ~Entering(x)
    BY <1>3, EnteringTurn, TurnIsOne
  <2>2. \A x \in Threads : x # t /\ x # u => (Entering(x)' <=> Entering(x))
    BY <1>4 DEF Entering, WriterIn
  <2> QED
    BY <2>1, <2>2, <1>5
<1>7. ASSUME ~late, Entering(u)'
      PROVE  reader_count = 0
  <2>1. pc[u] \in Offerable /\ pc[t] # "r_pass"
    BY <1>3, <1>4, <1>7 DEF Entering, WriterIn, Offerable
  <2>2. CASE pc[t] = "ru_open"
    BY <2>2, <1>7, EnteringFree DEF Entering
  <2>3. CASE pc[t] = "wu_open"
    <3>1. Entering(t) /\ u = next[t]
      BY <2>3, <1>1 DEF Entering, WriterIn, LetsIn
    <3>2. reader_count = 0 \/ Passing(t)
      BY <3>1, <1>7, NoReadersIs
    <3>3. lockclass[u] = "WRITE"
      BY <2>1, <1>3 DEF Shape, LocalOK, Offerable, WriteLocs
    <3> QED
      BY <2>3, <3>1, <3>2, <3>3 DEF Passing
  <2> QED
    BY <2>1, <2>2, <2>3, <1>2
<1>8. (NoReaders <=> (~late => \A x \in Threads : Entering(x) => reader_count = 0 \/ Passing(x)))'
  BY NoReadersIs, PTL
<1> QED
  BY <1>4, <1>6, <1>7, <1>8

LEMMA CountingNoReaders ==
  ASSUME Shape, Shape', CountExact, NoReaders, NEW t \in Threads,
         WriteCount(t) \/ ReadFirst(t) \/ ReadCount(t) \/ ReadNext(t) \/ ReadUncount(t)
  PROVE  NoReaders'
<1> USE DEF fields, locals, ghosts, At
<1>1. UNCHANGED <<next, lockclass, blocked, next_writer, late>>
  BY DEF WriteCount, ReadFirst, ReadCount, ReadNext, ReadUncount, CountReader
<1>2. PICK l : /\ Goto(t, l)
               /\ \/ pc[t] = "wu_count" /\ l = "wu_open"
                  \/ pc[t] = "r_first" /\ l = "r_open"
                  \/ pc[t] = "r_count" /\ l = "r_join"
                  \/ pc[t] = "r_next" /\ l = "r_pass"
                  \/ pc[t] = "ru_count" /\ l \in {"ru_take", "idle"} /\ reader_count' = reader_count - 1
  BY DEF WriteCount, ReadFirst, ReadCount, ReadNext, ReadUncount
<1>3. /\ pc'[t] = l /\ (\A x \in Threads : x # t => pc'[x] = pc[x])
  BY <1>2 DEF Goto, Shape, Typed
<1>4. \A x \in Threads : x # t => (Entering(x)' <=> Entering(x)) /\ (Passing(x)' <=> Passing(x))
  BY <1>1, <1>3 DEF Entering, WriterIn, Passing
<1>5. (NoReaders <=> (~late => \A x \in Threads : Entering(x) => reader_count = 0 \/ Passing(x)))'
  BY NoReadersIs, PTL
<1>6. CASE pc[t] = "ru_count"
  <2>1. reader_count # 0
    <3>1. Counts(t)
      BY <1>6 DEF Counts, InCount
    <3> QED
      BY <3>1, CountPositive
  <2>2. ~Entering(t)'
    BY <1>2, <1>3, <1>6 DEF Entering, WriterIn, Offerable
  <2>3. ASSUME ~late', NEW x \in Threads, Entering(x)'
        PROVE  Passing(x)'
    BY <2>1, <2>2, <2>3, <1>1, <1>4, NoReadersIs
  <2> QED
    BY <2>3, <1>5
<1>7. CASE pc[t] # "ru_count"
  <2>1. HasTurn(t)
    <3>1. pc[t] \in Opening \/ Last(t)
      BY <1>2, <1>7, ChainerFacts DEF Opening, Last, WriterIn
    <3> QED
      BY <3>1 DEF HasTurn
  <2>2. \A x \in Threads : x # t => ~Entering(x)
    BY <2>1, EnteringTurn, TurnIsOne
  <2>3. Entering(t)' => Passing(t)'
    <3>1. CASE pc[t] = "wu_count"
      <4>1. lockclass[next[t]] = "READ"
        BY <3>1 DEF Shape, LocalOK
      <4> QED
        BY <3>1, <4>1, <1>1, <1>2, <1>3 DEF Passing
    <3>2. CASE pc[t] # "wu_count"
      BY <3>2, <1>2, <1>3, <1>7 DEF Entering, WriterIn, Offerable
    <3> QED
      BY <3>1, <3>2
  <2> QED
    BY <2>2, <2>3, <1>4, <1>5
<1> QED
  BY <1>6, <1>7

LEMMA NoReadersStep ==
  ASSUME Shape, Shape', CountExact, NoReaders, NEW t \in Threads,
         CallWrite(t) \/ CallRead(t) \/ WriteStep(t) \/ ReadStep(t)
  PROVE  NoReaders'
<1>1. ASSUME WriteStep(t) PROVE NoReaders'
  <2>1. ASSUME \/ WritePublish(t) \/ WriteTest(t) \/ WriteTake(t) \/ WriteAnnounce(t) \/ WriteWait(t)
               \/ WriteAssert(t) \/ WriteUnlock(t) \/ WriteNext(t) \/ WriteOpen(t)
        PROVE  NoReaders'
    BY <2>1, QuietNoReaders
  <2>2. ASSUME WriteClose(t) PROVE NoReaders'
    <3>1. CASE tail = t
      BY <2>2, <3>1, LinkNoReaders
    <3>2. CASE tail # t
      BY <2>2, <3>2, QuietNoReaders
    <3> QED
      BY <3>1, <3>2
  <2> QED
    BY <1>1, <2>1, <2>2, LinkNoReaders, LetInNoReaders, CountingNoReaders DEF WriteStep
<1>2. ASSUME ReadStep(t) PROVE NoReaders'
  <2>1. ASSUME \/ ReadTry(t) \/ ReadWait(t) \/ ReadChain(t) \/ ReadUnlock(t) \/ ReadTake(t) \/ ReadOpen(t)
        PROVE  NoReaders'
    BY <2>1, QuietNoReaders
  <2>2. ASSUME ReadClose(t) PROVE NoReaders'
    <3>1. CASE tail = t
      BY <2>2, <3>1, LinkNoReaders
    <3>2. CASE tail # t
      BY <2>2, <3>2, QuietNoReaders
    <3> QED
      BY <3>1, <3>2
  <2> QED
    BY <1>2, <2>1, <2>2, LinkNoReaders, LetInNoReaders, CountingNoReaders DEF ReadStep
<1> QED
  BY <1>1, <1>2, LinkNoReaders

----------------------------------------------------------------------------
LEMMA InitInvariant ==
  ASSUME Init
  PROVE  IInv
<1> USE DEF Init
<1>1. \A t \in Threads : /\ pc[t] = "idle" /\ ~blocked[t] /\ ~HasTurn(t) /\ ~Last(t)
                         /\ ~InCount(t) /\ ~Passing(t) /\ ~WriterIn(t)
  BY ThreadsAssumption DEF HasTurn, Last, WriterIn, ReaderIn, Opening, Offerable, InCount, Passing
<1>2. waiting = <<>> /\ Len(waiting) = 0
  OBVIOUS
<1>3. Typed /\ LineOK
  <2>1. Typed
    <3>1. late \in BOOLEAN
      BY Zenon
    <3>2. waiting \in Seq(Threads)
      BY EmptySeq
    <3>3. /\ {tail, next_writer} \subseteq Requests /\ reader_count \in Nat
          /\ next \in [Threads -> Requests] /\ successor_class \in [Threads -> Classes]
          /\ lockclass \in [Threads -> Classes] /\ predecessor \in [Threads -> Requests]
          /\ w \in [Threads -> Requests] /\ pc \in [Threads -> Locations]
      BY DEF Requests, Classes, Locations
    <3>4. blocked \in [Threads -> BOOLEAN]
      OBVIOUS
    <3> QED
      BY <3>1, <3>2, <3>3, <3>4, Zenon DEF Typed
  <2>2. LineOK
    BY <1>1, <1>2 DEF LineOK
  <2> QED
    BY <2>1, <2>2
<1>4. LocalOK
  BY DEF LocalOK, WriteLocs, ReadLocs, Blockable, Opening, Linking, Offerable
<1>5. LinkedOK
  <2>1. \A p, h \in Threads : ~Ahead(p, h)
    BY <1>1, <1>2 DEF Ahead
  <2> QED
    BY <2>1 DEF LinkedOK
<1>6. LinkingOK /\ JoiningOK
  BY DEF LinkingOK, JoiningOK, Linking, Joining
<1>7. TailOK
  BY <1>1, <1>2 DEF TailOK
<1>8. FrontOK
  BY ThreadsAssumption DEF FrontOK, Opening
<1>9. OneTurn
  BY <1>1 DEF OneTurn
<1>10. Shape
  BY <1>3, <1>4, <1>5, <1>6, <1>7, <1>8, <1>9 DEF Shape
<1>11. CountExact
  <2>1. Counted = {}
    BY <1>1, <1>10, CountedIs DEF CountedFinite, ReallyCounted, Counts
  <2> QED
    BY <2>1, FS_EmptySet DEF CountExact
<1>12. NoReaders
  BY <1>1 DEF NoReaders
<1> QED
  BY <1>10, <1>11, <1>12 DEF IInv

LEMMA StepInvariant ==
  ASSUME ~garbled', IInv, [Next]_vars
  PROVE  IInv' /\ ((\E t \in Threads : Orderly(t)) \/ waiting' = waiting)
<1>1. CASE Next
  <2>1. PICK t \in Threads : CallWrite(t) \/ CallRead(t) \/ WriteStep(t) \/ ReadStep(t)
    BY <1>1 DEF Next
  <2>2. Shape /\ CountExact /\ NoReaders
    BY DEF IInv
  <2>3. Shape' /\ Orderly(t)
    BY <2>1, <2>2, ShapeStep
  <2>4. CountExact' /\ NoReaders'
    BY <2>1, <2>2, <2>3, CountStep, NoReadersStep
  <2> QED
    BY <2>3, <2>4 DEF IInv
<1>2. CASE UNCHANGED vars
  <2> USE <1>2 DEF vars, shared, fields, locals, ghosts
  <2>1. \A x \in Threads : /\ (Last(x)' <=> Last(x)) /\ (HasTurn(x)' <=> HasTurn(x))
                           /\ (WriterIn(x)' <=> WriterIn(x)) /\ (ReaderIn(x)' <=> ReaderIn(x))
    BY DEF HasTurn, Last, Followed, WriterIn, ReaderIn
  <2>2. \A p, h \in Threads : (Ahead(p, h)' <=> Ahead(p, h)) /\ (Behind(p, h)' <=> Behind(p, h))
    BY <2>1 DEF Ahead, Behind, Front
  <2>3. Typed' /\ LineOK' /\ LocalOK'
    BY DEF IInv, Shape, Typed, LineOK, LocalOK
  <2>4. LinkedOK' /\ LinkingOK' /\ OneTurn'
    BY <2>1, <2>2 DEF IInv, Shape, LinkedOK, LinkingOK, OneTurn
  <2>5. JoiningOK' /\ FrontOK'
    BY <2>1 DEF IInv, Shape, JoiningOK, FrontOK, NothingBehind, Front
  <2>6. TailOK'
    <3>1. tail' = tail /\ waiting' = waiting /\ next' = next /\ successor_class' = successor_class
      OBVIOUS
    <3>2. TailOK
      BY DEF IInv, Shape
    <3>3. ASSUME waiting = <<>>, NEW p \in Threads, Last(p)'
          PROVE  tail = p /\ next[p] = NULL /\ successor_class[p] = "NONE"
      <4>1. Last(p)
        BY <3>3, <2>1
      <4> QED
        BY <4>1, <3>2, <3>3 DEF TailOK, NothingBehind
    <3>4. ASSUME waiting = <<>>, tail # NULL
          PROVE  \E p \in Threads : p = tail /\ Last(p)'
      <4>1. PICK p \in Threads : p = tail
        BY <3>4 DEF IInv, Shape, Typed, Requests
      <4>2. Last(p)
        BY <4>1, <3>2, <3>4 DEF TailOK
      <4> QED
        BY <4>1, <4>2, <2>1
    <3>5. waiting = <<>> /\ tail # NULL => Last(tail)'
      BY <3>1, <3>4
    <3>6. waiting # <<>> => tail = waiting[Len(waiting)] /\ next[tail] = NULL /\ successor_class[tail] = "NONE"
      BY <3>2 DEF TailOK, NothingBehind
    <3> HIDE <1>2
    <3> QED
      BY <3>1, <3>3, <3>5, <3>6 DEF TailOK, NothingBehind
  <2>7. Counted' = Counted
    BY DEF Counted
  <2>8. CountExact'
    BY <2>7 DEF IInv, CountExact
  <2>9. NoReaders'
    BY <2>1 DEF IInv, NoReaders
  <2>10. IInv'
    BY <2>3, <2>4, <2>5, <2>6, <2>8, <2>9 DEF IInv, Shape
  <2> QED
    BY <2>10
<1> QED
  BY <1>1, <1>2

\* The uninitialised byte has sent a reader in behind one that waits, or not
\* yet, and what has happened stays so.
LEMMA GarbledStep ==
  ASSUME garbled \in BOOLEAN, [Next]_vars
  PROVE  garbled' \in BOOLEAN /\ (garbled => garbled')
<1> USE DEF vars, ghosts
<1>1. CASE UNCHANGED vars
  BY <1>1
<1>2. CASE Next
  <2>1. PICK t \in Threads : CallWrite(t) \/ CallRead(t) \/ WriteStep(t) \/ ReadStep(t)
    BY <1>2 DEF Next
  <2>2. ASSUME CallWrite(t) \/ CallRead(t) PROVE garbled' = garbled
    BY <2>2 DEF CallWrite, CallRead, Enqueue
  <2>3. ASSUME WriteStep(t) PROVE garbled' = garbled
    BY <2>3 DEF WriteStep, WritePublish, WriteTest, WriteTake, WriteOpen, WriteAnnounce, WriteLink,
       WriteWait, WriteAssert, WriteUnlock, WriteClose, WriteNext, WriteCount, WritePass, CloseQueue, Unblock
  <2>4. ASSUME ReadStep(t), ~ReadTry(t) PROVE garbled' = garbled
    BY <2>4 DEF ReadStep, ReadLink, ReadWait, ReadFirst, ReadCount, ReadJoin, ReadOpen, ReadChain,
       ReadNext, ReadPass, ReadUnlock, ReadClose, ReadHandOver, ReadUncount, ReadTake, ReadRelease,
       CloseQueue, Unblock
  <2>5. ASSUME ReadTry(t) PROVE garbled' \in BOOLEAN /\ (garbled => garbled')
    BY <2>5, Zenon DEF ReadTry
  <2> QED
    BY <2>1, <2>2, <2>3, <2>4, <2>5
<1> QED
  BY <1>1, <1>2

\* At every moment the requests that wait form one chain, at most one thread
\* has the turn to let in its head, and the count of readers is exact, until
\* the uninitialised byte sends a reader in behind one that waits.
THEOREM Invariance == Spec => [](garbled \in BOOLEAN /\ (garbled \/ IInv))
<1> DEFINE Kept == garbled \in BOOLEAN /\ (garbled \/ IInv)
<1>1. Init => Kept
  BY InitInvariant DEF Init
<1>2. Kept /\ [Next]_vars => Kept'
  BY StepInvariant, GarbledStep
<1> QED
  BY <1>1, <1>2, PTL DEF Spec

----------------------------------------------------------------------------
(* The theorems that the run's properties follow from, for every content of *)
(* the byte that readlock leaves uninitialised.                             *)

LEMMA TypeFollows ==
  ASSUME IInv, garbled \in BOOLEAN
  PROVE  TypeOK
<1>1. Typed /\ Shape /\ CountExact
  BY DEF IInv, Shape
<1>2. reader_count \in 0 .. Cardinality(Threads)
  <2>1. Counted \subseteq Threads
    BY <1>1, CountedIs DEF CountedFinite, ReallyCounted
  <2>2. Cardinality(Counted) <= Cardinality(Threads) /\ Cardinality(Threads) \in Nat
    BY <2>1, ThreadsAssumption, FS_Subset, FS_CardinalityType
  <2> QED
    BY <2>2, <1>1 DEF CountExact, Typed
<1>3. /\ {tail, next_writer} \subseteq Requests
      /\ next \in [Threads -> Requests]
      /\ successor_class \in [Threads -> Classes]
      /\ blocked \in [Threads -> BOOLEAN]
      /\ lockclass \in [Threads -> Classes]
      /\ predecessor \in [Threads -> Requests]
      /\ w \in [Threads -> Requests]
      /\ pc \in [Threads -> Locations]
      /\ waiting \in Seq(Threads)
  BY <1>1 DEF Typed
<1>4. {late, garbled} \subseteq BOOLEAN
  BY <1>1, Zenon DEF Typed
<1> QED
  BY <1>2, <1>3, <1>4, Zenon DEF TypeOK

\* Every variable keeps its type, and reader_count never exceeds the number of
\* threads nor falls below zero, until the uninitialised byte (:91) sends a
\* reader in behind one that waits.
THEOREM TypeCorrect == Spec => [](garbled \/ TypeOK)
BY Invariance, TypeFollows, PTL

\* reader_count is the number of the readers that were counted and did not
\* leave, at every step of every thread, until the uninitialised byte (:91)
\* sends a reader in behind one that waits.
THEOREM CountAlwaysExact == Spec => [](garbled \/ CountExact)
<1>1. IInv => CountExact
  BY DEF IInv
<1> QED
  BY <1>1, Invariance, PTL

LEMMA ExclusionFollows ==
  ASSUME IInv
  PROVE  ExclusiveUnlessLateOrGarbled
<1> SUFFICES ASSUME ~late
             PROVE  (Writers # {} => Readers = {}) /\ Cardinality(Writers) <= 1
  BY DEF ExclusiveUnlessLateOrGarbled
<1>0. Shape /\ CountExact /\ NoReaders
  BY DEF IInv
<1>1. \A a \in Writers : a \in Threads /\ WriterIn(a) /\ HasTurn(a) /\ reader_count = 0
  BY <1>0 DEF Writers, WriterIn, HasTurn, Last, NoReaders
<1>2. \A b \in Readers : b \in Threads /\ reader_count # 0
  <2>1. SUFFICES ASSUME NEW b \in Threads, pc[b] = "reading"
                 PROVE  reader_count # 0
    BY DEF Readers
  <2>2. Counts(b)
    BY <2>1 DEF Counts, InCount
  <2> QED
    BY <2>2, <1>0, CountPositive
<1>3. Writers # {} => Readers = {}
  BY <1>1, <1>2
<1>4. Cardinality(Writers) <= 1
  <2>1. CASE Writers = {}
    <3>1. Cardinality({}) = 0
      BY FS_EmptySet
    <3> QED
      BY <2>1, <3>1
  <2>2. CASE Writers # {}
    <3>1. PICK a : a \in Writers
      BY <2>2
    <3>2. Writers = {a}
      BY <1>0, <1>1, <3>1 DEF Shape, OneTurn
    <3>3. Cardinality({a}) = 1
      BY FS_Singleton
    <3> QED
      BY <3>2, <3>3
  <2> QED
    BY <2>1, <2>2
<1> QED
  BY <1>3, <1>4

\* A writer is alone inside, until a reader that had counted down to zero lets
\* a writer in although others were counted since (:131-133), or the
\* uninitialised byte (:91) sends a reader in behind one that waits.
THEOREM WritersExclude == Spec => []ExclusiveUnlessLateOrGarbled
<1>1. garbled => ExclusiveUnlessLateOrGarbled
  BY DEF ExclusiveUnlessLateOrGarbled
<1> QED
  BY <1>1, Invariance, ExclusionFollows, PTL

\* No thread is let in before one that asked earlier, whoever clears its flag:
\* only the head of the queue of blocked threads ever leaves it, until the
\* uninitialised byte (:91) sends a reader in behind one that waits.
THEOREM OrderKept == Spec => GrantedInOrder
<1> DEFINE Kept == garbled \in BOOLEAN /\ (garbled \/ IInv)
           Order == Len(waiting') < Len(waiting) => garbled' \/ waiting' = Tail(waiting)
<1>1. Kept /\ [Next]_vars => [Order]_waiting
  <2>1. SUFFICES ASSUME Kept, [Next]_vars, Len(waiting') < Len(waiting), ~garbled'
                 PROVE  waiting' = Tail(waiting)
    OBVIOUS
  <2>2. IInv
    BY <2>1, GarbledStep
  <2>3. waiting \in Seq(Threads) /\ Len(waiting) \in Nat
    BY <2>2 DEF IInv, Shape, Typed
  <2>4. CASE waiting' = waiting
    BY <2>1, <2>3, <2>4
  <2>5. CASE \E t \in Threads : Orderly(t)
    <3>1. PICK t \in Threads : Orderly(t)
      BY <2>5
    <3>2. Len(Append(waiting, t)) = Len(waiting) + 1
      BY <2>3, AppendProperties
    <3> QED
      BY <2>1, <2>3, <3>1, <3>2 DEF Orderly
  <2> QED
    BY <2>1, <2>2, <2>4, <2>5, StepInvariant
<1> QED
  BY <1>1, Invariance, PTL DEF Spec, GrantedInOrder
=============================================================================
