------------------------- MODULE SpinRWLock2Proofs -------------------------
(***************************************************************************)
(* For any finite set of threads and any word that has room for them: the  *)
(* lock word is exact, the lock implements ReadersWriter, and a wait bit   *)
(* always has a writer that waits.                                         *)
(***************************************************************************)
EXTENDS SpinRWLock2, FiniteSetTheorems, TLAPS

(* The inductive invariant.  Exactness of the word turns what a thread saw  *)
(* of the word into who was inside.  It needs one more fact: a copy that is *)
(* about to be compared was below RW_WRITE, so a word that equals it has    *)
(* neither readers nor a writer.                                            *)
CopyIsFree == \A t \in RwThreads : rwPc[t] = "w_cas" => state[t] < RW_WRITE

IInv == RwTypeOK /\ WordExact /\ Exclusive /\ CopyIsFree

\* Adding or taking off a reader or the write bit leaves the wait bit alone.
LEMMA WaitSetKept ==
  ASSUME NEW x \in Int
  PROVE  /\ WaitSet(x + RW_READ) <=> WaitSet(x)
         /\ WaitSet(x - RW_READ) <=> WaitSet(x)
         /\ WaitSet(x - RW_WRITE) <=> WaitSet(x)
         /\ ~WaitSet(x) => WaitSet(x + RW_WAIT)
BY DEF WaitSet, RW_READ, RW_WRITE, RW_WAIT

\* The threads that the word counts are finitely many, at most all of them.
LEMMA CountedFinite ==
  /\ IsFiniteSet(Counted)
  /\ Cardinality(Counted) \in Nat
  /\ Cardinality(Counted) <= Cardinality(RwThreads)
  /\ Cardinality(RwThreads) \in Nat
  /\ Cardinality(Counted) = 0 <=> Counted = {}
<1>1. IsFiniteSet(RwThreads)
  BY ThreadsFitWord
<1>2. Counted \in SUBSET RwThreads
  BY DEF Counted
<1>3. IsFiniteSet(Counted) /\ Cardinality(Counted) <= Cardinality(RwThreads)
  BY <1>1, <1>2, FS_Subset
<1>4. Cardinality(Counted) = 0 <=> Counted = {}
  BY <1>3, FS_EmptySet
<1>. QED
  BY <1>1, <1>3, <1>4, FS_CardinalityType

\* A word below RW_WRITE says that nobody is inside.
LEMMA FreeWord ==
  ASSUME RwTypeOK, WordExact, l < RW_WRITE
  PROVE  Readers = {} /\ Writers = {} /\ Counted = {}
<1>1. Cardinality(Counted) = 0 /\ Writers = {}
  BY CountedFinite DEF RwTypeOK, WordExact, WriteBit, WaitBit, RW_READ, RW_WRITE, RW_WAIT
<1>2. Counted = {}
  BY <1>1, CountedFinite
<1>. QED
  BY <1>1, <1>2 DEF Readers, Counted

\* A word without flag bits says that no writer is inside.
LEMMA NoWriterWord ==
  ASSUME RwTypeOK, WordExact, ~WaitOrWriteSet(l)
  PROVE  Writers = {}
BY CountedFinite DEF RwTypeOK, WordExact, WriteBit, WaitBit, WaitSet, WaitOrWriteSet, RW_READ, RW_WRITE, RW_WAIT

\* A thread that the word counts can be taken off the word without a wrap,
\* and one that it does not count can be added.
LEMMA WordRoom ==
  ASSUME RwTypeOK, WordExact, NEW t \in RwThreads
  PROVE  /\ t \in Counted => Wrap(l - RW_READ) = l - RW_READ
         /\ t \notin Counted => Wrap(l + RW_READ) = l + RW_READ
         /\ t \in Writers => Wrap(l - RW_WRITE) = l - RW_WRITE
<1>1. WordSize \in Nat /\ 4 * (Cardinality(RwThreads) + 1) <= WordSize
  BY ThreadsFitWord DEF RW_READ
<1>2. t \in Counted => Cardinality(Counted) >= 1
  BY CountedFinite
<1>3. t \notin Counted => Cardinality(Counted) + 1 <= Cardinality(RwThreads)
  <2>1. Counted \in SUBSET RwThreads /\ IsFiniteSet(RwThreads)
    BY ThreadsFitWord DEF Counted
  <2>2. t \notin Counted => Cardinality(Counted) # Cardinality(RwThreads)
    BY <2>1, FS_Subset
  <2>. QED
    BY <2>2, CountedFinite
<1>4. /\ l \in Nat /\ l < WordSize
      /\ l >= 4 * Cardinality(Counted)
      /\ l <= 4 * Cardinality(Counted) + 3
      /\ Writers # {} => l >= 2
  BY CountedFinite, <1>1 DEF RwTypeOK, WordExact, WriteBit, WaitBit, RW_READ, RW_WRITE, RW_WAIT
<1>. QED
  BY <1>1, <1>2, <1>3, <1>4, CountedFinite DEF Wrap, RW_READ, RW_WRITE

----------------------------------------------------------------------------
\* The lock is born free and its word says so.
THEOREM InitInvariant == RwInit => IInv
<1>. SUFFICES ASSUME RwInit PROVE IInv
  OBVIOUS
<1>1. Counted = {} /\ Writers = {} /\ Readers = {}
  BY DEF RwInit, Counted, Writers, Readers
<1>2. WordExact
  BY <1>1, FS_EmptySet DEF RwInit, WordExact, WriteBit, WaitBit, WaitSet, RW_READ, RW_WRITE, RW_WAIT
<1>3. RwTypeOK
  BY ThreadsFitWord, CountedFinite DEF RwInit, RwTypeOK, RwLocations, RW_READ
<1>. QED
  BY <1>1, <1>2, <1>3 DEF RwInit, IInv, Exclusive, CopyIsFree

\* A step that leaves the word and the sets of holders alone keeps it exact.
LEMMA QuietStep ==
  ASSUME WordExact, Exclusive, UNCHANGED l, Counted' = Counted, Writers' = Writers, Readers' = Readers
  PROVE  WordExact' /\ Exclusive'
BY DEF WordExact, Exclusive, WriteBit, WaitBit

\* Every step of every thread keeps the word exact and the holders exclusive,
\* whatever the other threads have done since its last step.
THEOREM StepInvariant == IInv /\ [RwNext]_rwVars => IInv'
<1>. SUFFICES ASSUME IInv, [RwNext]_rwVars PROVE IInv'
  OBVIOUS
<1>. USE DEF IInv
<1>1. CASE UNCHANGED rwVars
  <2>1. UNCHANGED <<l, rwPc, state>>
    BY <1>1 DEF rwVars
  <2>. QED
    BY <2>1 DEF RwTypeOK, WordExact, Exclusive, CopyIsFree, WriteBit, WaitBit, Writers, Readers, Counted
<1>2. ASSUME NEW t \in RwThreads, CallWrite(t) \/ CallRead(t) \/ WriteStep(t) \/ ReadStep(t)
      PROVE  IInv'
  <2>0. l \in Nat /\ WordSize \in Nat /\ l < WordSize
    BY ThreadsFitWord DEF RwTypeOK
  <2>1. CASE \/ CallWrite(t) \/ CallRead(t) \/ WriteLoad(t) \/ WriteReload(t)
             \/ WriteRelax(t) \/ ReadRelax(t)
    <3>1. RwTypeOK' /\ CopyIsFree' /\ UNCHANGED l
      BY <2>0, <2>1 DEF RwTypeOK, RwLocations, CopyIsFree, CallWrite, CallRead, WriteLoad, WriteReload,
         WriteRelax, ReadRelax, RwAt, RwGoto, WriterMustWait, RW_WRITE
    <3>2. Counted' = Counted /\ Writers' = Writers /\ Readers' = Readers
      BY <2>1 DEF RwTypeOK, CallWrite, CallRead, WriteLoad, WriteReload,
         WriteRelax, ReadRelax, RwAt, RwGoto, WriterMustWait, Counted, Writers, Readers
    <3>. QED
      BY <3>1, <3>2, QuietStep
  <2>2. CASE WriteCas(t)
    <3>1. CASE l # state[t]
      <4>1. RwTypeOK' /\ CopyIsFree' /\ UNCHANGED l
        BY <2>2, <3>1 DEF RwTypeOK, RwLocations, CopyIsFree, WriteCas, RwAt, RwGoto
      <4>2. Counted' = Counted /\ Writers' = Writers /\ Readers' = Readers
        BY <2>2, <3>1 DEF RwTypeOK, WriteCas, RwAt, RwGoto, Counted, Writers, Readers
      <4>. QED
        BY <4>1, <4>2, QuietStep
    <3>2. CASE l = state[t]
      <4>1. Readers = {} /\ Writers = {} /\ Counted = {}
        BY <2>2, <3>2, FreeWord DEF CopyIsFree, WriteCas, RwAt
      <4>2. Readers' = {} /\ Writers' = {t} /\ Counted' = {} /\ l' = RW_WRITE
        BY <2>2, <3>2, <4>1 DEF RwTypeOK, WriteCas, RwAt, RwGoto, Counted, Writers, Readers
      <4>3. WordExact'
        BY <4>2, FS_EmptySet DEF WordExact, WriteBit, WaitBit, WaitSet, RW_READ, RW_WRITE, RW_WAIT
      <4>4. l' \in 0 .. WordSize - 1
        BY <4>2, ThreadsFitWord, CountedFinite DEF RW_READ, RW_WRITE
      <4>5. RwTypeOK'
        BY <2>2, <3>2, <4>4 DEF RwTypeOK, RwLocations, WriteCas, RwAt, RwGoto
      <4>6. CopyIsFree'
        BY <2>2, <3>2 DEF RwTypeOK, CopyIsFree, WriteCas, RwAt, RwGoto
      <4>. QED
        BY <4>2, <4>3, <4>5, <4>6 DEF Exclusive
    <3>. QED
      BY <3>1, <3>2
  <2>3. CASE WriteMark(t)
    <3>1. Counted' = Counted /\ Writers' = Writers /\ Readers' = Readers
      BY <2>3 DEF RwTypeOK, WriteMark, RwAt, RwGoto, Counted, Writers, Readers
    <3>2. WordExact'
      BY <2>0, <2>3, <3>1, CountedFinite DEF WordExact, WriteMark, WithWait, WriteBit, WaitBit, WaitSet, RW_READ, RW_WRITE, RW_WAIT
    <3>3. l' \in 0 .. WordSize - 1
      BY <2>0, <3>1, <3>2, ThreadsFitWord, CountedFinite DEF WordExact, WriteBit, WaitBit, WaitSet, RW_READ, RW_WRITE, RW_WAIT
    <3>4. RwTypeOK' /\ CopyIsFree'
      BY <2>3, <3>3 DEF RwTypeOK, RwLocations, CopyIsFree, WriteMark, RwAt, RwGoto
    <3>. QED
      BY <3>1, <3>2, <3>4 DEF Exclusive
  <2>4. CASE WriteUnlock(t)
    <3>1. Counted' = Counted /\ Writers' = {} /\ Readers' = Readers /\ t \in Writers
      BY <2>4 DEF RwTypeOK, Exclusive, WriteUnlock, RwAt, RwGoto, Counted, Writers, Readers
    <3>2. l' = l - RW_WRITE
      BY <2>4, <3>1, WordRoom DEF WriteUnlock
    <3>3. WordExact'
      <4>1. WaitSet(l') <=> WaitSet(l)
        BY <2>0, <3>2, WaitSetKept
      <4>2. WriteBit = RW_WRITE /\ WriteBit' = 0 /\ WaitBit' = WaitBit
        BY <3>1, <4>1 DEF WriteBit, WaitBit
      <4>3. RW_WRITE \in Int /\ WaitBit \in Int
        BY DEF WaitBit, RW_WRITE, RW_WAIT
      <4>4. Cardinality(Counted)' = Cardinality(Counted)
        BY <3>1
      <4>. QED
        BY <2>0, <3>2, <4>2, <4>3, <4>4, CountedFinite DEF WordExact, RW_READ
    <3>4. l' \in 0 .. WordSize - 1
      BY <2>0, <3>1, <3>2, CountedFinite DEF WordExact, WriteBit, WaitBit, WaitSet, RW_READ, RW_WRITE, RW_WAIT
    <3>5. RwTypeOK' /\ CopyIsFree'
      BY <2>4, <3>4 DEF RwTypeOK, RwLocations, CopyIsFree, WriteUnlock, RwAt, RwGoto
    <3>. QED
      BY <3>1, <3>3, <3>5 DEF Exclusive
  <2>5. CASE ReadAdd(t)
    <3>1. Counted' = Counted \cup {t} /\ t \notin Counted /\ Writers' = Writers
      BY <2>5 DEF RwTypeOK, ReadAdd, RwAt, RwGoto, Counted, Writers
    <3>2. l' = l + RW_READ
      BY <2>5, <3>1, WordRoom DEF ReadAdd
    <3>3. Cardinality(Counted') = Cardinality(Counted) + 1
      BY <3>1, CountedFinite, FS_AddElement
    <3>4. WordExact'
      <4>1. WaitSet(l') <=> WaitSet(l)
        BY <2>0, <3>2, WaitSetKept
      <4>2. WriteBit' = WriteBit /\ WaitBit' = WaitBit
        BY <3>1, <4>1 DEF WriteBit, WaitBit
      <4>3. WriteBit \in Int /\ WaitBit \in Int
        BY DEF WriteBit, WaitBit, RW_WRITE, RW_WAIT
      <4>. QED
        BY <2>0, <3>2, <3>3, <4>2, <4>3, CountedFinite DEF WordExact, RW_READ
    <3>5. l' \in 0 .. WordSize - 1
      BY <2>0, <2>5, <3>2, ThreadsFitWord DEF ReadAdd, Wrap, RW_READ
    <3>6. RwTypeOK' /\ CopyIsFree'
      BY <2>5, <3>5 DEF RwTypeOK, RwLocations, CopyIsFree, ReadAdd, RwAt, RwGoto
    <3>7. Exclusive'
      <4>1. CASE WaitOrWriteSet(l)
        BY <2>5, <3>1, <4>1 DEF RwTypeOK, Exclusive, ReadAdd, RwAt, RwGoto, Writers, Readers
      <4>2. CASE ~WaitOrWriteSet(l)
        BY <3>1, <4>2, NoWriterWord DEF Exclusive
      <4>. QED
        BY <4>1, <4>2
    <3>. QED
      BY <3>4, <3>6, <3>7
  <2>6. CASE ReadUndo(t) \/ ReadUnlock(t)
    <3>1. Counted' = Counted \ {t} /\ t \in Counted /\ Writers' = Writers /\ Readers' \subseteq Readers
      BY <2>6 DEF RwTypeOK, ReadUndo, ReadUnlock, RwAt, RwGoto, Counted, Writers, Readers
    <3>2. l' = l - RW_READ
      BY <2>6, <3>1, WordRoom DEF ReadUndo, ReadUnlock
    <3>3. Cardinality(Counted') = Cardinality(Counted) - 1
      BY <3>1, CountedFinite, FS_RemoveElement
    <3>4. WordExact'
      <4>1. WaitSet(l') <=> WaitSet(l)
        BY <2>0, <3>2, WaitSetKept
      <4>2. WriteBit' = WriteBit /\ WaitBit' = WaitBit
        BY <3>1, <4>1 DEF WriteBit, WaitBit
      <4>. QED
        BY <3>2, <3>3, <4>2, CountedFinite DEF WordExact, WriteBit, WaitBit, RW_READ, RW_WRITE, RW_WAIT
    <3>5. Cardinality(Counted) >= 1
      BY <3>1, CountedFinite
    <3>6. l' \in 0 .. WordSize - 1
      BY <2>0, <3>2, <3>5, CountedFinite DEF WordExact, WriteBit, WaitBit, WaitSet, RW_READ, RW_WRITE, RW_WAIT
    <3>7. RwTypeOK' /\ CopyIsFree'
      BY <2>6, <3>6 DEF RwTypeOK, RwLocations, CopyIsFree, ReadUndo, ReadUnlock, RwAt, RwGoto
    <3>. QED
      BY <3>1, <3>4, <3>7 DEF Exclusive
  <2>. QED
    BY <1>2, <2>1, <2>2, <2>3, <2>4, <2>5, <2>6 DEF WriteStep, ReadStep
<1>. QED
  BY <1>1, <1>2 DEF RwNext

\* IInv holds in every reachable state.
THEOREM Invariant == RwSpec => []IInv
<1>1. RwInit => IInv
  BY InitInvariant
<1>2. IInv /\ [RwNext]_rwVars => IInv'
  BY StepInvariant
<1>. QED
  BY <1>1, <1>2, PTL DEF RwSpec

\* The lock word is always a word of its width, and every copy of it.
THEOREM TypeCorrect == RwSpec => []RwTypeOK
<1>1. IInv => RwTypeOK
  BY DEF IInv
<1>. QED
  BY <1>1, Invariant, PTL

\* The lock word says at every moment who is counted and who is inside.
THEOREM WordAlwaysExact == RwSpec => []WordExact
<1>1. IInv => WordExact
  BY DEF IInv
<1>. QED
  BY <1>1, Invariant, PTL

\* A writer is never inside together with a reader or with another writer.
THEOREM AlwaysExclusive == RwSpec => []Exclusive
<1>1. IInv => Exclusive
  BY DEF IInv
<1>. QED
  BY <1>1, Invariant, PTL

----------------------------------------------------------------------------
(* The wait bit.                                                           *)

\* A step that turns the wait bit on is taken by a writer that waits, the only
\* step that turns it off takes the lock, and while the bit is on no writer
\* stops waiting otherwise.
THEOREM WaitBitAlwaysOwned == RwSpec => []WaitBitOwned
<1>1. RwInit => WaitBitOwned
  BY DEF RwInit, WaitBitOwned, WaitSet, RW_WRITE
<1>2. IInv /\ WaitBitOwned /\ [RwNext]_rwVars => WaitBitOwned'
  <2>. SUFFICES ASSUME IInv, WaitBitOwned, [RwNext]_rwVars PROVE WaitBitOwned'
    OBVIOUS
  <2>0. l \in Int /\ rwPc \in [RwThreads -> RwLocations]
    BY ThreadsFitWord DEF IInv, RwTypeOK
  <2>1. CASE UNCHANGED rwVars
    BY <2>1 DEF rwVars, WaitBitOwned, WriteWaiters
  <2>2. ASSUME NEW t \in RwThreads, CallWrite(t) \/ CallRead(t) \/ WriteStep(t) \/ ReadStep(t)
        PROVE  WaitBitOwned'
    <3>1. CASE \/ CallWrite(t) \/ CallRead(t) \/ WriteLoad(t) \/ WriteReload(t)
               \/ WriteRelax(t) \/ ReadRelax(t) \/ (WriteCas(t) /\ l # state[t])
      <4>1. UNCHANGED l /\ WriteWaiters \subseteq WriteWaiters'
        BY <2>0, <3>1 DEF CallWrite, CallRead, WriteLoad, WriteReload, WriteRelax, ReadRelax,
           WriteCas, RwAt, RwGoto, WriterMustWait, WriteWaiters
      <4>. QED
        BY <4>1 DEF WaitBitOwned
    <3>2. CASE WriteCas(t) /\ l = state[t]
      BY <3>2 DEF WriteCas, WaitBitOwned, WaitSet, RW_WRITE
    <3>3. CASE WriteMark(t)
      <4>1. t \in WriteWaiters'
        BY <2>0, <3>3 DEF WriteMark, RwAt, RwGoto, WriteWaiters
      <4>. QED
        BY <4>1 DEF WaitBitOwned
    <3>4. CASE WriteUnlock(t) \/ ReadAdd(t) \/ ReadUndo(t) \/ ReadUnlock(t)
      <4>1. WriteWaiters' = WriteWaiters
        BY <2>0, <3>4 DEF WriteUnlock, ReadAdd, ReadUndo, ReadUnlock, RwAt, RwGoto, WriteWaiters
      <4>2. l' \in {l + RW_READ, l - RW_READ, l - RW_WRITE}
        <5>1. t \in Counted \/ t \in Writers \/ t \notin Counted
          OBVIOUS
        <5>2. WriteUnlock(t) => t \in Writers
          BY DEF WriteUnlock, RwAt, Writers
        <5>3. ReadAdd(t) => t \notin Counted
          BY DEF ReadAdd, RwAt, Counted
        <5>4. ReadUndo(t) \/ ReadUnlock(t) => t \in Counted
          BY DEF ReadUndo, ReadUnlock, RwAt, Counted
        <5>. QED
          BY <3>4, <5>2, <5>3, <5>4, WordRoom DEF IInv, WriteUnlock, ReadAdd, ReadUndo, ReadUnlock
      <4>3. WaitSet(l') <=> WaitSet(l)
        BY <2>0, <4>2, WaitSetKept
      <4>. QED
        BY <4>1, <4>3 DEF WaitBitOwned
    <3>. QED
      BY <2>2, <3>1, <3>2, <3>3, <3>4 DEF WriteStep, ReadStep
  <2>. QED
    BY <2>1, <2>2 DEF RwNext
<1>. QED
  BY <1>1, <1>2, Invariant, PTL DEF RwSpec

----------------------------------------------------------------------------
(* The refinement: a step that takes or gives back the lock is the step of  *)
(* ReadersWriter of the same name, and every other step is a stutter.       *)

\* The lock is born as ReadersWriter is.
LEMMA InitRefines == RwInit => RW!Init
BY DEF RwInit, RW!Init, Readers, Writers

\* No step lets a reader or a writer in against the rules of ReadersWriter.
LEMMA StepRefines == IInv /\ [RwNext]_rwVars => [RW!Next]_(RW!vars)
<1>. SUFFICES ASSUME IInv, [RwNext]_rwVars PROVE [RW!Next]_(RW!vars)
  OBVIOUS
<1>0. rwPc \in [RwThreads -> RwLocations]
  BY DEF IInv, RwTypeOK
<1>1. CASE UNCHANGED rwVars
  BY <1>1 DEF rwVars, RW!vars, Readers, Writers
<1>2. ASSUME NEW t \in RwThreads, CallWrite(t) \/ CallRead(t) \/ WriteStep(t) \/ ReadStep(t)
      PROVE  [RW!Next]_(RW!vars)
  <2>1. CASE WriteCas(t) /\ l = state[t]
    <3>1. Readers = {} /\ Writers = {}
      BY <2>1, FreeWord DEF IInv, CopyIsFree, WriteCas, RwAt
    <3>2. Writers' = {t} /\ Readers' = Readers
      BY <1>0, <2>1, <3>1 DEF WriteCas, RwAt, RwGoto, Readers, Writers
    <3>3. RW!GrantWriter(t)
      BY <3>1, <3>2 DEF RW!GrantWriter
    <3>. QED
      BY <3>3 DEF RW!Next
  <2>2. CASE WriteUnlock(t)
    <3>1. t \in Writers /\ Writers' = Writers \ {t} /\ Readers' = Readers
      BY <1>0, <2>2 DEF WriteUnlock, RwAt, RwGoto, Readers, Writers
    <3>2. RW!LeaveWriter(t)
      BY <3>1 DEF RW!LeaveWriter
    <3>. QED
      BY <3>2 DEF RW!Next
  <2>3. CASE ReadAdd(t) /\ ~WaitOrWriteSet(l)
    <3>1. Writers = {}
      BY <2>3, NoWriterWord DEF IInv
    <3>2. {t} \cap Readers = {} /\ Readers' = Readers \cup {t} /\ Writers' = Writers
      BY <1>0, <2>3 DEF ReadAdd, RwAt, RwGoto, Readers, Writers
    <3>3. RW!GrantReaders({t})
      BY <3>1, <3>2 DEF RW!GrantReaders
    <3>4. {t} \in SUBSET RwThreads
      OBVIOUS
    <3>. QED
      BY <3>3, <3>4 DEF RW!Next
  <2>4. CASE ReadUnlock(t)
    <3>1. t \in Readers /\ Readers' = Readers \ {t} /\ Writers' = Writers
      BY <1>0, <2>4 DEF ReadUnlock, RwAt, RwGoto, Readers, Writers
    <3>2. RW!LeaveReader(t)
      BY <3>1 DEF RW!LeaveReader
    <3>. QED
      BY <3>2 DEF RW!Next
  <2>5. CASE \/ CallWrite(t) \/ CallRead(t) \/ WriteLoad(t) \/ WriteReload(t) \/ WriteMark(t)
             \/ WriteRelax(t) \/ ReadRelax(t) \/ ReadUndo(t)
             \/ (WriteCas(t) /\ l # state[t]) \/ (ReadAdd(t) /\ WaitOrWriteSet(l))
    <3>1. Readers' = Readers /\ Writers' = Writers
      BY <1>0, <2>5 DEF CallWrite, CallRead, WriteLoad, WriteReload, WriteMark, WriteRelax, ReadRelax,
         ReadUndo, WriteCas, ReadAdd, RwAt, RwGoto, WriterMustWait, Readers, Writers
    <3>. QED
      BY <3>1 DEF RW!vars
  <2>. QED
    BY <1>2, <2>1, <2>2, <2>3, <2>4, <2>5 DEF WriteStep, ReadStep
<1>. QED
  BY <1>1, <1>2 DEF RwNext

\* spinrwlock2 is a readers/writer lock.
THEOREM Refinement == RwSpec => IsReadersWriterLock
<1>1. RwInit => RW!Init
  BY InitRefines
<1>2. IInv /\ [RwNext]_rwVars => [RW!Next]_(RW!vars)
  BY StepRefines
<1>. QED
  BY <1>1, <1>2, Invariant, PTL DEF RwSpec, IsReadersWriterLock, RW!Spec
=============================================================================
