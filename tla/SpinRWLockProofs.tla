--------------------------- MODULE SpinRWLockProofs ---------------------------
(***************************************************************************)
(* For any finite set of threads and any number of tickets above theirs:   *)
(* until an unlock() guesses wrong, the tickets are exact through all      *)
(* their wraps, a writer is alone, and threads pass in the order in which  *)
(* they drew; and it guesses wrong only when the flag may be wrong.        *)
(***************************************************************************)
EXTENDS SpinRWLock, FiniteSetTheorems, SequenceTheorems, TLAPS

(* How far ticket a is ahead of ticket b.                                   *)
Dist(a, b) == (a - b) % Tickets

Inside   == WritersInside \cup ReadersInside
Everyone == Spinning \cup WritersInside \cup ReadersInside

(* The writers that should see writing true, and those of them that have    *)
(* already given the lock away.                                             *)
FlagOwners == {t \in Threads : pc[t] \in {"writing", "wu_guess", "wu_copy", "wu_store", "wu_clear"}}
Clearing   == {t \in Threads : pc[t] = "wu_clear"}

(* The types, without the history of the line.                              *)
Types ==
  /\ write \in Ticket /\ read \in Ticket /\ users \in Ticket
  /\ writing \in BOOLEAN
  /\ val \in [Threads -> Ticket]
  /\ copy \in [Threads -> [write : Ticket, read : Ticket]]
  /\ pc \in [Threads -> Locations]
  /\ late \in BOOLEAN /\ mistaken \in BOOLEAN

(* The inductive invariant.  Exclusion rests on the tickets of those that   *)
(* wait: they are distinct, and all behind the tickets of those inside.     *)
(* The stores without a lock prefix write the right value because nobody    *)
(* else moves the byte between the load and the store.                      *)
Counts ==
  /\ Dist(users, write) = Cardinality(Everyone)
  /\ Dist(read, write) = Cardinality(ReadersPassed)

Alone ==
  /\ WritersInside # {} => ReadersInside = {}
  /\ \A s, t \in WritersInside : s = t
  /\ \A s, t \in ReadersInside \ ReadersPassed : s = t

InLine ==
  /\ \A t \in Spinning : /\ Cardinality(Inside) <= Dist(val[t], write)
                         /\ Dist(val[t], write) < Cardinality(Everyone)
  /\ \A s, t \in Spinning : val[s] = val[t] => s = t

CopiesRight ==
  \A t \in Threads :
    /\ pc[t] = "wu_store" => /\ copy[t].write = NextTicket(write)
                             /\ copy[t].read = NextTicket(read)
    /\ pc[t] = "r_store" => copy[t].read = NextTicket(read)

FlagRight ==
  ~late => /\ writing <=> FlagOwners # {}
           /\ Clearing # {} => Inside = {}
           /\ \A s, t \in Clearing : s = t

Good == Counts /\ Alone /\ InLine /\ CopiesRight /\ FlagRight
IInv == Types /\ GuessesRightUnlessLate /\ (mistaken \/ Good)

-----------------------------------------------------------------------------
(* Tickets.                                                                *)

\* The distance of two tickets without a remainder.
LEMMA DistValue ==
  ASSUME NEW a \in Ticket, NEW b \in Ticket
  PROVE  /\ Dist(a, b) \in Ticket
         /\ a >= b => Dist(a, b) = a - b
         /\ a < b => Dist(a, b) = a - b + Tickets
<1>1. Tickets \in Nat /\ a \in Int /\ b \in Int /\ a >= 0 /\ b >= 0 /\ a < Tickets /\ b < Tickets
  BY ThreadsFitTickets DEF Ticket
<1>2. CASE a >= b
  <2>1. a - b \in 0 .. Tickets - 1
    BY <1>1, <1>2
  <2>2. (a - b) % Tickets = a - b
    BY <1>1, <2>1
  <2>. QED
    BY <1>1, <1>2, <2>1, <2>2 DEF Dist, Ticket
<1>3. CASE a < b
  <2>1. a - b \in Int /\ a - b < 0 /\ a - b >= -Tickets
    BY <1>1, <1>3
  <2>2. (a - b) % Tickets = a - b + Tickets
    BY <1>1, <2>1
  <2>. QED
    BY <1>1, <1>3, <2>1, <2>2 DEF Dist, Ticket
<1>. QED
  BY <1>1, <1>2, <1>3

\* The next ticket without a remainder.
LEMMA NextValue ==
  ASSUME NEW a \in Ticket
  PROVE  /\ NextTicket(a) \in Ticket
         /\ a + 1 < Tickets => NextTicket(a) = a + 1
         /\ a + 1 = Tickets => NextTicket(a) = 0
<1>1. Tickets \in Nat /\ a \in Nat /\ a + 1 <= Tickets
  BY ThreadsFitTickets DEF Ticket
<1>2. CASE a + 1 < Tickets
  BY <1>1, <1>2 DEF NextTicket, Ticket
<1>3. CASE a + 1 = Tickets
  BY <1>1, <1>3 DEF NextTicket, Ticket
<1>. QED
  BY <1>1, <1>2, <1>3

\* Two tickets at the same distance from a third are one.
LEMMA DistInjective ==
  ASSUME NEW a \in Ticket, NEW b \in Ticket, NEW c \in Ticket
  PROVE  /\ Dist(a, c) = Dist(b, c) => a = b
         /\ Dist(c, c) = 0
<1>1. /\ Tickets \in Nat /\ a \in Nat /\ b \in Nat /\ c \in Nat
      /\ a < Tickets /\ b < Tickets /\ c < Tickets
  BY ThreadsFitTickets DEF Ticket
<1>2. /\ a >= c => Dist(a, c) = a - c
      /\ a < c => Dist(a, c) = a - c + Tickets
  BY DistValue
<1>3. /\ b >= c => Dist(b, c) = b - c
      /\ b < c => Dist(b, c) = b - c + Tickets
  BY DistValue
<1>4. c >= c => Dist(c, c) = c - c
  BY DistValue
<1>. HIDE DEF Dist
<1>5. Dist(a, c) = Dist(b, c) => a = b
  BY <1>1, <1>2, <1>3
<1>6. Dist(c, c) = 0
  BY <1>1, <1>4
<1>. QED
  BY <1>5, <1>6

\* Moving the front on by one adds one, until the distance is full.
LEMMA DistNextFront ==
  ASSUME NEW a \in Ticket, NEW b \in Ticket, Dist(a, b) + 1 < Tickets
  PROVE  Dist(NextTicket(a), b) = Dist(a, b) + 1
<1>1. /\ Tickets \in Nat /\ a \in Nat /\ b \in Nat /\ a < Tickets /\ b < Tickets
  BY ThreadsFitTickets DEF Ticket
<1>2. NextTicket(a) \in Ticket
  BY NextValue
<1>. QED
  BY <1>1, <1>2, DistValue, NextValue

\* Moving the back on by one takes one off, unless they were equal.
LEMMA DistNextBack ==
  ASSUME NEW a \in Ticket, NEW b \in Ticket, Dist(a, b) >= 1
  PROVE  Dist(a, NextTicket(b)) = Dist(a, b) - 1
<1>1. /\ Tickets \in Nat /\ a \in Nat /\ b \in Nat /\ a < Tickets /\ b < Tickets
  BY ThreadsFitTickets DEF Ticket
<1>2. NextTicket(b) \in Ticket
  BY NextValue
<1>. QED
  BY <1>1, <1>2, DistValue, NextValue

\* Moving both on by one keeps the distance.
LEMMA DistNextBoth ==
  ASSUME NEW a \in Ticket
  PROVE  Dist(NextTicket(a), NextTicket(a)) = 0
BY NextValue, DistInjective

-----------------------------------------------------------------------------
(* The sets of threads.                                                    *)

\* All sets of threads that are counted are finite and smaller than Tickets.
LEMMA SetsFinite ==
  /\ IsFiniteSet(Everyone) /\ IsFiniteSet(Inside) /\ IsFiniteSet(ReadersPassed)
  /\ Cardinality(Everyone) \in Nat /\ Cardinality(Everyone) < Tickets
  /\ Cardinality(Inside) \in Nat /\ Cardinality(Inside) <= Cardinality(Everyone)
  /\ Cardinality(ReadersPassed) \in Nat
  /\ Cardinality(ReadersPassed) <= Cardinality(Inside)
  /\ Cardinality(ReadersPassed) = Cardinality(Inside) => ReadersPassed = Inside
  /\ Cardinality(Inside) = 0 <=> Inside = {}
  /\ Tickets \in Nat
<1>1. IsFiniteSet(Threads) /\ Tickets \in Nat /\ Cardinality(Threads) < Tickets
  BY ThreadsFitTickets
<1>2. Everyone \in SUBSET Threads
  BY DEF Everyone, Spinning, WritersInside, ReadersInside
<1>3. Inside \in SUBSET Everyone /\ ReadersPassed \in SUBSET Inside
  BY DEF Everyone, Inside, ReadersInside, ReadersPassed
<1>4. IsFiniteSet(Everyone) /\ Cardinality(Everyone) <= Cardinality(Threads)
  BY <1>1, <1>2, FS_Subset
<1>5. IsFiniteSet(Inside) /\ Cardinality(Inside) <= Cardinality(Everyone)
  BY <1>3, <1>4, FS_Subset
<1>6. /\ IsFiniteSet(ReadersPassed) /\ Cardinality(ReadersPassed) <= Cardinality(Inside)
      /\ Cardinality(ReadersPassed) = Cardinality(Inside) => ReadersPassed = Inside
  BY <1>3, <1>5, FS_Subset
<1>7. Cardinality(Inside) = 0 <=> Inside = {}
  BY <1>5, FS_EmptySet
<1>8. /\ Cardinality(Everyone) \in Nat /\ Cardinality(Inside) \in Nat
      /\ Cardinality(ReadersPassed) \in Nat /\ Cardinality(Threads) \in Nat
  BY <1>1, <1>4, <1>5, <1>6, FS_CardinalityType
<1>. QED
  BY <1>1, <1>4, <1>5, <1>6, <1>7, <1>8

\* One more thread than the lock counts still leaves a ticket free.
LEMMA RoomForOne ==
  ASSUME NEW t \in Threads, t \notin Everyone
  PROVE  Cardinality(Everyone) + 1 < Tickets
<1>1. IsFiniteSet(Threads) /\ Cardinality(Threads) < Tickets
  BY ThreadsFitTickets
<1>2. Everyone \in SUBSET Threads /\ Everyone # Threads
  BY DEF Everyone, Spinning, WritersInside, ReadersInside
<1>3. /\ Cardinality(Everyone) <= Cardinality(Threads)
      /\ Cardinality(Everyone) # Cardinality(Threads)
  BY <1>1, <1>2, FS_Subset
<1>4. Cardinality(Threads) \in Nat
  BY <1>1, FS_CardinalityType
<1>. QED
  BY <1>1, <1>3, <1>4, SetsFinite

\* A step that moves no byte, no ticket and nobody in or out.
LEMMA KeepRole ==
  ASSUME Counts, Alone, InLine, UNCHANGED <<bytes, val>>,
         Spinning' = Spinning, WritersInside' = WritersInside,
         ReadersInside' = ReadersInside, ReadersPassed' = ReadersPassed
  PROVE  Counts' /\ Alone' /\ InLine'
<1>1. Everyone' = Everyone /\ Inside' = Inside
  BY DEF Everyone, Inside
<1>. QED
  BY <1>1 DEF Counts, Alone, InLine, bytes

\* The lock starts free, with a flag that may be anything.
THEOREM InitInvariant == Init => IInv
<1>. SUFFICES ASSUME Init PROVE IInv
  OBVIOUS
<1>1. /\ Everyone = {} /\ Inside = {} /\ ReadersPassed = {} /\ Spinning = {}
      /\ WritersInside = {} /\ ReadersInside = {} /\ FlagOwners = {} /\ Clearing = {}
  BY DEF Init, Everyone, Inside, ReadersPassed, Spinning, WritersInside, ReadersInside,
     FlagOwners, Clearing
<1>2. 0 \in Ticket
  <2>1. Cardinality(Threads) \in Nat
    BY ThreadsFitTickets, FS_CardinalityType
  <2>. QED
    BY <2>1, ThreadsFitTickets DEF Ticket
<1>3. Types
  <2>1. /\ val \in [Threads -> Ticket] /\ pc \in [Threads -> Locations]
        /\ copy \in [Threads -> [write : Ticket, read : Ticket]]
    BY <1>2 DEF Init, Locations, NoCopy
  <2>2. writing \in BOOLEAN /\ late \in BOOLEAN /\ mistaken \in BOOLEAN
    BY Zenon DEF Init
  <2>. QED
    BY <1>2, <2>1, <2>2 DEF Init, Types
<1>4. Counts
  BY <1>1, <1>2, DistInjective, FS_EmptySet DEF Init, Counts
<1>5. CopiesRight
  BY DEF Init, CopiesRight
<1>6. FlagRight
  <2>1. late <=> writing
    BY Zenon DEF Init
  <2>. QED
    BY <1>1, <2>1 DEF FlagRight
<1>. QED
  BY <1>1, <1>3, <1>4, <1>5, <1>6
  DEF Init, IInv, Good, Alone, InLine, GuessesRightUnlessLate

\* A thread draws the last ticket in use: it is behind everyone else.
LEMMA DrawInvariant ==
  ASSUME Types, Good, NEW t \in Threads, WriteDraw(t) \/ ReadDraw(t)
  PROVE  Types' /\ Good'
<1>. USE DEF Good
<1>1. PICK loc \in {"w_spin", "r_spin"} : DrawTicket(t, loc)
  BY DEF WriteDraw, ReadDraw
<1>2. /\ pc[t] = "idle" /\ pc' = [pc EXCEPT ![t] = loc]
      /\ users' = NextTicket(users) /\ val' = [val EXCEPT ![t] = users]
      /\ UNCHANGED <<write, read, writing, copy, late, mistaken>>
  BY <1>1 DEF DrawTicket, At, Goto
<1>3. /\ Spinning' = Spinning \cup {t} /\ t \notin Spinning
      /\ WritersInside' = WritersInside /\ ReadersInside' = ReadersInside
      /\ ReadersPassed' = ReadersPassed
      /\ FlagOwners' = FlagOwners /\ Clearing' = Clearing
  BY <1>2 DEF Types, Spinning, WritersInside, ReadersInside, ReadersPassed, FlagOwners, Clearing
<1>4. Inside' = Inside /\ Everyone' = Everyone \cup {t} /\ t \notin Everyone
  BY <1>2, <1>3 DEF Inside, Everyone, WritersInside, ReadersInside
<1>5. Cardinality(Everyone') = Cardinality(Everyone) + 1
  BY <1>4, SetsFinite, FS_AddElement
<1>6. Types'
  BY <1>2, NextValue DEF Types, Locations
<1>7. Counts'
  <2>1. Dist(users, write) + 1 < Tickets
    BY <1>4, RoomForOne DEF Counts
  <2>2. Dist(users', write) = Dist(users, write) + 1
    BY <1>2, <2>1, DistNextFront DEF Types
  <2>. QED
    BY <1>2, <1>3, <1>5, <2>2 DEF Counts
<1>8. InLine'
  <2>1. \A u \in Spinning : val'[u] = val[u]
    BY <1>2, <1>3 DEF Types, Spinning
  <2>2. val'[t] = users /\ Dist(users, write) = Cardinality(Everyone)
    BY <1>2 DEF Types, Counts
  <2>3. \A u \in Spinning : val[u] # users
    BY <2>2, SetsFinite DEF InLine
  <2>4. \A u \in Spinning' : /\ Cardinality(Inside') <= Dist(val'[u], write')
                             /\ Dist(val'[u], write') < Cardinality(Everyone')
    <3>. SUFFICES ASSUME NEW u \in Spinning'
                  PROVE  /\ Cardinality(Inside) <= Dist(val'[u], write)
                         /\ Dist(val'[u], write) < Cardinality(Everyone) + 1
      BY <1>2, <1>4, <1>5
    <3>1. CASE u = t
      BY <2>2, <3>1, SetsFinite
    <3>2. CASE u # t
      <4>1. u \in Spinning /\ u \in Threads
        BY <1>3, <3>2 DEF Spinning
      <4>2. Dist(val[u], write) \in Int
        BY <4>1, DistValue DEF Types, Ticket
      <4>. QED
        BY <2>1, <4>1, <4>2, SetsFinite DEF InLine
    <3>. QED
      BY <3>1, <3>2
  <2>5. \A u, v \in Spinning' : val'[u] = val'[v] => u = v
    BY <1>3, <2>1, <2>2, <2>3 DEF InLine
  <2>. QED
    BY <2>4, <2>5 DEF InLine
<1>9. Alone' /\ CopiesRight' /\ FlagRight'
  BY <1>2, <1>3, <1>4 DEF Types, Alone, CopiesRight, FlagRight
<1>. QED
  BY <1>6, <1>7, <1>8, <1>9

\* What leaving the spin does to the tickets of those that stay in it.
LEMMA PassKeepsLine ==
  ASSUME Types, Good, NEW t \in Spinning,
         Dist(val[t], write) = Cardinality(Inside),
         val' = [val EXCEPT ![t] = 0], UNCHANGED write,
         Spinning' = Spinning \ {t}, Inside' = Inside \cup {t}, t \notin Inside,
         Everyone' = Everyone
  PROVE  InLine'
<1>. USE DEF Good
<1>1. Cardinality(Inside') = Cardinality(Inside) + 1
  BY SetsFinite, FS_AddElement
<1>2. ASSUME NEW u \in Spinning'
      PROVE  /\ u \in Spinning /\ val'[u] = val[u] /\ Dist(val[u], write) \in Int
             /\ Dist(val[u], write) # Cardinality(Inside)
  <2>1. u \in Spinning /\ u # t /\ u \in Threads /\ t \in Threads
    BY <1>2 DEF Spinning
  <2>2. val[u] # val[t] /\ val[u] \in Ticket /\ val[t] \in Ticket
    BY <2>1 DEF Types, InLine
  <2>3. Dist(val[u], write) # Dist(val[t], write)
    BY <2>2, DistInjective DEF Types
  <2>4. Dist(val[u], write) \in Int
    <3>1. Dist(val[u], write) \in Ticket
      BY <2>2, DistValue DEF Types
    <3>. QED
      BY <3>1, ThreadsFitTickets DEF Ticket
  <2>. QED
    BY <2>1, <2>3, <2>4 DEF Types
<1>3. \A u \in Spinning' : /\ Cardinality(Inside') <= Dist(val'[u], write')
                           /\ Dist(val'[u], write') < Cardinality(Everyone')
  BY <1>1, <1>2, SetsFinite DEF InLine
<1>4. \A u, v \in Spinning' : val'[u] = val'[v] => u = v
  BY <1>2 DEF InLine
<1>. QED
  BY <1>3, <1>4 DEF InLine

\* A writer passes the spin when nobody is inside.
LEMMA WritePassInvariant ==
  ASSUME Types, Good, NEW t \in Threads, WriteSpin(t)
  PROVE  Types' /\ Good'
<1>. USE DEF Good
<1>1. /\ pc[t] = "w_spin" /\ val[t] = write
      /\ pc' = [pc EXCEPT ![t] = "w_set"] /\ val' = [val EXCEPT ![t] = 0]
      /\ late' = (late \/ Clearing # {})
      /\ UNCHANGED <<write, read, users, writing, copy, mistaken>>
  BY DEF WriteSpin, PassSpin, At, Goto, bytes, Clearing
<1>2. t \in Spinning /\ val[t] \in Ticket
  BY <1>1 DEF Types, Spinning
<1>3. Dist(val[t], write) = 0
  BY <1>1, <1>2, DistInjective
<1>4. Cardinality(Inside) = 0 /\ Inside = {}
  BY <1>2, <1>3, SetsFinite DEF InLine
<1>5. WritersInside = {} /\ ReadersInside = {} /\ ReadersPassed = {}
  BY <1>4 DEF Inside, ReadersInside, ReadersPassed
<1>6. /\ Spinning' = Spinning \ {t} /\ WritersInside' = WritersInside \cup {t}
      /\ ReadersInside' = ReadersInside /\ ReadersPassed' = ReadersPassed
      /\ FlagOwners' = FlagOwners /\ Clearing' = Clearing
  BY <1>1 DEF Types, Spinning, WritersInside, ReadersInside, ReadersPassed, FlagOwners, Clearing
<1>7. Inside' = Inside \cup {t} /\ t \notin Inside /\ Everyone' = Everyone
  BY <1>2, <1>4, <1>6 DEF Inside, Everyone
<1>8. Types'
  <2>1. 0 \in Ticket
    BY <1>2, ThreadsFitTickets DEF Ticket
  <2>2. late' \in BOOLEAN
    BY <1>1, Zenon
  <2>. QED
    BY <1>1, <2>1, <2>2 DEF Types, Locations
<1>9. Counts'
  BY <1>1, <1>6, <1>7 DEF Counts
<1>10. InLine'
  BY <1>1, <1>2, <1>3, <1>4, <1>6, <1>7, PassKeepsLine
<1>11. Alone'
  BY <1>5, <1>6 DEF Alone
<1>12. CopiesRight'
  BY <1>1 DEF Types, CopiesRight
<1>13. FlagRight'
  BY <1>1, <1>6 DEF FlagRight
<1>. QED
  BY <1>8, <1>9, <1>10, <1>11, <1>12, <1>13

\* A reader passes the spin when those inside are readers that have let the
\* next one in.
LEMMA ReadPassInvariant ==
  ASSUME Types, Good, NEW t \in Threads, ReadSpin(t)
  PROVE  Types' /\ Good'
<1>. USE DEF Good
<1>1. /\ pc[t] = "r_spin" /\ val[t] = read
      /\ pc' = [pc EXCEPT ![t] = "r_load"] /\ val' = [val EXCEPT ![t] = 0]
      /\ late' = (late \/ Clearing # {})
      /\ UNCHANGED <<write, read, users, writing, copy, mistaken>>
  BY DEF ReadSpin, PassSpin, At, Goto, bytes, Clearing
<1>2. t \in Spinning /\ val[t] \in Ticket
  BY <1>1 DEF Types, Spinning
<1>3. Dist(val[t], write) = Cardinality(ReadersPassed)
  BY <1>1 DEF Counts
<1>4. ReadersPassed = Inside /\ Dist(val[t], write) = Cardinality(Inside)
  BY <1>2, <1>3, SetsFinite DEF InLine
<1>5. WritersInside = {} /\ ReadersInside = ReadersPassed
  BY <1>4 DEF Inside, WritersInside, ReadersInside, ReadersPassed
<1>6. /\ Spinning' = Spinning \ {t} /\ WritersInside' = WritersInside
      /\ ReadersInside' = ReadersInside \cup {t} /\ ReadersPassed' = ReadersPassed
      /\ FlagOwners' = FlagOwners /\ Clearing' = Clearing /\ t \notin Inside
  BY <1>1 DEF Types, Spinning, WritersInside, ReadersInside, ReadersPassed, FlagOwners, Clearing,
     Inside
<1>7. Inside' = Inside \cup {t} /\ Everyone' = Everyone
  BY <1>2, <1>6 DEF Inside, Everyone
<1>8. Types'
  <2>1. 0 \in Ticket
    BY <1>2, ThreadsFitTickets DEF Ticket
  <2>2. late' \in BOOLEAN
    BY <1>1, Zenon
  <2>. QED
    BY <1>1, <2>1, <2>2 DEF Types, Locations
<1>9. Counts'
  BY <1>1, <1>6, <1>7 DEF Counts
<1>10. InLine'
  BY <1>1, <1>2, <1>4, <1>6, <1>7, PassKeepsLine
<1>11. Alone'
  BY <1>5, <1>6 DEF Alone
<1>12. CopiesRight'
  BY <1>1 DEF Types, CopiesRight
<1>13. FlagRight'
  BY <1>1, <1>6 DEF FlagRight
<1>. QED
  BY <1>8, <1>9, <1>10, <1>11, <1>12, <1>13

\* The steps inside that move no byte.
LEMMA InsideInvariant ==
  ASSUME Types, Good, NEW t \in Threads,
         WriteSet(t) \/ WriteCopy(t) \/ ReadLoad(t) \/ CallUnlock(t)
  PROVE  Types' /\ Good'
<1>. USE DEF Good
<1>1. UNCHANGED <<write, read, users, val, late, mistaken>>
  BY DEF WriteSet, WriteCopy, ReadLoad, CallUnlock, bytes, ghosts
<1>2. \/ /\ pc[t] = "w_set" /\ pc' = [pc EXCEPT ![t] = "writing"]
         /\ writing' = TRUE /\ UNCHANGED copy
      \/ /\ pc[t] = "wu_copy" /\ pc' = [pc EXCEPT ![t] = "wu_store"]
         /\ copy' = [copy EXCEPT ![t] = [write |-> NextTicket(write), read |-> NextTicket(read)]]
         /\ UNCHANGED writing
      \/ /\ pc[t] = "r_load" /\ pc' = [pc EXCEPT ![t] = "r_store"]
         /\ copy' = [copy EXCEPT ![t].read = NextTicket(read)] /\ UNCHANGED writing
      \/ /\ pc[t] = "writing" /\ UNCHANGED <<copy, writing>>
         /\ pc' = [pc EXCEPT ![t] = "wu_copy"] \/ pc' = [pc EXCEPT ![t] = "wu_guess"]
      \/ /\ pc[t] = "reading" /\ UNCHANGED <<copy, writing>>
         /\ pc' = [pc EXCEPT ![t] = "ru_inc"] \/ pc' = [pc EXCEPT ![t] = "ru_guess"]
  BY DEF WriteSet, WriteCopy, ReadLoad, CallUnlock, At, Goto
<1>3. /\ Spinning' = Spinning /\ WritersInside' = WritersInside
      /\ ReadersInside' = ReadersInside /\ ReadersPassed' = ReadersPassed
      /\ Clearing' = Clearing
  BY <1>2 DEF Types, Spinning, WritersInside, ReadersInside, ReadersPassed, Clearing
<1>4. Counts' /\ Alone' /\ InLine'
  BY <1>1, <1>3, KeepRole DEF bytes
<1>5. Types'
  <2>1. NextTicket(write) \in Ticket /\ NextTicket(read) \in Ticket
    BY NextValue DEF Types
  <2>2. copy' \in [Threads -> [write : Ticket, read : Ticket]]
    BY <1>2, <2>1 DEF Types
  <2>3. pc' \in [Threads -> Locations]
    BY <1>2 DEF Types, Locations
  <2>4. writing' \in BOOLEAN
    BY <1>2 DEF Types
  <2>. QED
    BY <1>1, <2>2, <2>3, <2>4 DEF Types
<1>6. CopiesRight'
  BY <1>1, <1>2 DEF Types, CopiesRight
<1>7. FlagRight'
  <2>1. CASE pc[t] = "w_set"
    <3>1. writing' = TRUE /\ FlagOwners' = FlagOwners \cup {t}
      BY <1>2, <2>1 DEF Types, FlagOwners
    <3>. QED
      BY <1>1, <1>3, <3>1 DEF FlagRight, Inside
  <2>2. CASE pc[t] # "w_set"
    <3>1. UNCHANGED writing /\ FlagOwners' = FlagOwners
      BY <1>2, <2>2 DEF Types, FlagOwners
    <3>. QED
      BY <1>1, <1>3, <3>1 DEF FlagRight, Inside
  <2>. QED
    BY <2>1, <2>2
<1>. QED
  BY <1>4, <1>5, <1>6, <1>7

\* When write moves on by one and one of those inside leaves, the others stay
\* behind those that are still inside.
LEMMA LeaveKeepsLine ==
  ASSUME Types, Good, NEW t \in Inside, write' = NextTicket(write), UNCHANGED <<users, val>>,
         Spinning' = Spinning, Inside' = Inside \ {t}, Everyone' = Everyone \ {t},
         t \in Everyone
  PROVE  InLine' /\ Dist(users', write') = Cardinality(Everyone')
<1>. USE DEF Good
<1>1. /\ Cardinality(Inside') = Cardinality(Inside) - 1
      /\ Cardinality(Everyone') = Cardinality(Everyone) - 1
      /\ Cardinality(Inside) >= 1 /\ Cardinality(Everyone) >= 1
  <2>1. Cardinality(Inside') = Cardinality(Inside) - 1
    BY SetsFinite, FS_RemoveElement
  <2>2. Cardinality(Everyone') = Cardinality(Everyone) - 1
    BY SetsFinite, FS_RemoveElement
  <2>3. Cardinality(Inside) # 0
    BY SetsFinite
  <2>. QED
    BY <2>1, <2>2, <2>3, SetsFinite
<1>2. Dist(users', write') = Cardinality(Everyone')
  BY <1>1, DistNextBack DEF Types, Counts
<1>3. ASSUME NEW u \in Spinning'
      PROVE  /\ Cardinality(Inside') <= Dist(val'[u], write')
             /\ Dist(val'[u], write') < Cardinality(Everyone')
  <2>1. u \in Spinning /\ u \in Threads /\ val[u] \in Ticket
    BY <1>3 DEF Spinning, Types
  <2>2. Dist(val[u], write) \in Int
    <3>1. Dist(val[u], write) \in Ticket
      BY <2>1, DistValue DEF Types
    <3>. QED
      BY <3>1, ThreadsFitTickets DEF Ticket
  <2>3. /\ Cardinality(Inside) <= Dist(val[u], write)
        /\ Dist(val[u], write) < Cardinality(Everyone)
    BY <2>1 DEF InLine
  <2>4. Dist(val[u], write) >= 1
    BY <1>1, <2>2, <2>3, SetsFinite
  <2>5. Dist(val[u], NextTicket(write)) = Dist(val[u], write) - 1
    BY <2>1, <2>4, DistNextBack DEF Types
  <2>. QED
    BY <1>1, <2>2, <2>3, <2>5, SetsFinite
<1>4. \A u, v \in Spinning' : val'[u] = val'[v] => u = v
  BY DEF InLine
<1>. QED
  BY <1>2, <1>3, <1>4 DEF InLine

\* A writer stores both bytes and is out; the flag is left for later.
LEMMA ReleaseInvariant ==
  ASSUME Types, Good, NEW t \in Threads, WriteRelease(t)
  PROVE  Types' /\ Good'
<1>. USE DEF Good
<1>1. /\ pc[t] = "wu_store" /\ pc' = [pc EXCEPT ![t] = "wu_clear"]
      /\ write' = copy[t].write /\ read' = copy[t].read
      /\ copy' = [copy EXCEPT ![t] = NoCopy]
      /\ UNCHANGED <<users, writing, val, late, mistaken>>
  BY DEF WriteRelease, At, Goto, ghosts
<1>2. write' = NextTicket(write) /\ read' = NextTicket(read)
  BY <1>1 DEF CopiesRight
<1>3. WritersInside = {t} /\ ReadersInside = {} /\ ReadersPassed = {} /\ Inside = {t}
  BY <1>1 DEF Alone, WritersInside, ReadersInside, ReadersPassed, Inside
<1>4. /\ Spinning' = Spinning /\ WritersInside' = {} /\ ReadersInside' = {}
      /\ ReadersPassed' = {}
  BY <1>1, <1>3 DEF Types, Spinning, WritersInside, ReadersInside, ReadersPassed
<1>5. FlagOwners' = FlagOwners /\ Clearing' = Clearing \cup {t}
  BY <1>1 DEF Types, FlagOwners, Clearing
<1>6. Inside' = Inside \ {t} /\ Everyone' = Everyone \ {t} /\ t \in Everyone
  BY <1>1, <1>3, <1>4 DEF Inside, Everyone, Spinning
<1>7. InLine' /\ Dist(users', write') = Cardinality(Everyone')
  BY <1>1, <1>2, <1>3, <1>4, <1>6, LeaveKeepsLine
<1>8. Types'
  <2>1. NextTicket(write) \in Ticket /\ NextTicket(read) \in Ticket
    BY NextValue DEF Types
  <2>2. NoCopy \in [write : Ticket, read : Ticket]
    BY <2>1, ThreadsFitTickets DEF NoCopy, Ticket
  <2>. QED
    BY <1>1, <1>2, <2>1, <2>2 DEF Types, Locations
<1>9. Dist(read', write') = Cardinality(ReadersPassed')
  <2>1. read \in Ticket /\ write \in Ticket
    BY DEF Types
  <2>2. Dist(read, write) = 0
    BY <1>3, FS_EmptySet DEF Counts
  <2>3. Dist(write, write) = 0
    BY <2>1, DistInjective
  <2>4. read = write
    BY <2>1, <2>2, <2>3, DistInjective
  <2>. QED
    BY <1>2, <1>4, <2>1, <2>4, DistNextBoth, FS_EmptySet
<1>10. Alone'
  BY <1>4 DEF Alone
<1>11. CopiesRight'
  <2>1. \A u \in Threads : pc'[u] \notin {"wu_store", "r_store"}
    BY <1>4 DEF WritersInside, ReadersInside
  <2>. QED
    BY <2>1 DEF CopiesRight
<1>12. FlagRight'
  BY <1>1, <1>3, <1>5, <1>6 DEF FlagRight
<1>. QED
  BY <1>7, <1>8, <1>9, <1>10, <1>11, <1>12 DEF Counts

\* The writer that has given the lock away clears the flag.
LEMMA ClearInvariant ==
  ASSUME Types, Good, NEW t \in Threads, WriteClear(t)
  PROVE  Types' /\ Good'
<1>. USE DEF Good
<1>1. /\ pc[t] = "wu_clear" /\ pc' = [pc EXCEPT ![t] = "idle"] /\ writing' = FALSE
      /\ UNCHANGED <<write, read, users, val, copy, late, mistaken>>
  BY DEF WriteClear, At, Goto, bytes, ghosts
<1>2. /\ Spinning' = Spinning /\ WritersInside' = WritersInside
      /\ ReadersInside' = ReadersInside /\ ReadersPassed' = ReadersPassed
      /\ FlagOwners' = FlagOwners \ {t} /\ Clearing' = Clearing \ {t} /\ t \in Clearing
  BY <1>1 DEF Types, Spinning, WritersInside, ReadersInside, ReadersPassed, FlagOwners, Clearing
<1>3. Counts' /\ Alone' /\ InLine'
  BY <1>1, <1>2, KeepRole DEF bytes
<1>4. Types' /\ CopiesRight'
  BY <1>1 DEF Types, Locations, CopiesRight
<1>5. ~late => Clearing = {t} /\ Inside = {}
  BY <1>2 DEF FlagRight
<1>6. FlagOwners \subseteq Inside \cup Clearing
  BY DEF FlagOwners, Inside, WritersInside, Clearing
<1>7. ~late => FlagOwners' = {} /\ Clearing' = {}
  BY <1>2, <1>5, <1>6
<1>8. FlagRight'
  BY <1>1, <1>7 DEF FlagRight
<1>. QED
  BY <1>3, <1>4, <1>8

\* A reader moves read on, which no one else does at the time.
LEMMA ReadStoreInvariant ==
  ASSUME Types, Good, NEW t \in Threads, ReadStore(t)
  PROVE  Types' /\ Good'
<1>. USE DEF Good
<1>1. /\ pc[t] = "r_store" /\ pc' = [pc EXCEPT ![t] = "reading"]
      /\ read' = copy[t].read /\ copy' = [copy EXCEPT ![t] = NoCopy]
      /\ UNCHANGED <<write, users, writing, val, late, mistaken>>
  BY DEF ReadStore, At, Goto, ghosts
<1>2. read' = NextTicket(read)
  BY <1>1 DEF CopiesRight
<1>3. /\ Spinning' = Spinning /\ WritersInside' = WritersInside
      /\ ReadersInside' = ReadersInside
      /\ ReadersPassed' = ReadersPassed \cup {t} /\ t \notin ReadersPassed
      /\ FlagOwners' = FlagOwners /\ Clearing' = Clearing
  BY <1>1 DEF Types, Spinning, WritersInside, ReadersInside, ReadersPassed, FlagOwners, Clearing
<1>4. /\ Inside' = Inside /\ Everyone' = Everyone
      /\ t \in ReadersInside /\ t \in Inside /\ WritersInside = {}
  BY <1>1, <1>3 DEF Inside, Everyone, ReadersInside, Alone
<1>5. Types'
  <2>1. NextTicket(read) \in Ticket
    BY NextValue DEF Types
  <2>2. NoCopy \in [write : Ticket, read : Ticket]
    BY <2>1, ThreadsFitTickets DEF NoCopy, Ticket
  <2>. QED
    BY <1>1, <1>2, <2>1, <2>2 DEF Types, Locations
<1>6. Counts'
  <2>1. Cardinality(ReadersPassed') = Cardinality(ReadersPassed) + 1
    BY <1>3, SetsFinite, FS_AddElement
  <2>2. ReadersPassed # Inside
    BY <1>3, <1>4
  <2>3. Cardinality(ReadersPassed) + 1 < Tickets
    BY <2>2, SetsFinite
  <2>4. Dist(read', write) = Dist(read, write) + 1
    BY <1>2, <2>3, DistNextFront DEF Types, Counts
  <2>. QED
    BY <1>1, <1>4, <2>1, <2>4 DEF Counts
<1>7. Alone'
  BY <1>3 DEF Alone
<1>8. InLine'
  BY <1>1, <1>3, <1>4 DEF InLine
<1>9. CopiesRight'
  <2>1. \A u \in Threads : pc'[u] \notin {"wu_store", "r_store"}
    <3>. SUFFICES ASSUME NEW u \in Threads, u # t, pc[u] \in {"wu_store", "r_store"}
                  PROVE  FALSE
      BY <1>1 DEF Types
    <3>1. u \in WritersInside \/ (u \in ReadersInside \ ReadersPassed)
      BY DEF WritersInside, ReadersInside, ReadersPassed
    <3>. QED
      BY <1>3, <1>4, <3>1 DEF Alone
  <2>. QED
    BY <2>1 DEF CopiesRight
<1>10. FlagRight'
  BY <1>1, <1>3, <1>4 DEF FlagRight
<1>. QED
  BY <1>5, <1>6, <1>7, <1>8, <1>9, <1>10

\* A reader leaves and moves write on, while no writer has loaded it.
LEMMA ReadLeaveInvariant ==
  ASSUME Types, Good, NEW t \in Threads, ReadLeave(t)
  PROVE  Types' /\ Good'
<1>. USE DEF Good
<1>1. /\ pc[t] = "ru_inc" /\ pc' = [pc EXCEPT ![t] = "idle"]
      /\ write' = NextTicket(write)
      /\ UNCHANGED <<read, users, writing, val, copy, late, mistaken>>
  BY DEF ReadLeave, At, Goto, ghosts
<1>2. /\ t \in ReadersInside /\ t \in ReadersPassed /\ t \in Inside /\ t \in Everyone
      /\ t \notin Spinning /\ WritersInside = {}
  BY <1>1 DEF ReadersInside, ReadersPassed, Inside, Everyone, Spinning, Alone
<1>3. /\ Spinning' = Spinning /\ WritersInside' = WritersInside
      /\ ReadersInside' = ReadersInside \ {t} /\ ReadersPassed' = ReadersPassed \ {t}
      /\ FlagOwners' = FlagOwners /\ Clearing' = Clearing
  BY <1>1 DEF Types, Spinning, WritersInside, ReadersInside, ReadersPassed, FlagOwners, Clearing
<1>4. Inside' = Inside \ {t} /\ Everyone' = Everyone \ {t}
  BY <1>2, <1>3 DEF Inside, Everyone
<1>5. InLine' /\ Dist(users', write') = Cardinality(Everyone')
  BY <1>1, <1>2, <1>3, <1>4, LeaveKeepsLine
<1>6. Types'
  <2>1. NextTicket(write) \in Ticket
    BY NextValue DEF Types
  <2>. QED
    BY <1>1, <2>1 DEF Types, Locations
<1>7. Dist(read', write') = Cardinality(ReadersPassed')
  <2>1. Cardinality(ReadersPassed') = Cardinality(ReadersPassed) - 1
    BY <1>2, <1>3, SetsFinite, FS_RemoveElement
  <2>2. Cardinality(ReadersPassed) # 0
    BY <1>2, SetsFinite, FS_EmptySet
  <2>3. Dist(read, write) >= 1
    BY <2>2, SetsFinite DEF Counts
  <2>4. Dist(read, NextTicket(write)) = Dist(read, write) - 1
    BY <2>3, DistNextBack DEF Types
  <2>. QED
    BY <1>1, <2>1, <2>4 DEF Counts
<1>8. Alone'
  BY <1>2, <1>3 DEF Alone
<1>9. CopiesRight'
  <2>1. \A u \in Threads : pc'[u] # "wu_store"
    BY <1>2, <1>3 DEF WritersInside
  <2>2. \A u \in Threads : pc'[u] = "r_store" => pc[u] = "r_store"
    BY <1>1 DEF Types
  <2>. QED
    BY <1>1, <2>1, <2>2 DEF CopiesRight
<1>10. FlagRight'
  BY <1>1, <1>3, <1>4 DEF FlagRight
<1>. QED
  BY <1>5, <1>6, <1>7, <1>8, <1>9, <1>10 DEF Counts

\* unlock() guesses its caller's class; the flag is right unless it is late.
LEMMA GuessInvariant ==
  ASSUME Types, Good, ~mistaken, NEW t \in Threads, Guess(t)
  PROVE  Types' /\ (mistaken' => late') /\ (mistaken' \/ Good')
<1>. USE DEF Good
<1>1. /\ pc[t] \in {"wu_guess", "ru_guess"}
      /\ writing => pc' = [pc EXCEPT ![t] = "wu_copy"]
      /\ ~writing => pc' = [pc EXCEPT ![t] = "ru_inc"]
      /\ UNCHANGED <<write, read, users, writing, val, copy, late>>
  BY DEF Guess, At, Goto, bytes
<1>2. /\ mistaken' \in BOOLEAN
      /\ ~mistaken' <=> (writing <=> pc[t] = "wu_guess")
  BY DEF Guess, At, Types
<1>3. Types'
  BY <1>1, <1>2 DEF Types, Locations
<1>4. ASSUME ~late PROVE writing <=> pc[t] = "wu_guess"
  <2>1. CASE pc[t] = "wu_guess"
    <3>1. t \in FlagOwners
      BY <2>1 DEF FlagOwners
    <3>. QED
      BY <1>4, <2>1, <3>1 DEF FlagRight
  <2>2. CASE pc[t] = "ru_guess"
    <3>1. t \in ReadersInside /\ t \in Inside
      BY <2>2 DEF ReadersInside, Inside
    <3>2. Clearing = {} /\ WritersInside = {}
      BY <1>4, <3>1 DEF FlagRight, Alone
    <3>3. FlagOwners = {}
      BY <3>2 DEF FlagOwners, Clearing, WritersInside
    <3>. QED
      BY <1>4, <2>2, <3>3 DEF FlagRight
  <2>. QED
    BY <1>1, <2>1, <2>2
<1>5. mistaken' => late'
  BY <1>1, <1>2, <1>4
<1>6. ASSUME ~mistaken' PROVE Good'
  <2>1. \/ pc[t] = "wu_guess" /\ pc' = [pc EXCEPT ![t] = "wu_copy"]
        \/ pc[t] = "ru_guess" /\ pc' = [pc EXCEPT ![t] = "ru_inc"]
    BY <1>1, <1>2, <1>6
  <2>2. /\ Spinning' = Spinning /\ WritersInside' = WritersInside
        /\ ReadersInside' = ReadersInside /\ ReadersPassed' = ReadersPassed
        /\ FlagOwners' = FlagOwners /\ Clearing' = Clearing
    BY <2>1 DEF Types, Spinning, WritersInside, ReadersInside, ReadersPassed, FlagOwners, Clearing
  <2>3. Counts' /\ Alone' /\ InLine'
    BY <1>1, <2>2, KeepRole DEF bytes
  <2>4. CopiesRight' /\ FlagRight'
    BY <1>1, <2>1, <2>2 DEF Types, CopiesRight, FlagRight, Inside
  <2>. QED
    BY <2>3, <2>4
<1>. QED
  BY <1>3, <1>5, <1>6

\* Every step keeps the invariant; there is none after a wrong guess.
THEOREM StepInvariant == IInv /\ [Next]_vars => IInv'
<1>. SUFFICES ASSUME IInv, [Next]_vars PROVE IInv'
  OBVIOUS
<1>1. CASE UNCHANGED vars
  <2>1. UNCHANGED <<write, read, users, writing, val, copy, pc, late, mistaken>>
    BY <1>1 DEF vars, bytes, ghosts
  <2>2. /\ Spinning' = Spinning /\ WritersInside' = WritersInside
        /\ ReadersInside' = ReadersInside /\ ReadersPassed' = ReadersPassed
        /\ FlagOwners' = FlagOwners /\ Clearing' = Clearing
    BY <2>1 DEF Spinning, WritersInside, ReadersInside, ReadersPassed, FlagOwners, Clearing
  <2>3. Types' /\ GuessesRightUnlessLate'
    BY <2>1 DEF IInv, Types, GuessesRightUnlessLate
  <2>4. Good => Counts' /\ Alone' /\ InLine'
    BY <2>1, <2>2, KeepRole DEF Good, bytes
  <2>5. Good => CopiesRight' /\ FlagRight'
    BY <2>1, <2>2 DEF Good, CopiesRight, FlagRight, Inside
  <2>. QED
    BY <2>1, <2>3, <2>4, <2>5 DEF IInv, Good
<1>2. CASE Next
  <2>1. ~mistaken /\ Good /\ Types
    BY <1>2 DEF Next, IInv
  <2>2. PICK t \in Threads : WriteDraw(t) \/ ReadDraw(t) \/ Step(t)
    BY <1>2 DEF Next
  <2>3. CASE Guess(t)
    BY <2>1, <2>3, GuessInvariant DEF IInv, GuessesRightUnlessLate
  <2>4. CASE ~Guess(t)
    <3>1. Types' /\ Good'
      BY <2>1, <2>2, <2>4, DrawInvariant, WritePassInvariant, ReadPassInvariant, InsideInvariant,
         ReleaseInvariant, ClearInvariant, ReadStoreInvariant, ReadLeaveInvariant DEF Step
    <3>2. UNCHANGED mistaken
      BY <2>2, <2>4 DEF Step, WriteDraw, ReadDraw, DrawTicket, WriteSpin, ReadSpin, PassSpin,
         WriteSet, WriteCopy, WriteRelease, WriteClear, ReadLoad, ReadStore, ReadLeave,
         CallUnlock, ghosts
    <3>. QED
      BY <2>1, <3>1, <3>2 DEF IInv, GuessesRightUnlessLate
  <2>. QED
    BY <2>3, <2>4
<1>. QED
  BY <1>1, <1>2

-----------------------------------------------------------------------------
\* The invariant holds in every reachable state.
THEOREM Invariance == Spec => []IInv
<1>. QED
  BY InitInvariant, StepInvariant, PTL DEF Spec

\* The three bytes say who holds or wants the lock and who reads, through all
\* wraps, until an unlock() guessed wrong.
THEOREM TicketsAlwaysExact == Spec => []TicketsExact
<1>1. IInv => TicketsExact
  BY DEF IInv, Good, Counts, TicketsExact, Dist, Everyone
<1>. QED
  BY <1>1, Invariance, PTL

\* A writer is alone and readers pass one at a time, until an unlock() guessed
\* wrong.
THEOREM AlwaysExclusive == Spec => []ExclusiveUnlessMistaken
<1>1. ASSUME NEW S, IsFiniteSet(S), \A s, t \in S : s = t
      PROVE  Cardinality(S) <= 1
  <2>1. CASE S = {}
    BY <2>1, FS_EmptySet
  <2>2. CASE S # {}
    <3>1. PICK x \in S : S = {x}
      BY <1>1, <2>2
    <3>2. Cardinality({x}) = 1
      BY FS_Singleton
    <3>. QED
      BY <3>1, <3>2
  <2>. QED
    BY <2>1, <2>2
<1>2. IsFiniteSet(WritersInside) /\ IsFiniteSet(ReadersInside \ ReadersPassed)
  <2>1. /\ WritersInside \in SUBSET Inside
        /\ (ReadersInside \ ReadersPassed) \in SUBSET Inside
    BY DEF Inside
  <2>. QED
    BY <2>1, SetsFinite, FS_Subset
<1>3. IInv => ExclusiveUnlessMistaken
  BY <1>1, <1>2 DEF IInv, Good, Alone, ExclusiveUnlessMistaken
<1>. QED
  BY <1>3, Invariance, PTL

\* unlock() guesses wrong only when the constructor left the flag true or a
\* writer cleared it after another thread was in.
THEOREM GuessesAlwaysRightUnlessLate == Spec => []GuessesRightUnlessLate
<1>1. IInv => GuessesRightUnlessLate
  BY DEF IInv
<1>. QED
  BY <1>1, Invariance, PTL

-----------------------------------------------------------------------------
(* The order of the line.  Who spins holds the tickets behind those inside,  *)
(* without a gap, in the order of the line.                                  *)

LineInOrder ==
  /\ \A i \in DOMAIN line : /\ line[i] \in Spinning
                            /\ Dist(val[line[i]], write) = Cardinality(Inside) + i - 1
  /\ \A t \in Spinning : \E i \in DOMAIN line : line[i] = t
  /\ Len(line) = Cardinality(Everyone) - Cardinality(Inside)

OrderInv == line \in Seq(Threads) /\ (mistaken \/ LineInOrder)

\* Nobody draws a ticket, gets in or out.
LEMMA LineStays ==
  ASSUME LineInOrder, Spinning' = Spinning, Inside' = Inside, Everyone' = Everyone,
         UNCHANGED <<line, val, write>>
  PROVE  LineInOrder'
BY DEF LineInOrder

\* A thread draws its ticket behind the last of the line.
LEMMA DrawOrder ==
  ASSUME Types, Counts, OrderInv, ~mistaken, NEW t \in Threads, NEW loc \in {"w_spin", "r_spin"},
         DrawTicket(t, loc)
  PROVE  line' \in Seq(Threads) /\ LineInOrder'
<1>1. /\ pc[t] = "idle" /\ pc' = [pc EXCEPT ![t] = loc]
      /\ val' = [val EXCEPT ![t] = users] /\ line' = Append(line, t)
      /\ UNCHANGED write
  BY DEF DrawTicket, At, Goto
<1>2. /\ Spinning' = Spinning \cup {t} /\ t \notin Spinning /\ t \notin Everyone
      /\ Inside' = Inside /\ Everyone' = Everyone \cup {t}
  BY <1>1 DEF Types, Spinning, WritersInside, ReadersInside, Everyone, Inside
<1>3. Cardinality(Everyone') = Cardinality(Everyone) + 1
  BY <1>2, SetsFinite, FS_AddElement
<1>4. /\ line' \in Seq(Threads) /\ Len(line) \in Nat /\ Len(line') = Len(line) + 1
      /\ DOMAIN line = 1 .. Len(line) /\ DOMAIN line' = 1 .. Len(line) + 1
      /\ line'[Len(line) + 1] = t /\ \A i \in DOMAIN line : line'[i] = line[i]
  BY <1>1, AppendProperties DEF OrderInv
<1>5. /\ \A i \in DOMAIN line : /\ line[i] \in Spinning
                                /\ Dist(val[line[i]], write) = Cardinality(Inside) + i - 1
      /\ \A u \in Spinning : \E i \in DOMAIN line : line[i] = u
      /\ Len(line) = Cardinality(Everyone) - Cardinality(Inside)
  BY DEF OrderInv, LineInOrder
<1>6. val'[t] = users /\ \A u \in Spinning : val'[u] = val[u]
  BY <1>1, <1>2 DEF Types, Spinning
<1>7. Dist(users, write) = Cardinality(Inside) + (Len(line) + 1) - 1
  BY <1>5, SetsFinite DEF Counts
<1>8. ASSUME NEW i \in DOMAIN line'
      PROVE  /\ line'[i] \in Spinning'
             /\ Dist(val'[line'[i]], write') = Cardinality(Inside') + i - 1
  <2>1. CASE i = Len(line) + 1
    BY <1>1, <1>2, <1>4, <1>6, <1>7, <2>1
  <2>2. CASE i # Len(line) + 1
    <3>1. i \in DOMAIN line
      BY <1>4, <2>2
    <3>. QED
      BY <1>1, <1>2, <1>4, <1>5, <1>6, <3>1
  <2>. QED
    BY <2>1, <2>2
<1>9. \A u \in Spinning' : \E i \in DOMAIN line' : line'[i] = u
  <2>1. ASSUME NEW u \in Spinning PROVE \E i \in DOMAIN line' : line'[i] = u
    <3>1. PICK i \in DOMAIN line : line[i] = u
      BY <1>5
    <3>. QED
      BY <1>4, <3>1
  <2>2. Len(line) + 1 \in DOMAIN line'
    BY <1>4
  <2>. QED
    BY <1>2, <1>4, <2>1, <2>2
<1>10. Len(line') = Cardinality(Everyone') - Cardinality(Inside')
  BY <1>2, <1>3, <1>4, <1>5, SetsFinite
<1>. QED
  BY <1>4, <1>8, <1>9, <1>10 DEF LineInOrder

\* Who passes the spin holds the ticket behind those inside, and so is the
\* first of the line.
LEMMA PassOrder ==
  ASSUME Types, InLine, OrderInv, ~mistaken, NEW t \in Spinning, NEW loc, PassSpin(t, loc),
         Dist(val[t], write) = Cardinality(Inside),
         Spinning' = Spinning \ {t}, Inside' = Inside \cup {t}, t \notin Inside,
         Everyone' = Everyone
  PROVE  line' \in Seq(Threads) /\ LineInOrder' /\ line' = Tail(line)
<1>. DEFINE n == Len(line)
            p == CHOOSE i \in DOMAIN line : line[i] = t
<1>1. /\ line \in Seq(Threads) /\ n \in Nat /\ DOMAIN line = 1 .. n
      /\ \A i \in DOMAIN line : /\ line[i] \in Spinning
                                /\ Dist(val[line[i]], write) = Cardinality(Inside) + i - 1
      /\ \A u \in Spinning : \E i \in DOMAIN line : line[i] = u
      /\ Len(line) = Cardinality(Everyone) - Cardinality(Inside)
  BY DEF OrderInv, LineInOrder
<1>2. p \in DOMAIN line /\ line[p] = t
  <2>1. \E i \in DOMAIN line : line[i] = t
    BY <1>1
  <2>. QED
    BY <2>1
<1>3. p = 1
  <2>1. Cardinality(Inside) = Cardinality(Inside) + p - 1 /\ p \in Nat
    BY <1>1, <1>2
  <2>. QED
    BY <2>1, SetsFinite
<1>4. line' = SubSeq(line, 1, p - 1) \o SubSeq(line, p + 1, n)
  BY DEF PassSpin
<1>. HIDE DEF p
<1>5. line # <<>> /\ Tail(line) \in Seq(Threads)
  BY <1>1, <1>2, HeadTailProperties
<1>6. /\ line' = Tail(line) /\ line' \in Seq(Threads) /\ Len(line') = n - 1 /\ DOMAIN line' = 1 .. n - 1
      /\ \A i \in DOMAIN line' : i + 1 \in DOMAIN line /\ line'[i] = line[i + 1]
  <2>1. SubSeq(line, 1, 0) = <<>>
    BY SubSeqEmpty
  <2>2. SubSeq(line, 2, n) = Tail(line)
    BY <1>1, <1>5, TailIsSubSeq
  <2>3. p - 1 = 0 /\ p + 1 = 2
    BY <1>3
  <2>4. line' = <<>> \o Tail(line)
    BY <1>4, <2>1, <2>2, <2>3
  <2>5. line' = Tail(line)
    BY <1>5, <2>4, ConcatEmptySeq
  <2>6. Len(line') = n - 1 /\ \A i \in 1 .. n - 1 : line'[i] = line[i + 1]
    BY <1>1, <1>5, <2>5, HeadTailProperties
  <2>7. DOMAIN line' = 1 .. n - 1
    BY <1>5, <2>5, <2>6, LenProperties
  <2>. QED
    BY <1>1, <1>5, <2>5, <2>6, <2>7
<1>7. Cardinality(Inside') = Cardinality(Inside) + 1
  BY SetsFinite, FS_AddElement
<1>8. write' = write /\ \A u \in Spinning \ {t} : val'[u] = val[u]
  BY DEF PassSpin, Types, Spinning, bytes
<1>9. ASSUME NEW i \in DOMAIN line'
      PROVE  /\ line'[i] \in Spinning'
             /\ Dist(val'[line'[i]], write') = Cardinality(Inside') + i - 1
  <2>1. i + 1 \in DOMAIN line /\ line'[i] = line[i + 1] /\ i \in Nat /\ i >= 1
    BY <1>6, <1>9
  <2>2. /\ line[i + 1] \in Spinning
        /\ Dist(val[line[i + 1]], write) = Cardinality(Inside) + (i + 1) - 1
    BY <1>1, <2>1
  <2>3. line[i + 1] # t
    BY <2>1, <2>2, SetsFinite
  <2>. QED
    BY <1>7, <1>8, <2>1, <2>2, <2>3, SetsFinite
<1>10. ASSUME NEW u \in Spinning' PROVE \E i \in DOMAIN line' : line'[i] = u
  <2>1. PICK i \in DOMAIN line : line[i] = u
    BY <1>1
  <2>2. i # 1 /\ i \in Nat
    BY <1>1, <1>2, <1>3, <2>1
  <2>3. i - 1 \in DOMAIN line' /\ (i - 1) + 1 = i
    BY <1>1, <1>6, <2>1, <2>2
  <2>. QED
    BY <1>6, <2>1, <2>3
<1>11. Len(line') = Cardinality(Everyone') - Cardinality(Inside')
  BY <1>1, <1>6, <1>7, SetsFinite
<1>. QED
  BY <1>6, <1>9, <1>10, <1>11 DEF LineInOrder

\* The line moves up when one of those inside leaves.
LEMMA LeaveOrder ==
  ASSUME Types, InLine, OrderInv, ~mistaken, NEW t \in Inside, write' = NextTicket(write),
         UNCHANGED <<val, line>>,
         Spinning' = Spinning, Inside' = Inside \ {t}, Everyone' = Everyone \ {t},
         t \in Everyone
  PROVE  LineInOrder'
<1>1. /\ line \in Seq(Threads)
      /\ \A i \in DOMAIN line : /\ line[i] \in Spinning
                                /\ Dist(val[line[i]], write) = Cardinality(Inside) + i - 1
      /\ \A u \in Spinning : \E i \in DOMAIN line : line[i] = u
      /\ Len(line) = Cardinality(Everyone) - Cardinality(Inside)
  BY DEF OrderInv, LineInOrder
<1>2. /\ Cardinality(Inside') = Cardinality(Inside) - 1
      /\ Cardinality(Everyone') = Cardinality(Everyone) - 1
      /\ Cardinality(Inside) >= 1
  <2>1. Cardinality(Inside') = Cardinality(Inside) - 1
    BY SetsFinite, FS_RemoveElement
  <2>2. Cardinality(Everyone') = Cardinality(Everyone) - 1
    BY SetsFinite, FS_RemoveElement
  <2>3. Cardinality(Inside) # 0
    BY SetsFinite
  <2>. QED
    BY <2>1, <2>2, <2>3, SetsFinite
<1>3. ASSUME NEW i \in DOMAIN line
      PROVE  Dist(val[line[i]], write') = Cardinality(Inside') + i - 1
  <2>1. i \in Nat /\ i >= 1 /\ line[i] \in Threads
    BY <1>1
  <2>2. val[line[i]] \in Ticket /\ write \in Ticket
    BY <2>1 DEF Types
  <2>3. Dist(val[line[i]], write) = Cardinality(Inside) + i - 1
    BY <1>1
  <2>4. Dist(val[line[i]], write) >= 1
    BY <1>2, <2>1, <2>3, SetsFinite
  <2>5. Dist(val[line[i]], NextTicket(write)) = Dist(val[line[i]], write) - 1
    BY <2>2, <2>4, DistNextBack
  <2>. QED
    BY <1>2, <2>1, <2>3, <2>5, SetsFinite
<1>4. Len(line') = Cardinality(Everyone') - Cardinality(Inside')
  BY <1>1, <1>2, SetsFinite
<1>. QED
  BY <1>1, <1>3, <1>4 DEF LineInOrder

LEMMA InitOrder == Init => OrderInv
<1>. SUFFICES ASSUME Init PROVE OrderInv
  OBVIOUS
<1>1. Everyone = {} /\ Inside = {} /\ Spinning = {}
  BY DEF Init, Everyone, Inside, Spinning, WritersInside, ReadersInside
<1>2. line = <<>> /\ Len(line) = 0 /\ DOMAIN line = {} /\ line \in Seq(Threads)
  BY EmptySeq DEF Init
<1>. QED
  BY <1>1, <1>2, FS_EmptySet DEF OrderInv, LineInOrder

\* Every step keeps the order, and nobody but the first leaves the line.
THEOREM StepOrder ==
  IInv /\ OrderInv /\ [Next]_vars =>
    OrderInv' /\ (~mistaken /\ Len(line') < Len(line) => line' = Tail(line))
<1>. SUFFICES ASSUME IInv, OrderInv, [Next]_vars
              PROVE  /\ OrderInv'
                     /\ ~mistaken /\ Len(line') < Len(line) => line' = Tail(line)
  OBVIOUS
<1>0. line \in Seq(Threads) /\ Len(line) \in Nat /\ Types
  BY DEF OrderInv, IInv
<1>1. CASE UNCHANGED vars
  <2>1. UNCHANGED <<write, val, pc, line, mistaken>>
    BY <1>1 DEF vars, bytes, ghosts
  <2>2. UNCHANGED <<Spinning, Inside, Everyone>>
    BY <2>1 DEF Spinning, Inside, Everyone, WritersInside, ReadersInside
  <2>. QED
    BY <1>0, <2>1, <2>2, LineStays DEF OrderInv
<1>2. CASE Next
  <2>0. ~mistaken /\ Good
    BY <1>2 DEF Next, IInv
  <2>1. PICK t \in Threads : WriteDraw(t) \/ ReadDraw(t) \/ Step(t)
    BY <1>2 DEF Next
  <2>2. ASSUME NEW loc \in {"w_spin", "r_spin"}, DrawTicket(t, loc)
        PROVE  OrderInv' /\ Len(line') >= Len(line)
    <3>1. Len(line') = Len(line) + 1
      BY <1>0, <2>2, AppendProperties DEF DrawTicket
    <3>. QED
      BY <1>0, <2>0, <2>2, <3>1, DrawOrder DEF OrderInv, Good
  <2>3. ASSUME WriteSpin(t) \/ ReadSpin(t) PROVE OrderInv' /\ line' = Tail(line)
    <3>1. PICK loc \in {"w_set", "r_load"} :
            /\ PassSpin(t, loc)
            /\ \/ loc = "w_set" /\ pc[t] = "w_spin" /\ val[t] = write
               \/ loc = "r_load" /\ pc[t] = "r_spin" /\ val[t] = read
      BY <2>3 DEF WriteSpin, ReadSpin, At
    <3>2. /\ t \in Spinning /\ t \notin Inside /\ Spinning' = Spinning \ {t}
          /\ Inside' = Inside \cup {t} /\ Everyone' = Everyone
      BY <1>0, <3>1 DEF PassSpin, Goto, Types, Spinning, Inside, Everyone, WritersInside, ReadersInside
    <3>3. Dist(val[t], write) = Cardinality(Inside)
      <4>1. /\ Cardinality(Inside) <= Dist(val[t], write) /\ val[t] \in Ticket /\ write \in Ticket
        BY <1>0, <2>0, <3>2 DEF Good, InLine, Types
      <4>2. Dist(val[t], write) = 0 \/ Dist(val[t], write) = Cardinality(ReadersPassed)
        BY <2>0, <3>1, <4>1, DistInjective DEF Good, Counts
      <4>. QED
        BY <4>1, <4>2, SetsFinite
    <3>. QED
      BY <1>0, <2>0, <3>1, <3>2, <3>3, PassOrder DEF OrderInv, Good
  <2>4. ASSUME WriteRelease(t) \/ ReadLeave(t) PROVE OrderInv' /\ line' = line
    <3>1. /\ UNCHANGED <<val, line, mistaken>> /\ write' = NextTicket(write) /\ t \in Inside
          /\ t \in Everyone /\ Spinning' = Spinning /\ Inside' = Inside \ {t}
          /\ Everyone' = Everyone \ {t}
      <4>1. CASE WriteRelease(t)
        <5>1. /\ pc[t] = "wu_store" /\ pc' = [pc EXCEPT ![t] = "wu_clear"]
              /\ write' = copy[t].write /\ UNCHANGED <<val, line, mistaken>>
          BY <4>1 DEF WriteRelease, At, Goto, ghosts
        <5>2. write' = NextTicket(write)
          BY <2>0, <5>1 DEF Good, CopiesRight
        <5>. QED
          BY <1>0, <5>1, <5>2 DEF Types, Spinning, Inside, Everyone, WritersInside, ReadersInside
      <4>2. CASE ReadLeave(t)
        <5>1. /\ pc[t] = "ru_inc" /\ pc' = [pc EXCEPT ![t] = "idle"]
              /\ write' = NextTicket(write) /\ UNCHANGED <<val, line, mistaken>>
          BY <4>2 DEF ReadLeave, At, Goto, ghosts
        <5>. QED
          BY <1>0, <5>1 DEF Types, Spinning, Inside, Everyone, WritersInside, ReadersInside
      <4>. QED
        BY <2>4, <4>1, <4>2
    <3>. QED
      BY <1>0, <2>0, <3>1, LeaveOrder DEF OrderInv, Good
  <2>5. ASSUME WriteSet(t) \/ WriteCopy(t) \/ WriteClear(t) \/ ReadLoad(t) \/ ReadStore(t)
               \/ CallUnlock(t) \/ Guess(t)
        PROVE  OrderInv' /\ line' = line
    <3>1. UNCHANGED <<write, val, line>>
      BY <2>5 DEF WriteSet, WriteCopy, WriteClear, ReadLoad, ReadStore, CallUnlock, Guess, bytes, ghosts
    <3>2. UNCHANGED <<Spinning, Inside, Everyone>>
      BY <1>0, <2>5 DEF WriteSet, WriteCopy, WriteClear, ReadLoad, ReadStore, CallUnlock, Guess, At, Goto,
         Types, Spinning, Inside, Everyone, WritersInside, ReadersInside
    <3>. QED
      BY <1>0, <2>0, <3>1, <3>2, LineStays DEF OrderInv
  <2>. QED
    BY <1>0, <2>1, <2>2, <2>3, <2>4, <2>5 DEF Step, WriteDraw, ReadDraw
<1>. QED
  BY <1>0, <1>1, <1>2

\* The order holds in every reachable state.
THEOREM OrderInvariance == Spec => []OrderInv
<1>1. IInv /\ OrderInv /\ [Next]_vars => OrderInv'
  BY StepOrder
<1>. QED
  BY <1>1, InitOrder, Invariance, PTL DEF Spec

\* The variables keep their types; the tickets stay within a byte.
THEOREM TypeCorrect == Spec => []TypeOK
<1>1. IInv /\ OrderInv => TypeOK
  BY DEF IInv, OrderInv, Types, TypeOK
<1>. QED
  BY <1>1, Invariance, OrderInvariance, PTL

\* The lock is fair: whoever gets in, reader or writer, is the first of those
\* that wait, through all wraps of the tickets, until an unlock() guessed wrong.
THEOREM TicketOrderKept == Spec => InTicketOrder
<1>. DEFINE Fair == ~mistaken /\ Len(line') < Len(line) => line' = Tail(line)
<1>1. IInv /\ OrderInv /\ [Next]_vars => [Fair]_<<line, mistaken>>
  BY StepOrder
<1>. QED
  BY <1>1, Invariance, OrderInvariance, PTL DEF Spec, InTicketOrder
=============================================================================
