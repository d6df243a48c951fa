----------------------------- MODULE SpinRWLock -----------------------------
(***************************************************************************)
(* spinrwlock (delete-me/spinrwlock.hpp): a readers/writer spin lock made  *)
(* of three 8-bit tickets.  users is the next ticket to draw.  A writer    *)
(* goes in when write has come to its ticket, a reader when read has; a    *)
(* reader moves read on as soon as it is in and write when it leaves, a    *)
(* writer moves both on when it leaves.                                    *)
(*                                                                         *)
(* Besides rdunlock and wrunlock there is unlock, which reads the flag     *)
(* writing to guess whether its caller is a reader or a writer.  The       *)
(* constructor does not initialise the flag.  The steps are in the order   *)
(* of the source, one per access to a shared byte.                         *)
(***************************************************************************)
EXTENDS Integers, Sequences, FiniteSets

CONSTANTS Threads,  \* the threads that use the lock
          Tickets   \* how many tickets there are: 2^8, for an unsigned char

\* No two threads draw the same ticket at a time.
ASSUME ThreadsFitTickets ==
  /\ IsFiniteSet(Threads)
  /\ Tickets \in Nat
  /\ Cardinality(Threads) < Tickets

VARIABLES write, read, users,  \* the three bytes of l.s
          writing,             \* the flag that unlock() reads
          val,                 \* val[t]: the ticket that t drew
          copy,                \* copy[t]: what t loaded of l before a store
          pc,                  \* pc[t]: the step t takes next
          line,                \* observers' variables: the threads that spin,
          late,                \* in ticket order; whether writing may be wrong
          mistaken             \* from then on; whether an unlock() guessed
                               \* wrong, which ends the behaviour

bytes  == <<write, read, users>>
ghosts == <<line, late, mistaken>>
vars   == <<bytes, writing, val, copy, pc, ghosts>>

Ticket == 0 .. Tickets - 1

NoCopy == [write |-> 0, read |-> 0]

\* Whatever memory writing is made of, it is there before the first writer.
Init ==
  /\ write = 0
  /\ read = 0
  /\ users = 0
  /\ writing \in BOOLEAN
  /\ val = [t \in Threads |-> 0]
  /\ copy = [t \in Threads |-> NoCopy]
  /\ pc = [t \in Threads |-> "idle"]
  /\ line = <<>>
  /\ late = writing
  /\ mistaken = FALSE

At(t, loc) == pc[t] = loc

Goto(t, loc) == pc' = [pc EXCEPT ![t] = loc]

\* As if a byte did not wrap.
NextUnbounded(x) == x + 1

\* ++ of an unsigned char.
NextTicket(x) == (x + 1) % Tickets

----------------------------------------------------------------------------
\* me = atomic_xadd(&l.u, 1 << 16): the carry goes to a byte nobody reads.
DrawTicket(t, loc) ==
  /\ At(t, "idle")
  /\ users' = NextTicket(users)
  /\ val' = [val EXCEPT ![t] = users]
  /\ Goto(t, loc)
  /\ line' = Append(line, t)
  /\ UNCHANGED <<write, read, writing, copy, late, mistaken>>

\* t leaves its spin; if some writer has released the tickets and not yet
\* cleared writing, it will do so while t is inside.
PassSpin(t, loc) ==
  /\ Goto(t, loc)
  /\ val' = [val EXCEPT ![t] = 0]
  /\ LET i == CHOOSE i \in DOMAIN line : line[i] = t
     IN  line' = SubSeq(line, 1, i - 1) \o SubSeq(line, i + 1, Len(line))
  /\ late' = (late \/ \E u \in Threads : pc[u] = "wu_clear")
  /\ UNCHANGED <<bytes, writing, copy, mistaken>>

(* writelock and wrunlock *)

WriteDraw(t) == DrawTicket(t, "w_spin")

\* As if a writer waited for the ticket of the readers.
WriteSpinOnRead(t) ==
  /\ At(t, "w_spin")
  /\ val[t] = read
  /\ PassSpin(t, "w_set")

WriteSpin(t) ==
  /\ At(t, "w_spin")
  /\ val[t] = write
  /\ PassSpin(t, "w_set")

WriteSet(t) ==
  /\ At(t, "w_set")
  /\ writing' = TRUE
  /\ Goto(t, "writing")
  /\ UNCHANGED <<bytes, val, copy, ghosts>>

\* t = l; t.s.write++; t.s.read++
WriteCopy(t) ==
  /\ At(t, "wu_copy")
  /\ copy' = [copy EXCEPT ![t] = [write |-> NextTicket(write), read |-> NextTicket(read)]]
  /\ Goto(t, "wu_store")
  /\ UNCHANGED <<bytes, writing, val, ghosts>>

\* As if only write were moved on.
WriteReleaseHalf(t) ==
  /\ At(t, "wu_store")
  /\ write' = copy[t].write
  /\ copy' = [copy EXCEPT ![t] = NoCopy]
  /\ Goto(t, "wu_clear")
  /\ UNCHANGED <<read, users, writing, val, ghosts>>

\* *(unsigned short *)&l = t.us: both bytes at once, and not users.
WriteRelease(t) ==
  /\ At(t, "wu_store")
  /\ write' = copy[t].write
  /\ read' = copy[t].read
  /\ copy' = [copy EXCEPT ![t] = NoCopy]
  /\ Goto(t, "wu_clear")
  /\ UNCHANGED <<users, writing, val, ghosts>>

\* As if the flag stayed as it is.
WriteClearForgotten(t) ==
  /\ At(t, "wu_clear")
  /\ Goto(t, "idle")
  /\ UNCHANGED <<bytes, writing, val, copy, ghosts>>

\* writing = false, after the lock was given away.
WriteClear(t) ==
  /\ At(t, "wu_clear")
  /\ writing' = FALSE
  /\ Goto(t, "idle")
  /\ UNCHANGED <<bytes, val, copy, ghosts>>

(* readlock and rdunlock *)

ReadDraw(t) == DrawTicket(t, "r_spin")

ReadSpin(t) ==
  /\ At(t, "r_spin")
  /\ val[t] = read
  /\ PassSpin(t, "r_load")

\* l.s.read++ is a load and a store, without a lock prefix.
ReadLoad(t) ==
  /\ At(t, "r_load")
  /\ copy' = [copy EXCEPT ![t].read = NextTicket(read)]
  /\ Goto(t, "r_store")
  /\ UNCHANGED <<bytes, writing, val, ghosts>>

ReadStore(t) ==
  /\ At(t, "r_store")
  /\ read' = copy[t].read
  /\ copy' = [copy EXCEPT ![t] = NoCopy]
  /\ Goto(t, "reading")
  /\ UNCHANGED <<write, users, writing, val, ghosts>>

\* As if the last reader in spoke for all of them.
ReadLeaveUncounted(t) ==
  /\ At(t, "ru_inc")
  /\ write' = read
  /\ Goto(t, "idle")
  /\ UNCHANGED <<read, users, writing, val, copy, ghosts>>

\* atomic_inc(&l.s.write)
ReadLeave(t) ==
  /\ At(t, "ru_inc")
  /\ write' = NextTicket(write)
  /\ Goto(t, "idle")
  /\ UNCHANGED <<read, users, writing, val, copy, ghosts>>

(* unlock *)

\* A holder calls the unlock of its class, or the one that guesses.
CallUnlock(t) ==
  /\ \/ At(t, "writing") /\ (Goto(t, "wu_copy") \/ Goto(t, "wu_guess"))
     \/ At(t, "reading") /\ (Goto(t, "ru_inc") \/ Goto(t, "ru_guess"))
  /\ UNCHANGED <<bytes, writing, val, copy, ghosts>>

\* if (!writing) rdunlock(); else wrunlock();
Guess(t) ==
  /\ At(t, "wu_guess") \/ At(t, "ru_guess")
  /\ Goto(t, IF writing THEN "wu_copy" ELSE "ru_inc")
  /\ mistaken' = (mistaken \/ (writing # At(t, "wu_guess")))
  /\ UNCHANGED <<bytes, writing, val, copy, line, late>>

Step(t) ==
  \/ WriteSpin(t) \/ WriteSet(t) \/ WriteCopy(t) \/ WriteRelease(t) \/ WriteClear(t)
  \/ ReadSpin(t) \/ ReadLoad(t) \/ ReadStore(t) \/ ReadLeave(t)
  \/ CallUnlock(t) \/ Guess(t)

\* Nothing holds any more once an unlock() guessed wrong: it moved read on when
\* it should not, or did not when it should.  A behaviour ends there.
Next ==
  /\ ~mistaken
  /\ \E t \in Threads : WriteDraw(t) \/ ReadDraw(t) \/ Step(t)

Spec == Init /\ [][Next]_vars

\* A thread inside lock or unlock keeps running, and a holder unlocks in the
\* end.  No thread has to call the lock.
FairSpec == Spec /\ \A t \in Threads : WF_vars(~mistaken /\ Step(t))

----------------------------------------------------------------------------
Locations ==
  {"idle", "w_spin", "w_set", "writing", "wu_guess", "wu_copy", "wu_store", "wu_clear",
   "r_spin", "r_load", "r_store", "reading", "ru_guess", "ru_inc"}

Spinning == {t \in Threads : pc[t] \in {"w_spin", "r_spin"}}

\* Inside, from the end of the spin to the release of the ticket, and the
\* readers of these that have let the next reader in.
WritersInside == {t \in Threads : pc[t] \in {"w_set", "writing", "wu_guess", "wu_copy", "wu_store"}}
ReadersInside == {t \in Threads : pc[t] \in {"r_load", "r_store", "reading", "ru_guess", "ru_inc"}}
ReadersPassed == {t \in Threads : pc[t] \in {"reading", "ru_guess", "ru_inc"}}

\* Every variable has its type.
TypeOK ==
  /\ {write, read, users} \subseteq Ticket
  /\ writing \in BOOLEAN
  /\ val \in [Threads -> Ticket]
  /\ copy \in [Threads -> [write : Ticket, read : Ticket]]
  /\ pc \in [Threads -> Locations]
  /\ line \in Seq(Threads)
  /\ late \in BOOLEAN
  /\ mistaken \in BOOLEAN

\* A writer is alone and only one reader at a time moves read on, until an
\* unlock() guessed wrong: neither the two stores that take no lock prefix nor
\* a wrap of the tickets lets anybody in too early.
ExclusiveUnlessMistaken ==
  mistaken \/
    /\ WritersInside # {} => ReadersInside = {}
    /\ Cardinality(WritersInside) <= 1
    /\ Cardinality(ReadersInside \ ReadersPassed) <= 1

\* The tickets are exact, until an unlock() guessed wrong: write is behind
\* users by the threads that hold or want the lock, and behind read by the
\* readers that are in.
TicketsExact ==
  mistaken \/
    /\ (users - write) % Tickets = Cardinality(Spinning \cup WritersInside \cup ReadersInside)
    /\ (read - write) % Tickets = Cardinality(ReadersPassed)

\* unlock() guesses right unless writing may be wrong for one of two reasons:
\* the constructor found it true, or a writer that had given the lock away
\* cleared it after another thread was in (spinrwlock.hpp:58-59).
GuessesRightUnlessLate == mistaken => late

\* The threads get in in the order of their tickets, readers and writers
\* alike, until an unlock() guessed wrong.
InTicketOrder ==
  [][~mistaken /\ Len(line') < Len(line) => line' = Tail(line)]_<<line, mistaken>>

\* Every thread that asks for the lock gets it, unless an unlock() guesses
\* wrong at some time.
NoStarvation == \A t \in Threads : (t \in Spinning) ~> (t \notin Spinning \/ mistaken)
=============================================================================
