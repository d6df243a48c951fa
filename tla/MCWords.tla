------------------------------ MODULE MCWords ------------------------------
(* The classes that are one word with __sync operations on it, each on a     *)
(* small instance of its own.  They share no state, so one of them moves in  *)
(* a behaviour (part) and the others stay as they are.                       *)
(*                                                                           *)
(* atomic<T>: a word of two bits.  The arguments 1 and 3 are each other's    *)
(* negatives, so the word returns to an earlier value after one or two other *)
(* calls.  spinrwlock2: three threads, each free to lock for reading or      *)
(* writing again and again.  spinrwlock: four threads and five tickets, so   *)
(* the bytes wrap all the time, and a ticket is drawn anew while the thread  *)
(* that had it last may still be on its way out.                             *)
EXTENDS MCAtomics, SpinRWLock2, SpinRWLock

\* Room for the three readers of spinrwlock2 and the two flag bits, no more.
MCWordSize == 16

VARIABLE part   \* the part that moves

allVars == <<part, atomicVars, rwVars, vars>>

Start ==
  /\ part \in {"atomic", "spinrwlock2", "spinrwlock"}
  /\ AtomicInit
  /\ part # "atomic" => type = "int" /\ build = "user"
  /\ RwInit
  /\ Init
  /\ part # "spinrwlock" => ~writing

InAtomic(A) == part = "atomic" /\ A /\ UNCHANGED <<part, rwVars, vars>>
InRw(A)     == part = "spinrwlock2" /\ A /\ UNCHANGED <<part, atomicVars, vars>>
InSpin(A)   == part = "spinrwlock" /\ A /\ UNCHANGED <<part, atomicVars, rwVars>>

\* A behaviour of spinrwlock ends with the first wrong guess of unlock(), which
\* is no deadlock; all others go on for ever.
Stop == InSpin(mistaken /\ UNCHANGED vars)

Move ==
  \/ InAtomic(AtomicNext)
  \/ InRw(RwNext)
  \/ InSpin(Next)
  \/ Stop

\* What a thread goes on to do by itself, whichever part moves.
StepOf(t) ==
  \/ t \in AtomicThreads /\ InAtomic(AtomicStep(t))
  \/ t \in RwThreads /\ InRw(WriteStep(t) \/ ReadStep(t))
  \/ t \in Threads /\ InSpin(~mistaken /\ Step(t))

\* A thread that is in a call, in lock or in unlock keeps running, and a holder
\* of a lock unlocks in the end.  No thread has to call anything.
FairMoves ==
  /\ Start
  /\ [][Move]_allVars
  /\ \A t \in AtomicThreads \cup RwThreads \cup Threads : WF_allVars(StepOf(t))
=============================================================================
