--------------------------- MODULE ReadersWriter ---------------------------
(***************************************************************************)
(* What a readers/writer lock promises, with nothing about how: any number *)
(* of threads may hold it for reading, or exactly one for writing.  A lock *)
(* of the library is shown to implement this module under a mapping        *)
(* of its own state to the two sets below.  Several readers may be let in  *)
(* by one step, because deferred_rwlock releases a whole list of requests  *)
(* at once.                                                                *)
(***************************************************************************)
CONSTANT Threads

VARIABLES readers,  \* the threads that hold the lock for reading
          writers   \* the threads that hold the lock for writing

vars == <<readers, writers>>

Init ==
  /\ readers = {}
  /\ writers = {}

GrantReaders(S) ==
  /\ S # {}
  /\ S \cap readers = {}
  /\ writers = {}
  /\ readers' = readers \cup S
  /\ UNCHANGED writers

GrantWriter(t) ==
  /\ readers = {}
  /\ writers = {}
  /\ writers' = {t}
  /\ UNCHANGED readers

LeaveReader(t) ==
  /\ t \in readers
  /\ readers' = readers \ {t}
  /\ UNCHANGED writers

LeaveWriter(t) ==
  /\ t \in writers
  /\ writers' = writers \ {t}
  /\ UNCHANGED readers

Next ==
  \/ \E S \in SUBSET Threads : GrantReaders(S)
  \/ \E t \in Threads : \/ GrantWriter(t)
                        \/ LeaveReader(t)
                        \/ LeaveWriter(t)

Spec == Init /\ [][Next]_vars
=============================================================================
