---------------------------- MODULE Conditional ----------------------------
(***************************************************************************)
(* conditional (delete-me/conditional.hpp) as the modules that use it see  *)
(* it: the set of the threads that sleep in wait().  A signal with nobody  *)
(* asleep is lost, and a sleeper may wake without a signal, of which the   *)
(* class warns its callers.  mutex is taken for what it promises; a        *)
(* critical section whose variables no one touches without the mutex is    *)
(* one step of the modules below.                                          *)
(***************************************************************************)

\* The sets of sleepers that one signal may leave behind.
AfterSignal(asleep) ==
  IF asleep = {} THEN {asleep} ELSE {asleep \ {t} : t \in asleep}

\* The sleepers that a broadcast leaves behind.
AfterBroadcast(asleep) == asleep \ asleep
=============================================================================
