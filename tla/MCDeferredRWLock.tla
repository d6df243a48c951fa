-------------------------- MODULE MCDeferredRWLock --------------------------
(* Four threads, each free to call any of the four lock operations.         *)
EXTENDS DeferredRWLock
=============================================================================
