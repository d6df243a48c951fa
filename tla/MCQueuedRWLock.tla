--------------------------- MODULE MCQueuedRWLock ---------------------------
(* Three threads, each free to lock for reading or writing again and again; *)
(* the byte that readlock leaves uninitialised is zero or garbage each time *)
(* it is compared, or happens to be zero every time.                        *)
EXTENDS QueuedRWLock

AnyPadding  == {0, 1}
ZeroPadding == {0}
=============================================================================
