------------------------- MODULE MCLockfreePushBack -------------------------
(* Three threads and three positions in a container of one: pushes of one   *)
(* element and of two, some of which fit with their first element only,     *)
(* resize it up to twice, while one query of either kind or one push of     *)
(* nothing runs.                                                            *)
EXTENDS LockfreePushBack
=============================================================================
