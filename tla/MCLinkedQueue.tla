--------------------------- MODULE MCLinkedQueue ---------------------------
(* LinkedQueue with three goroutines, any of which may push, pull or close. *)
EXTENDS LinkedQueue
CONSTANTS t1, t2, t3, v1, v2

MCThreads == {t1, t2, t3}
MCValues == {v1, v2}
=============================================================================
