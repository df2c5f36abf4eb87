--------------------------- MODULE MCSenseBarrier ---------------------------
(* Bounds: 3 threads, so that two waiters race with each other and with    *)
(* the last one, and 4 episodes, so that each sense is used twice.         *)
EXTENDS SenseBarrier
=============================================================================
