---------------------------- MODULE MCThreadPool ----------------------------
(* Bounds: two instances of two threads nest jobs in jobs, and two runs    *)
(* launch the same jobs again on threads that come back in any order.      *)
(* There are never more than five jobs at a time, hence MaxThreads: a      *)
(* launch that would create a sixth thread, because one that has put its   *)
(* result is not back in the pool yet, waits for it to be back.            *)
EXTENDS ThreadPool
=============================================================================
