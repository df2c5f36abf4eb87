---------------------------- MODULE MCStabilize ----------------------------
(* Bounds: 3 threads, so that a ring comparison is not a plain one, and 2  *)
(* stores, by the same thread or not, of the same value or not.            *)
EXTENDS Stabilize
=============================================================================
