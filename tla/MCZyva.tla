------------------------------- MODULE MCZyva -------------------------------
(* Bounds: two instances of a test of two threads, three runs, so that the *)
(* second topology is followed by the first one again; one more processor  *)
(* than the threads need.  The second topology places the second instance  *)
(* nowhere, and the first one where the second was.  Outcomes of two       *)
(* values that share some of them.                                         *)
EXTENDS ZyvaHist, TLC

cpus5 == [i \in 0..4 |-> 10 + i]

scan2 == 0 :> (0 :> 10 @@ 1 :> 11 @@ 2 :> 12 @@ 3 :> 13)
      @@ 1 :> (0 :> 12 @@ 1 :> 13 @@ 2 :> -1 @@ 3 :> -1)

out(x, y) == 0 :> x @@ 1 :> y
outcomes3 == {out(0, 0), out(1, 0), out(0, 1)}
positive1 == {out(1, 0)}
=============================================================================
