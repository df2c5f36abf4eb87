--------------------------- MODULE MCUserBarrier ---------------------------
(* Bounds: 3 threads and enough indices for each flag of user2 to be used  *)
(* more than once with each value; strides that do not divide the size.    *)
EXTENDS UserBarrier

(* The combinations that work, with the adaptive stride N and without.     *)
working == {[compact |-> FALSE, stride |-> 3], [compact |-> FALSE, stride |-> 1],
            [compact |-> TRUE, stride |-> 1]}

user2Stride == {[compact |-> TRUE, stride |-> 2]}
=============================================================================
