------------------------------ MODULE Barrier ------------------------------
(***************************************************************************)
(* What a reusable barrier promises to the threads of a litmus test: the   *)
(* abstract specification that sense_t (litmus/libdir/_*/barrier.c) and    *)
(* pb_t (litmus/libdir/_utils.c) are shown to implement.                   *)
(*                                                                         *)
(* A thread calls the barrier once per iteration of its loop.  round[p] is *)
(* the number of calls that p has completed; inside holds the threads that *)
(* have arrived and have not returned yet.                                 *)
(***************************************************************************)
EXTENDS Integers

CONSTANTS Procs,   \* the participants
          Rounds   \* how many times each participant calls the barrier

VARIABLES round, inside

bvars == <<round, inside>>

Init == /\ round = [p \in Procs |-> 0]
        /\ inside = {}

(* p calls the barrier.                                                    *)
Arrive(p) == /\ p \notin inside
             /\ round[p] < Rounds
             /\ inside' = inside \cup {p}
             /\ UNCHANGED round

(* q has arrived for the call of the barrier that p is in.                 *)
HasArrived(q, p) == \/ round[q] > round[p]
                    \/ round[q] = round[p] /\ q \in inside

(* p returns, which it may do only once every participant has arrived.     *)
Leave(p) == /\ p \in inside
            /\ \A q \in Procs : HasArrived(q, p)
            /\ inside' = inside \ {p}
            /\ round' = [round EXCEPT ![p] = @ + 1]

Next == \E p \in Procs : Arrive(p) \/ Leave(p)

Spec == Init /\ [][Next]_bvars

============================================================================
