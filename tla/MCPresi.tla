------------------------------ MODULE MCPresi ------------------------------
(* Bounds: two roles, at most two instances, and two runs of two           *)
(* iterations, so that a run follows another under the same and under      *)
(* another topology; there are idle processors in a topology of each test. *)
EXTENDS Presi, TLC

idle == <<NoRole, NoRole>>

(* Two topologies, the second one without the second instance, whose       *)
(* allocation failed there; the most barriers.                             *)
scan == [place |->
           (0 :> (0 :> <<0, 0>> @@ 1 :> <<0, 1>> @@ 2 :> <<1, 0>> @@ 3 :> <<1, 1>>))
        @@ (1 :> (0 :> <<0, 1>> @@ 1 :> idle @@ 2 :> <<0, 0>> @@ 3 :> idle)),
         have_cache |-> TRUE, have_globals |-> TRUE]

(* No topology information; the fewest barriers.                           *)
flat == [place |-> 0 :> (0 :> <<0, 0>> @@ 1 :> <<0, 1>> @@ 2 :> idle @@ 3 :> idle),
         have_cache |-> FALSE, have_globals |-> FALSE]

scanAndFlat == {scan, flat}
=============================================================================
