--------------------------- MODULE PthreadBarrier ---------------------------
(***************************************************************************)
(* pb_t: the barrier built from a pthread mutex and a condition variable   *)
(* (pb_create, pb_wait in litmus/libdir/_utils.c).  The generated test     *)
(* uses it where spinning would disturb the test: around check_globals,    *)
(* stabilize_globals and the choice of an affinity.                        *)
(*                                                                         *)
(* The mutex is held from the entry of pb_wait to its return, but while    *)
(* the thread sleeps in pthread_cond_wait, and nothing else reads or       *)
(* writes count and turn: what a thread does between two releases of the   *)
(* mutex is one action.  The condition variable may wake a thread up for   *)
(* no reason, and a thread that is woken up may have to wait long for the  *)
(* mutex while others re-enter the barrier.                                *)
(***************************************************************************)
EXTENDS Integers, FiniteSets

CONSTANTS Procs,    \* the participants, nprocs of them
          Rounds    \* calls of pb_wait that each participant makes

ASSUME ProcsAssumption == IsFiniteSet(Procs) /\ Procs # {}
ASSUME RoundsAssumption == Rounds \in Nat

VARIABLES count,    \* participants still to arrive
          turn,     \* reversed when an episode ends
          pc,       \* "out", "blocked" in pthread_cond_wait, "woken",
                    \* or "last" to arrive, about to return
          t,        \* each thread's local copy of turn
          round     \* calls of pb_wait each thread has completed

vars == <<count, turn, pc, t, round>>

nprocs == Cardinality(Procs)

pb_create == /\ count = nprocs
             /\ turn = 0

Init == /\ pb_create
        /\ pc = [p \in Procs |-> "out"]
        /\ t = [p \in Procs |-> 0]
        /\ round = [p \in Procs |-> 0]

\* pthread_cond_signal instead of pthread_cond_broadcast
pc_broadcast_Signal == LET q == CHOOSE q \in Procs : pc[q] = "blocked"
                       IN  IF \E r \in Procs : pc[r] = "blocked"
                           THEN [pc EXCEPT ![q] = "woken"] ELSE pc

(* pthread_cond_broadcast: every sleeping thread competes for the mutex.   *)
pc_broadcast == [q \in Procs |-> IF pc[q] = "blocked" THEN "woken" ELSE pc[q]]

-----------------------------------------------------------------------------
(* Slips that a rewriting of pb_wait could make.                           *)

\* the counter is left at zero
ArriveLast_NoReset(p) == /\ pc[p] = "out"
                         /\ round[p] < Rounds
                         /\ count = 1
                         /\ count' = 0
                         /\ turn' = 1 - turn
                         /\ t' = [t EXCEPT ![p] = turn]
                         /\ pc' = [pc_broadcast EXCEPT ![p] = "last"]
                         /\ UNCHANGED round

\* "if" instead of "do ... while": a spurious wake up is taken for the real one
Return_NoTest(p) == /\ pc[p] = "woken"
                    /\ pc' = [pc EXCEPT ![p] = "out"]
                    /\ round' = [round EXCEPT ![p] = @ + 1]
                    /\ UNCHANGED <<count, turn, t>>

-----------------------------------------------------------------------------

(* Not the last to arrive: go to sleep.                                    *)
Arrive(p) == /\ pc[p] = "out"
             /\ round[p] < Rounds
             /\ count # 1
             /\ count' = count - 1
             /\ t' = [t EXCEPT ![p] = turn]
             /\ pc' = [pc EXCEPT ![p] = "blocked"]
             /\ UNCHANGED <<turn, round>>

(* The last to arrive starts the next episode and wakes the others up.     *)
ArriveLast(p) == /\ pc[p] = "out"
                 /\ round[p] < Rounds
                 /\ count = 1
                 /\ count' = nprocs
                 /\ turn' = 1 - turn
                 /\ t' = [t EXCEPT ![p] = turn]
                 /\ pc' = [pc_broadcast EXCEPT ![p] = "last"]
                 /\ UNCHANGED round

(* ... and then it returns.                                                *)
ReturnLast(p) == /\ pc[p] = "last"
                 /\ pc' = [pc EXCEPT ![p] = "out"]
                 /\ round' = [round EXCEPT ![p] = @ + 1]
                 /\ UNCHANGED <<count, turn, t>>

(* pthread_cond_wait returns although nobody called pc_broadcast.          *)
SpuriousWakeup(p) == /\ pc[p] = "blocked"
                     /\ pc' = [pc EXCEPT ![p] = "woken"]
                     /\ UNCHANGED <<count, turn, t, round>>

(* while (p->turn == t): the episode is not over, sleep again.             *)
SleepAgain(p) == /\ pc[p] = "woken"
                 /\ turn = t[p]
                 /\ pc' = [pc EXCEPT ![p] = "blocked"]
                 /\ UNCHANGED <<count, turn, t, round>>

(* The episode is over: unlock and return.                                 *)
Return(p) == /\ pc[p] = "woken"
             /\ turn # t[p]
             /\ pc' = [pc EXCEPT ![p] = "out"]
             /\ round' = [round EXCEPT ![p] = @ + 1]
             /\ UNCHANGED <<count, turn, t>>

pb_wait(p) == \/ Arrive(p)
              \/ ArriveLast(p)
              \/ ReturnLast(p)
              \/ SleepAgain(p)
              \/ Return(p)

Next == \E p \in Procs : pb_wait(p) \/ SpuriousWakeup(p)

Spec == Init /\ [][Next]_vars

(* A thread that wants the mutex gets it in the end: each critical section *)
(* is short and a thread releases the mutex before it can want it again.   *)
(* Nothing makes a spurious wake up happen.                                *)
FairSpec == Spec /\ \A p \in Procs : WF_vars(pb_wait(p))

-----------------------------------------------------------------------------

(* Values each variable can take.                                          *)
TypeOK == /\ count \in 1..nprocs
          /\ turn \in {0, 1}
          /\ pc \in [Procs -> {"out", "blocked", "woken", "last"}]
          /\ t \in [Procs -> {0, 1}]
          /\ round \in [Procs -> 0..Rounds]

(* The threads inside pb_wait, those whose episode is not over, and those  *)
(* whose episode is over but that have not noticed it yet.                 *)
Inside == {p \in Procs : pc[p] # "out"}
Waiting == {p \in Inside : t[p] = turn}
Released == Inside \ Waiting

episode(p) == IF p \in Released THEN round[p] + 1 ELSE round[p]

(* The counter is what remains to arrive.                                  *)
CountRemaining == count = nprocs - Cardinality(Waiting)

(* All threads are in the same episode, although turn is a single bit.     *)
SameEpisode == \A p, q \in Procs : episode(p) = episode(q)

(* A thread inside pb_wait is within its loop.                             *)
WithinLoop == \A p \in Inside : round[p] < Rounds

(* No wake up is lost: a thread sleeps only if its episode is not over,    *)
(* and the thread that ended an episode need not look at turn again.       *)
NoLostWakeup == \A p \in Procs : /\ pc[p] = "blocked" => p \in Waiting
                                 /\ pc[p] = "last" => p \in Released

(* The inductive invariant of pb_wait.                                     *)
PbInv == /\ TypeOK
         /\ CountRemaining
         /\ SameEpisode
         /\ WithinLoop
         /\ NoLostWakeup

(* pb_wait is a barrier, whatever the spurious wake ups ("The following    *)
(* code should protect us against spurious wake ups").                     *)
Abstract == INSTANCE Barrier WITH round <- round, inside <- Inside

ImplementsBarrier == Abstract!Spec

(* Every thread performs all its calls.                                    *)
AllRoundsDone == <>(\A p \in Procs : round[p] = Rounds)

=============================================================================
