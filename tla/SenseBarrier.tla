---------------------------- MODULE SenseBarrier ----------------------------
(***************************************************************************)
(* sense_t: the sense-reversing spin barrier that the generated C uses to  *)
(* synchronise the threads of a test: barrier_wait, written once for each  *)
(* architecture (litmus/libdir/_*/barrier.c), and the sense_wait of kernel *)
(* modules (kbarrier-tb.txt).                                              *)
(*                                                                         *)
(* Each access of shared memory is one action.  The fences of the code     *)
(* (dmb, sync, mfence) keep those accesses in program order, so they       *)
(* interleave.  The load/store-exclusive loop that decrements the counter  *)
(* is one atomic decrement: a failed store-exclusive changes nothing.      *)
(***************************************************************************)
EXTENDS Integers, FiniteSets

CONSTANTS Procs,    \* threads of the test: barrier_init is called with n = N
          Rounds    \* iterations of the test loop, one barrier_wait in each

ASSUME ProcsAssumption == IsFiniteSet(Procs) /\ Procs # {}
ASSUME RoundsAssumption == Rounds \in Nat

(* The texts of barrier_wait.  They differ in the test for the last thread *)
(* (a signed "less or equal", or an equality) and in how the sense is      *)
(* reversed: by a subtraction, by a test for zero, or by the complement of *)
(* all the bits of the word, which takes 0 to -1.                          *)
AArch64 == [le |-> TRUE,  reverse |-> [x \in {0, 1} |-> 1 - x]]
X86     == [le |-> FALSE, reverse |-> [x \in {0, 1} |-> IF x = 0 THEN 1 ELSE 0]]
ARM     == [le |-> FALSE, reverse |-> [x \in {0, -1} |-> -x - 1]]
PPC     == [le |-> FALSE, reverse |-> [x \in {0, -1} |-> -x - 1]]
MIPS    == [le |-> FALSE, reverse |-> [x \in {0, 1} |-> 1 - x]]
RISCV   == [le |-> FALSE, reverse |-> [x \in {0, 1} |-> 1 - x]]
Linux   == [le |-> FALSE, reverse |-> [x \in {0, 1} |-> 1 - x]]

Texts == {AArch64, X86, ARM, PPC, MIPS, RISCV, Linux}

VARIABLES text,     \* the text of barrier_wait that is executed
          c,        \* participants still to arrive, shared
          sense,    \* the sense of the current episode, shared
          pc,       \* control of each thread
          ms,       \* each thread's local copy of sense ([ms] in the code)
          round     \* calls of barrier_wait each thread has completed

vars == <<text, c, sense, pc, ms, round>>

n == Cardinality(Procs)

Senses == DOMAIN text.reverse

isLast(k) == IF text.le THEN k <= 0 ELSE k = 0

(* barrier_init, called before any thread of the test is started.          *)
barrier_init == /\ c = n
                /\ sense = 0

Init == /\ text \in Texts
        /\ barrier_init
        /\ pc = [p \in Procs |-> "body"]
        /\ ms = [p \in Procs |-> 0]
        /\ round = [p \in Procs |-> 0]

goto(p, l) == pc' = [pc EXCEPT ![p] = l]

return(p) == /\ goto(p, "body")
             /\ round' = [round EXCEPT ![p] = @ + 1]

-----------------------------------------------------------------------------
(* Slips that a rewriting of barrier_wait could make; each one is used to  *)
(* show that a property below notices it.                                  *)

\* the last thread forgets to reset the counter
ResetCount_Forgotten(p) == /\ pc[p] = "reset"
                           /\ goto(p, "flip")
                           /\ UNCHANGED <<text, c, sense, ms, round>>

\* the branch lets the last but one thread through
Decrement_OffByOne(p) == /\ pc[p] = "dec"
                         /\ c' = c - 1
                         /\ goto(p, IF isLast(c - 2) THEN "reset" ELSE "spin")
                         /\ UNCHANGED <<text, sense, ms, round>>

\* the sense is set instead of being reversed
FlipSense_NotReversed(p) == /\ pc[p] = "flip"
                            /\ sense' = text.reverse[0]
                            /\ return(p)
                            /\ UNCHANGED <<text, c, ms>>

-----------------------------------------------------------------------------

(* int sense = p->sense;                                                   *)
ReadSense(p) == /\ pc[p] = "body"
                /\ round[p] < Rounds
                /\ ms' = [ms EXCEPT ![p] = sense]
                /\ goto(p, "dec")
                /\ UNCHANGED <<text, c, sense, round>>

(* The atomic decrement, and the branch on its result.                     *)
Decrement(p) == /\ pc[p] = "dec"
                /\ c' = c - 1
                /\ goto(p, IF isLast(c - 1) THEN "reset" ELSE "spin")
                /\ UNCHANGED <<text, sense, ms, round>>

(* while (p->sense == sense);  An iteration that reads the old sense does  *)
(* not change the state.                                                   *)
SpinExit(p) == /\ pc[p] = "spin"
               /\ sense # ms[p]
               /\ return(p)
               /\ UNCHANGED <<text, c, sense, ms>>

(* The last thread to arrive: p->c = p->n ...                              *)
ResetCount(p) == /\ pc[p] = "reset"
                 /\ c' = n
                 /\ goto(p, "flip")
                 /\ UNCHANGED <<text, sense, ms, round>>

(* ... and then p->sense is reversed, which lets the others go.              *)
FlipSense(p) == /\ pc[p] = "flip"
                /\ sense' = text.reverse[ms[p]]
                /\ return(p)
                /\ UNCHANGED <<text, c, ms>>

barrier_wait(p) == \/ ReadSense(p)
                   \/ Decrement(p)
                   \/ SpinExit(p)
                   \/ ResetCount(p)
                   \/ FlipSense(p)

Next == \E p \in Procs : barrier_wait(p)

Spec == Init /\ [][Next]_vars

(* Each thread runs on a processor of its own and keeps executing.         *)
FairSpec == Spec /\ \A p \in Procs : WF_vars(barrier_wait(p))

-----------------------------------------------------------------------------

Labels == {"body", "dec", "spin", "reset", "flip"}

(* Values each variable can take.                                          *)
TypeOK == /\ text \in Texts
          /\ c \in 0..n
          /\ sense \in Senses
          /\ pc \in [Procs -> Labels]
          /\ ms \in [Procs -> Senses]
          /\ round \in [Procs -> Nat]

(* Threads that have decremented the counter and have not returned.        *)
Inside == {p \in Procs : pc[p] \in {"spin", "reset", "flip"}}

(* Those that arrived for the episode whose sense is the current one.      *)
Waiting == {p \in Inside : ms[p] = sense}

(* Those whose episode is over: the sense has been flipped, but they have  *)
(* not read it yet.                                                        *)
Released == Inside \ Waiting

(* The episode that p takes part in, or will take part in next.            *)
episode(p) == IF p \in Released THEN round[p] + 1 ELSE round[p]

(* A thread about to decrement works with the current sense.               *)
FreshSense == \A p \in Procs : pc[p] = "dec" => ms[p] = sense

(* A thread that resets the barrier does so with everyone waiting in it.   *)
ResetAlone == \A p \in Procs : pc[p] \in {"reset", "flip"} =>
                 /\ Waiting = Procs
                 /\ \A q \in Procs \ {p} : pc[q] = "spin"

(* The counter is what remains to arrive, but between the two stores of    *)
(* the last thread.                                                        *)
CountRemaining == IF \E p \in Procs : pc[p] = "flip"
                  THEN c = n
                  ELSE c = n - Cardinality(Waiting)

(* All threads are in the same episode.                                    *)
SameEpisode == \A p, q \in Procs : episode(p) = episode(q)

(* A call of the barrier belongs to an iteration of the test loop.         *)
WithinLoop == \A p \in Procs : pc[p] # "body" => round[p] < Rounds

(* The inductive invariant of barrier_wait.                                *)
BarrierInv == /\ TypeOK
              /\ FreshSense
              /\ ResetAlone
              /\ CountRemaining
              /\ SameEpisode
              /\ WithinLoop

(* barrier_wait is a barrier: a thread returns from its k-th call only     *)
(* after every thread has made its k-th call, although the barrier is      *)
(* re-entered at once by the threads that are let go first.                *)
Abstract == INSTANCE Barrier WITH round <- round, inside <- Inside

ImplementsBarrier == Abstract!Spec

(* Every thread performs all its iterations: nobody spins forever on a     *)
(* sense that has been flipped back before it looked.                      *)
AllRoundsDone == <>(\A p \in Procs : round[p] = Rounds)

=============================================================================
