-------------------------------- MODULE Zyva --------------------------------
(***************************************************************************)
(* The runs of a standard test, emitted by litmus/skel.ml: n_exe instances *)
(* of zyva, the last one by the main thread itself, each of max_run runs   *)
(* of the test by N threads.  The instances share the array of processors  *)
(* the threads pin themselves to, which changes from one run to the next   *)
(* with random affinity (shuffled by instance 0) and with scan affinity    *)
(* (each instance copies its part of the next topology), and the flag      *)
(* stop_now that ends all of them early in "+sc" (speedcheck) mode.  Only  *)
(* p_barrier orders them, and it is waited for only in these two modes.    *)
(*                                                                         *)
(* p_barrier is modelled by what PthreadBarrier shows of it: arrived are   *)
(* the instances that wait; the last one to arrive lets them all go.       *)
(***************************************************************************)
EXTENDS Integers, FiniteSets

CONSTANTS n_exe, N, max_run, size_of_test,
          existential,   \* the condition is settled by a positive outcome
          all_cpus,      \* the processors, numbered from 0
          ncpus_used,
          cpu_scan       \* the processors of each topology, -1: none

ASSUME ZyvaAssumption ==
  /\ {n_exe, N} \subseteq Nat \ {0} /\ {max_run, size_of_test} \subseteq Nat
  /\ existential \in BOOLEAN

Zyvas == 0..(n_exe-1)
Threads == 0..(N-1)
NoCpu == -1

ncpus == Cardinality(DOMAIN all_cpus)
SCANSZ == Cardinality(DOMAIN cpu_scan)

(* As many processors as threads, or more, all different; a topology gives *)
(* a processor to one thread at most, and there is at least one topology.  *)
ASSUME CpusAssumption ==
  /\ ncpus \in Nat /\ all_cpus \in [0..(ncpus-1) -> Nat]
  /\ ncpus_used \in (N * n_exe)..ncpus
  /\ \A i, j \in DOMAIN all_cpus : all_cpus[i] = all_cpus[j] => i = j
  /\ SCANSZ \in Nat \ {0} /\ DOMAIN cpu_scan = 0..(SCANSZ-1)
  /\ \A x \in DOMAIN cpu_scan : \A i, j \in 0..(N*n_exe-1) :
       /\ cpu_scan[x][i] \in Nat \cup {NoCpu}
       /\ cpu_scan[x][i] = cpu_scan[x][j] => i = j \/ cpu_scan[x][i] = NoCpu

VARIABLES prm,         \* the parameters given by the command line, see Params
          pc,          \* control of each instance
          n_run,       \* its loop index
          arrived,     \* the instances that wait in p_barrier
          stop_now,
          cpus,        \* aff_cpus, instance z has cpus[N*z] to cpus[N*z+N-1]
          pinned,      \* the processor each test thread of an instance is bound to
          hist,        \* n_pos and n_neg of each instance
          main, total, \* main thread: instances joined, and merged histogram
          failed       \* fatal("sum_hist")

vars == <<prm, pc, n_run, arrived, stop_now, cpus, pinned, hist, main, total, failed>>

(* aff_mode is "random", "scan", or "fixed" for any other mode, speedcheck  *)
(* is the "+sc" option.                                                    *)
Params == [aff_mode : {"fixed", "random", "scan"}, speedcheck : BOOLEAN]
aff_mode == prm.aff_mode
speedcheck == prm.speedcheck

zero == [pos |-> 0, neg |-> 0]
unbound == [p \in Threads |-> NoCpu]

Init == /\ prm \in Params
        /\ pc = [z \in Zyvas |-> "start"]
        /\ n_run = [z \in Zyvas |-> 0]
        /\ arrived = {}
        /\ stop_now = FALSE
        /\ cpus = all_cpus
        /\ pinned = [z \in Zyvas |-> unbound]
        /\ hist = [z \in Zyvas |-> zero]
        /\ main = 0 /\ total = zero /\ failed = FALSE

pb_wait(z) == LET a == arrived \cup {z}
              IN  arrived' = IF a = Zyvas THEN {} ELSE a

At(z, l) == pc[z] = l /\ z \notin arrived

goto(z, l) == pc' = [pc EXCEPT ![z] = l]

-----------------------------------------------------------------------------

(* zyva begins.                                                            *)
Start(z) == /\ At(z, "start")
            /\ pb_wait(z)
            /\ goto(z, "loop")
            /\ UNCHANGED <<n_run, stop_now, cpus, pinned, hist, main, total, failed>>

(* The loop over runs ends, zyva returns its histogram.                    *)
LoopEnd(z) == /\ At(z, "loop")
              /\ n_run[z] = max_run
              /\ goto(z, "done")
              /\ UNCHANGED <<n_run, arrived, stop_now, cpus, pinned, hist, main, total, failed>>

\* the loop is left before the barrier, as in the other modes
Meet_Break(z) ==
  /\ At(z, "loop")
  /\ n_run[z] < max_run
  /\ aff_mode # "fixed"
  /\ IF stop_now THEN goto(z, "done") /\ UNCHANGED arrived
                 ELSE goto(z, "choose") /\ pb_wait(z)
  /\ UNCHANGED <<n_run, stop_now, cpus, pinned, hist, main, total, failed>>

\* the instances only meet once the processors are chosen
Meet_NoBarrier(z) ==
  /\ At(z, "loop")
  /\ n_run[z] < max_run
  /\ aff_mode # "fixed"
  /\ goto(z, "choose")
  /\ UNCHANGED <<n_run, arrived, stop_now, cpus, pinned, hist, main, total, failed>>

(* Random and scan affinity: all the instances meet before each run.       *)
Meet(z) == /\ At(z, "loop")
           /\ n_run[z] < max_run
           /\ aff_mode # "fixed"
           /\ pb_wait(z)
           /\ goto(z, "choose")
           /\ UNCHANGED <<n_run, stop_now, cpus, pinned, hist, main, total, failed>>

(* break, when some instance has settled the condition.                    *)
Break(z) == /\ \/ At(z, "loop") /\ n_run[z] < max_run /\ aff_mode = "fixed"
               \/ At(z, "choose")
            /\ stop_now
            /\ goto(z, "done")
            /\ UNCHANGED <<n_run, arrived, stop_now, cpus, pinned, hist, main, total, failed>>

(* No change of processors, hence no barrier.                              *)
Go(z) == /\ At(z, "loop")
         /\ n_run[z] < max_run
         /\ aff_mode = "fixed"
         /\ ~stop_now
         /\ goto(z, "run")
         /\ UNCHANGED <<n_run, arrived, stop_now, cpus, pinned, hist, main, total, failed>>

(* perm_prefix_ints: any permutation of the first ncpus_used processors.   *)
Shuffles == {f \in [DOMAIN cpus -> DOMAIN cpus] :
               /\ \A i, j \in DOMAIN cpus : f[i] = f[j] => i = j
               /\ \A i \in DOMAIN cpus : i >= ncpus_used => f[i] = i}

(* Random affinity: instance 0 shuffles the processors for all.            *)
ShuffleCpus(z) == /\ At(z, "choose")
                  /\ aff_mode = "random"
                  /\ ~stop_now
                  /\ IF z = 0
                     THEN \E f \in Shuffles : cpus' = [i \in DOMAIN cpus |-> cpus[f[i]]]
                     ELSE UNCHANGED cpus
                  /\ pb_wait(z)
                  /\ goto(z, "run")
                  /\ UNCHANGED <<n_run, stop_now, pinned, hist, main, total, failed>>

slice(z) == (N*z)..(N*z + N-1)

(* Scan affinity: each instance copies its part of the topology.           *)
ScanCpus(z) == /\ At(z, "choose")
               /\ aff_mode = "scan"
               /\ ~stop_now
               /\ cpus' = [i \in DOMAIN cpus |->
                             IF i \in slice(z) THEN cpu_scan[n_run[z] % SCANSZ][i]
                                               ELSE cpus[i]]
               /\ pb_wait(z)
               /\ goto(z, "run")
               /\ UNCHANGED <<n_run, stop_now, pinned, hist, main, total, failed>>

(* A test thread of instance z starts: it binds itself to its processor,   *)
(* and runs its part of the test.                                          *)
Pin(z, p) == /\ At(z, "run")
             /\ pinned[z][p] = NoCpu
             /\ cpus[N*z + p] # NoCpu
             /\ pinned' = [pinned EXCEPT ![z][p] = cpus[N*z + p]]
             /\ UNCHANGED <<pc, n_run, arrived, stop_now, cpus, hist, main, total, failed>>

settled(h) == IF existential THEN h.pos > 0 ELSE h.neg > 0

(* All its threads are joined: each iteration adds an outcome.  Standard   *)
(* and detached threads end here; cached ones would keep their mask.       *)
EndRun(z) ==
  \E pos \in 0..size_of_test :
    LET h == [pos |-> hist[z].pos + pos, neg |-> hist[z].neg + size_of_test - pos]
    IN  /\ At(z, "run")
        /\ \A p \in Threads : pinned[z][p] # NoCpu \/ cpus[N*z + p] = NoCpu
        /\ pinned' = [pinned EXCEPT ![z] = unbound]
        /\ hist' = [hist EXCEPT ![z] = h]
        /\ stop_now' = (stop_now \/ (speedcheck /\ settled(h)))
        /\ n_run' = [n_run EXCEPT ![z] = @ + 1]
        /\ goto(z, "loop")
        /\ UNCHANGED <<arrived, cpus, main, total, failed>>

(* All but the end of a run.                                               *)
Steps(z) == \/ Start(z) \/ LoopEnd(z) \/ Meet(z) \/ Break(z) \/ Go(z)
            \/ ShuffleCpus(z) \/ ScanCpus(z)
            \/ \E p \in Threads : Pin(z, p)

zyva(z) == Steps(z) \/ EndRun(z)

-----------------------------------------------------------------------------
(* The main thread, once its own zyva, the last one, has returned.         *)

n_outs == size_of_test * max_run

add(h, g) == [pos |-> h.pos + g.pos, neg |-> h.neg + g.neg]

wrong(h, n) == ~speedcheck /\ h.pos + h.neg # n

(* It joins the other instances in order, checks and merges.               *)
Join(z) == /\ pc[n_exe-1] = "done"
           /\ main = z /\ z < n_exe-1
           /\ pc[z] = "done"
           /\ failed' = (failed \/ wrong(hist[z], n_outs))
           /\ total' = add(total, hist[z])
           /\ main' = z + 1
           /\ UNCHANGED <<pc, n_run, arrived, stop_now, cpus, pinned, hist>>

(* It checks the sum.                                                      *)
Postlude == /\ pc[n_exe-1] = "done"
            /\ main = n_exe-1
            /\ LET sum == add(total, hist[n_exe-1])
               IN  /\ total' = sum
                   /\ failed' = (failed \/ wrong(sum, n_outs * n_exe))
            /\ main' = n_exe
            /\ UNCHANGED <<pc, n_run, arrived, stop_now, cpus, pinned, hist>>

Done == main = n_exe

Next == /\ \/ \E z \in Zyvas : zyva(z) \/ Join(z)
           \/ Postlude
           \/ Done /\ UNCHANGED vars
        /\ UNCHANGED prm

Spec == Init /\ [][Next]_vars

-----------------------------------------------------------------------------

(* No two test threads that run are bound to the same processor: the array *)
(* never changes under the threads of a run, and all the instances that    *)
(* run have taken their processors from the same topology or shuffle.      *)
DistinctCpus == \A y, z \in Zyvas, p, q \in Threads :
  pinned[y][p] = pinned[z][q] /\ pinned[y][p] # NoCpu => y = z /\ p = q

(* When the instances meet before each run, the break is taken by all of   *)
(* them or by none: one that has left the loop early leaves nobody behind  *)
(* to run, or to wait for it in p_barrier.                                 *)
StopTogether == aff_mode # "fixed" =>
  \A y, z \in Zyvas : pc[y] = "done" /\ n_run[y] < max_run =>
    /\ n_run[z] = n_run[y]
    /\ pc[z] \in {"choose", "done"} /\ z \notin arrived

(* The outcomes of the instances in S, told apart by their instance and a  *)
(* number up to the counter of that instance.                              *)
counted(counter, S) == UNION {{z} \X (1..counter[z]) : z \in S}

n_pos == [z \in Zyvas |-> hist[z].pos]
n_neg == [z \in Zyvas |-> hist[z].neg]

(* The histogram that is printed is the sum of those of the instances; the *)
(* sum_hist checks never fail; and the run was cut short only by an        *)
(* outcome, which the histogram has, that settles the condition.           *)
SumHist == /\ ~failed
           /\ Done => /\ total.pos = Cardinality(counted(n_pos, Zyvas))
                      /\ total.neg = Cardinality(counted(n_neg, Zyvas))
                      /\ \/ total.pos + total.neg = n_outs * n_exe
                         \/ speedcheck /\ settled(total)

(* The program ends, whatever the instances that settle the condition.     *)
Termination == <>Done

=============================================================================
