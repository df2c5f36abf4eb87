----------------------------- MODULE ThreadPool -----------------------------
(***************************************************************************)
(* The cache of threads of litmus/libdir/_utils.c: launch_cached,          *)
(* pool_put, pool_get, zyva_cache, with the one place buffers op_t through *)
(* which results are joined, and the client that the generated test is     *)
(* (litmus/skel.ml): main launches the instances of the test but the last, *)
(* which it runs itself; an instance (zyva) launches the threads of the    *)
(* test (P), joins them, and does so Runs times.                           *)
(*                                                                         *)
(* Jobs depend on each other: the P's of a run wait for each other in the  *)
(* barriers of the test, and the instances wait for each other before each *)
(* run.  So a job must never be queued behind one that is running.         *)
(*                                                                         *)
(* What is done under the mutex of the pool between two releases of it is  *)
(* one action.  pool_put creates the thread after the release: a thread    *)
(* that has a job and has not "started" may not exist yet.                 *)
(***************************************************************************)
EXTENDS Integers, Sequences, FiniteSets

CONSTANTS NExe,     \* n_exe: number of instances
          N,        \* threads of the test in each instance
          Runs,     \* max_run
          MaxThreads  \* bound on the number of threads ever created

ASSUME SizesAssumption == NExe \in Nat \ {0} /\ N \in Nat \ {0} /\ Runs \in Nat
ASSUME MaxThreadsAssumption == MaxThreads \in Nat

VARIABLES n_pool, n_out, n_thread,   \* counters of the pool
          t,                         \* table of waiting jobs, a stack
          th,                        \* control of each pool thread
          job,                       \* the job a thread has
          op,                        \* the one place buffer of each job
          pc, run, k                 \* control of main and of the instances

pool == <<n_pool, n_out, n_thread, t, th, job>>
client == <<pc, run, k>>
vars == <<pool, op, client>>

Threads == 1..MaxThreads      \* pool threads, in the order of their creation
Exes == 0..(NExe-1)
Procs == 0..(N-1)
last == NExe - 1              \* the instance that main runs itself

Zyvas == {<<"zyva", e>> : e \in 0..(NExe-2)}
Ps == {<<"P", e, p>> : e \in Exes, p \in Procs}
Jobs == Zyvas \cup Ps
NoJob == <<>>

(* Threads that exist, that have a job, that are waiting for one.          *)
Alive == {i \in Threads : th[i] # "none"}
Busy == {i \in Threads : th[i] \in {"starting", "running", "put"}}
Idle == {i \in Threads : th[i] \in {"blocked", "woken"}}

Init == /\ n_pool = 0 /\ n_out = 0 /\ n_thread = 0
        /\ t = <<>>
        /\ th = [i \in Threads |-> "none"]
        /\ job = [i \in Threads |-> NoJob]
        /\ op = [j \in Jobs |-> "none"]
        /\ pc = [e \in Exes |-> "off"]
        /\ run = [e \in Exes |-> 0]
        /\ k = [e \in Exes |-> 0]

-----------------------------------------------------------------------------

\* the caller does not reserve a thread
pool_put_NoReserve(j) ==
  \/ /\ n_pool <= 0
     /\ n_thread < MaxThreads
     /\ n_out' = n_out + 1 /\ n_thread' = n_thread + 1
     /\ th' = [th EXCEPT ![n_thread + 1] = "starting"]
     /\ job' = [job EXCEPT ![n_thread + 1] = j]
     /\ UNCHANGED <<n_pool, t>>
  \/ /\ n_pool > 0
     /\ t' = Append(t, j)
     /\ th' = [i \in Threads |-> IF th[i] = "blocked" THEN "woken" ELSE th[i]]
     /\ UNCHANGED <<n_pool, n_out, n_thread, job>>

\* nobody is woken up
pool_put_NoBroadcast(j) ==
  \/ /\ n_pool <= 0
     /\ n_thread < MaxThreads
     /\ n_out' = n_out + 1 /\ n_thread' = n_thread + 1
     /\ th' = [th EXCEPT ![n_thread + 1] = "starting"]
     /\ job' = [job EXCEPT ![n_thread + 1] = j]
     /\ UNCHANGED <<n_pool, t>>
  \/ /\ n_pool > 0
     /\ t' = Append(t, j)
     /\ n_pool' = n_pool - 1
     /\ UNCHANGED <<n_out, n_thread, th, job>>

(* pool_put: with no thread to spare, launch a new one; otherwise push the *)
(* job, reserve one thread, and wake all of them up.                       *)
pool_put(j) ==
  \/ /\ n_pool <= 0
     /\ n_thread < MaxThreads
     /\ n_out' = n_out + 1 /\ n_thread' = n_thread + 1
     /\ th' = [th EXCEPT ![n_thread + 1] = "starting"]
     /\ job' = [job EXCEPT ![n_thread + 1] = j]
     /\ UNCHANGED <<n_pool, t>>
  \/ /\ n_pool > 0
     /\ t' = Append(t, j)
     /\ n_pool' = n_pool - 1
     /\ th' = [i \in Threads |-> IF th[i] = "blocked" THEN "woken" ELSE th[i]]
     /\ UNCHANGED <<n_out, n_thread, job>>

(* launch_cached: a fresh buffer, and pool_put.                            *)
launch_cached(j) == /\ op' = [op EXCEPT ![j] = "empty"]
                    /\ pool_put(j)

(* join_detached: op_get waits for the result, op_free gives the buffer    *)
(* back.                                                                   *)
join_detached(j) == /\ op[j] = "full"
                    /\ op' = [op EXCEPT ![j] = "none"]

-----------------------------------------------------------------------------
(* What a pool thread does.                                                *)

(* f(a) is called.                                                         *)
StartJob(i) == /\ th[i] = "starting"
               /\ th' = [th EXCEPT ![i] = "running"]
               /\ IF job[i] \in Zyvas
                  THEN pc' = [pc EXCEPT ![job[i][2]] = "sync"]
                  ELSE UNCHANGED pc
               /\ UNCHANGED <<n_pool, n_out, n_thread, t, job, op, run, k>>

Running(j) == \E i \in Threads : th[i] = "running" /\ job[i] = j

(* A P gets through the barriers of the test when all the P's of its run   *)
(* have been launched and have started.  An instance returns when its runs *)
(* are over.                                                               *)
MayReturn(j) ==
  IF j \in Zyvas THEN pc[j[2]] = "done"
  ELSE /\ pc[j[2]] = "join"
       /\ \A p \in Procs : op[<<"P", j[2], p>>] = "empty" => Running(<<"P", j[2], p>>)

(* f(a) returns and its result is put in the buffer.  op_set stops the     *)
(* program if the buffer is not empty: see SetOnce.                        *)
op_set(i) == /\ th[i] = "running"
             /\ MayReturn(job[i])
             /\ op' = [op EXCEPT ![job[i]] = "full"]
             /\ th' = [th EXCEPT ![i] = "put"]
             /\ UNCHANGED <<n_pool, n_out, n_thread, t, job, client>>

(* table_pop.                                                              *)
top == t[Len(t)]

\* the job is read but not popped
rest_NotPopped == t

rest == SubSeq(t, 1, Len(t) - 1)

\* a thread that comes back is still counted as out
pool_get_StillOut(i) ==
  /\ th[i] = "put"
  /\ n_pool' = n_pool + 1
  /\ IF t = <<>>
     THEN /\ th' = [th EXCEPT ![i] = "blocked"]
          /\ job' = [job EXCEPT ![i] = NoJob]
          /\ UNCHANGED <<n_out, t>>
     ELSE /\ n_out' = n_out + 1
          /\ th' = [th EXCEPT ![i] = "starting"]
          /\ job' = [job EXCEPT ![i] = top]
          /\ t' = rest
  /\ UNCHANGED <<n_thread, op, client>>

(* pool_get, up to the release of the mutex: the thread is counted in the  *)
(* pool, and then takes a job if there is one, or sleeps.                  *)
pool_get(i) ==
  /\ th[i] = "put"
  /\ n_pool' = n_pool + 1
  /\ IF t = <<>>
     THEN /\ n_out' = n_out - 1
          /\ th' = [th EXCEPT ![i] = "blocked"]
          /\ job' = [job EXCEPT ![i] = NoJob]
          /\ UNCHANGED t
     ELSE /\ n_out' = n_out - 1 + 1
          /\ th' = [th EXCEPT ![i] = "starting"]
          /\ job' = [job EXCEPT ![i] = top]
          /\ t' = rest
  /\ UNCHANGED <<n_thread, op, client>>

(* pc_wait returns for no reason.                                          *)
SpuriousWakeup(i) == /\ th[i] = "blocked"
                     /\ th' = [th EXCEPT ![i] = "woken"]
                     /\ UNCHANGED <<n_pool, n_out, n_thread, t, job, op, client>>

(* while (pool->t->next <= 0) pc_wait: another thread was faster.          *)
SleepAgain(i) == /\ th[i] = "woken"
                 /\ t = <<>>
                 /\ th' = [th EXCEPT ![i] = "blocked"]
                 /\ UNCHANGED <<n_pool, n_out, n_thread, t, job, op, client>>

(* The end of pool_get: the thread pops a job.                             *)
PopJob(i) == /\ th[i] = "woken"
             /\ t # <<>>
             /\ n_out' = n_out + 1
             /\ th' = [th EXCEPT ![i] = "starting"]
             /\ job' = [job EXCEPT ![i] = top]
             /\ t' = rest
             /\ UNCHANGED <<n_pool, n_thread, op, client>>

zyva_cache(i) == \/ StartJob(i) \/ op_set(i) \/ pool_get(i)
                 \/ SleepAgain(i) \/ PopJob(i)

-----------------------------------------------------------------------------
(* What main and the instances do.  k counts down the N jobs of a run.     *)

(* main launches instance k, or runs the last one.                         *)
LaunchZyva == /\ pc[last] = "off"
              /\ \/ /\ k[last] < last
                    /\ launch_cached(<<"zyva", k[last]>>)
                    /\ k' = [k EXCEPT ![last] = @ + 1]
                    /\ UNCHANGED <<pc, run>>
                 \/ /\ k[last] = last
                    /\ pc' = [pc EXCEPT ![last] = "sync"]
                    /\ k' = [k EXCEPT ![last] = 0]
                    /\ UNCHANGED <<pool, op, run>>

(* pb_wait(_a->p_barrier): wait for the other instances before a run.      *)
SyncRun(e) == /\ pc[e] = "sync"
              /\ run[e] < Runs
              /\ \A f \in Exes : pc[f] # "off" /\ run[f] >= run[e]
              /\ pc' = [pc EXCEPT ![e] = "launch"]
              /\ k' = [k EXCEPT ![e] = N - 1]
              /\ UNCHANGED <<pool, op, run>>

(* for (_p = NT-1 ; _p >= 0 ; _p--) op[_p] = launch_cached(...)            *)
LaunchP(e) == /\ pc[e] = "launch"
              /\ launch_cached(<<"P", e, k[e]>>)
              /\ IF k[e] > 0
                 THEN k' = [k EXCEPT ![e] = @ - 1] /\ UNCHANGED pc
                 ELSE /\ k' = [k EXCEPT ![e] = N - 1]
                      /\ pc' = [pc EXCEPT ![e] = "join"]
              /\ UNCHANGED run

(* for (_p = NT-1 ; _p >= 0 ; _p--) join_detached(op[_p])                  *)
JoinP(e) == /\ pc[e] = "join"
            /\ join_detached(<<"P", e, k[e]>>)
            /\ IF k[e] > 0
               THEN k' = [k EXCEPT ![e] = @ - 1] /\ UNCHANGED <<pc, run>>
               ELSE /\ k' = [k EXCEPT ![e] = 0]
                    /\ pc' = [pc EXCEPT ![e] = "sync"]
                    /\ run' = [run EXCEPT ![e] = @ + 1]
            /\ UNCHANGED pool

(* The runs are over: the instance returns; main goes on to join.          *)
EndZyva(e) == /\ pc[e] = "sync"
              /\ run[e] = Runs
              /\ pc' = [pc EXCEPT ![e] = "done"]
              /\ UNCHANGED <<pool, op, run, k>>

(* main joins the other instances.                                         *)
JoinZyva == /\ pc[last] = "done"
            /\ k[last] < last
            /\ join_detached(<<"zyva", k[last]>>)
            /\ k' = [k EXCEPT ![last] = @ + 1]
            /\ UNCHANGED <<pool, pc, run>>

main == LaunchZyva \/ JoinZyva
zyva(e) == SyncRun(e) \/ LaunchP(e) \/ JoinP(e) \/ EndZyva(e)

Finished == pc[last] = "done" /\ k[last] = last

(* main returns and the threads of the pool die with the program.          *)
Exit == Finished /\ UNCHANGED vars

Next == \/ \E i \in Threads : zyva_cache(i) \/ SpuriousWakeup(i)
        \/ \E e \in Exes : zyva(e)
        \/ main
        \/ Exit

Spec == Init /\ [][Next]_vars

(* Every thread of the program that can run does so in the end.            *)
FairSpec == /\ Spec
            /\ \A i \in Threads : WF_vars(zyva_cache(i))
            /\ \A e \in Exes : WF_vars(zyva(e))
            /\ WF_vars(main)

-----------------------------------------------------------------------------

(* Values each variable can take.                                          *)
PoolTypeOK == /\ n_pool \in Int /\ n_out \in Int /\ n_thread \in 0..MaxThreads
              /\ t \in Seq(Jobs)
              /\ th \in [Threads -> {"none", "starting", "running", "put",
                                     "blocked", "woken"}]
              /\ job \in [Threads -> Jobs \cup {NoJob}]

ClientTypeOK == /\ op \in [Jobs -> {"none", "empty", "full"}]
                /\ pc \in [Exes -> {"off", "sync", "launch", "join", "done"}]
                /\ run \in [Exes -> 0..Runs]
                /\ k \in [Exes -> Nat]
                /\ \A e \in Exes : pc[e] \in {"launch", "join"} =>
                                    k[e] \in Procs /\ run[e] < Runs

TypeOK == PoolTypeOK /\ ClientTypeOK

(* The counters mean what their comments say: n_thread threads exist, of   *)
(* which n_out run a job and n_pool wait for one, and one more waits for   *)
(* each job of the table: no job is queued behind a running one.           *)
PoolInv == /\ Alive = 1..n_thread
           /\ n_out = Cardinality(Busy)
           /\ n_pool + Len(t) = Cardinality(Idle)
           /\ n_pool >= 0

(* What pool_status tests ("Cache pool invariant violation").              *)
PoolStatus == n_pool + n_out + Len(t) = n_thread

(* No lost wake up: with a job in the table, nobody sleeps.                *)
NobodySleeps == t # <<>> => \A i \in Threads : th[i] # "blocked"

(* A job is in one place only, the table or a thread, and as long as it    *)
(* is, its buffer is empty: op_set never stops the program.                *)
Places(j) == Cardinality({i \in Threads : th[i] \in {"starting", "running"} /\ job[i] = j})
             + Cardinality({n \in 1..Len(t) : t[n] = j})

SetOnce == \A j \in Jobs : Places(j) = IF op[j] = "empty" THEN 1 ELSE 0

(* The inductive invariant of the pool.                                    *)
IInv == TypeOK /\ PoolInv /\ NobodySleeps

(* The program comes to its end, although jobs wait for each other.        *)
Termination == <>Finished

=============================================================================
