-------------------------- MODULE ThreadPoolProofs --------------------------
(***************************************************************************)
(* The accounting of the cache of threads is right for every number of     *)
(* instances, of threads of the test and of runs: pool_status never stops  *)
(* the program, and every job of the table has a thread that waits.        *)
(***************************************************************************)
EXTENDS ThreadPool, FiniteSetTheorems, SequenceTheorems, TLAPS

(* The sets of threads are finite.                                         *)
LEMMA FiniteThreads ==
  ASSUME NEW S \in SUBSET Threads
  PROVE  IsFiniteSet(S) /\ Cardinality(S) \in Nat
  <1>1. IsFiniteSet(Threads)
    BY MaxThreadsAssumption, FS_Interval DEF Threads
  <1>2. IsFiniteSet(S)
    BY <1>1, FS_Subset
  <1> QED
    BY <1>2, FS_CardinalityType

(* A thread joins one of the counted sets.                                 *)
LEMMA CountIn ==
  ASSUME NEW S \in SUBSET Threads, NEW i \in Threads, i \notin S
  PROVE  Cardinality(S \cup {i}) = Cardinality(S) + 1
  BY FiniteThreads, FS_AddElement

(* A thread leaves one of the counted sets.                                *)
LEMMA CountOut ==
  ASSUME NEW S \in SUBSET Threads, NEW i \in S
  PROVE  Cardinality(S \ {i}) = Cardinality(S) - 1
  BY FiniteThreads, FS_RemoveElement

(* The jobs are launched in the table with the identity they have there.   *)
LEMMA LaunchedJobs ==
  ASSUME ClientTypeOK
  PROVE  /\ last \in Exes
         /\ k[last] < last => <<"zyva", k[last]>> \in Jobs
         /\ \A e \in Exes : pc[e] \in {"launch", "join"} => <<"P", e, k[e]>> \in Jobs
  <1>1. last \in Exes
    BY SizesAssumption DEF last, Exes
  <1>2. k[last] < last => k[last] \in 0..(NExe-2)
    BY <1>1, SizesAssumption DEF ClientTypeOK, last
  <1> QED
    BY <1>1, <1>2 DEF ClientTypeOK, Jobs, Zyvas, Ps

(* table_pop.                                                              *)
LEMMA TablePop ==
  ASSUME t \in Seq(Jobs), t # <<>>
  PROVE  /\ top \in Jobs
         /\ rest \in Seq(Jobs)
         /\ Len(rest) = Len(t) - 1
  <1>1. Len(t) \in Nat /\ Len(t) > 0
    BY EmptySeq, LenProperties
  <1>2. top \in Jobs
    BY <1>1, ElementOfSeq DEF top
  <1>3. 1 \in 1..(Len(t) + 1) /\ Len(t) - 1 \in (1 - 1)..Len(t)
    BY <1>1
  <1>4. /\ SubSeq(t, 1, Len(t) - 1) \in Seq(Jobs)
        /\ Len(SubSeq(t, 1, Len(t) - 1)) =
             IF 1 <= Len(t) - 1 THEN Len(t) - 1 - 1 + 1 ELSE 0
    BY <1>3, SubSeqProperties
  <1>5. ASSUME NEW l \in Nat, l > 0
        PROVE  (IF 1 <= l - 1 THEN l - 1 - 1 + 1 ELSE 0) = l - 1
    <2>1. CASE 1 <= l - 1
      <3>1. l - 1 - 1 + 1 = l - 1
        BY <1>5
      <3> QED
        BY <2>1, <3>1, Zenon
    <2>2. CASE ~(1 <= l - 1)
      <3>1. l - 1 = 0
        BY <1>5, <2>2
      <3> QED
        BY <2>2, <3>1, Zenon
    <2> QED
      BY <2>1, <2>2
  <1>6. Len(SubSeq(t, 1, Len(t) - 1)) = Len(t) - 1
    BY <1>1, <1>4, <1>5
  <1> QED
    BY <1>2, <1>4, <1>6, Zenon DEF rest

-----------------------------------------------------------------------------

(* Initially there are no threads and no jobs.                             *)
LEMMA InitInv == Init => IInv
  <1> SUFFICES ASSUME Init PROVE IInv
    OBVIOUS
  <1>1. PoolTypeOK
    BY MaxThreadsAssumption DEF Init, PoolTypeOK
  <1>2. ClientTypeOK
    BY SizesAssumption DEF Init, ClientTypeOK
  <1>3. Alive = {} /\ Busy = {} /\ Idle = {} /\ 1..n_thread = {}
    BY DEF Init, Alive, Busy, Idle
  <1>4. PoolInv
    BY <1>3, FS_EmptySet DEF PoolInv, Init
  <1> QED
    BY <1>1, <1>2, <1>4 DEF IInv, TypeOK, NobodySleeps, Init

(* A step that leaves the pool alone.                                      *)
LEMMA PoolUnchanged ==
  ASSUME IInv, UNCHANGED pool
  PROVE  PoolTypeOK' /\ PoolInv' /\ NobodySleeps'
  BY DEF IInv, TypeOK, pool, PoolTypeOK, PoolInv, NobodySleeps, Alive, Busy, Idle

(* pool_put keeps the accounts, whether it creates a thread or not.        *)
LEMMA PutInv ==
  ASSUME IInv, NEW j \in Jobs, pool_put(j)
  PROVE  PoolTypeOK' /\ PoolInv' /\ NobodySleeps'
  <1> USE DEF IInv, TypeOK
  <1> DEFINE new == n_thread + 1
  <1>1. CASE /\ n_pool <= 0
             /\ n_thread < MaxThreads
             /\ n_out' = n_out + 1 /\ n_thread' = n_thread + 1
             /\ th' = [th EXCEPT ![n_thread + 1] = "starting"]
             /\ job' = [job EXCEPT ![n_thread + 1] = j]
             /\ UNCHANGED <<n_pool, t>>
    <2>1. new \in Threads /\ new \notin Alive
      BY <1>1, MaxThreadsAssumption DEF Threads, PoolInv, PoolTypeOK
    <2>2. th[new] = "none" /\ new \notin Busy
      BY <2>1 DEF Alive, Busy
    <2>3. /\ Alive' = Alive \cup {new}
          /\ Busy' = Busy \cup {new}
          /\ Idle' = Idle
      BY <1>1, <2>1, <2>2 DEF Alive, Busy, Idle, PoolTypeOK
    <2>4. Cardinality(Busy') = Cardinality(Busy) + 1
      BY <2>1, <2>2, <2>3, CountIn DEF Busy
    <2>5. Alive' = 1..n_thread'
      BY <1>1, <2>3 DEF PoolInv, PoolTypeOK
    <2>6. PoolTypeOK'
      BY <1>1, <2>1, MaxThreadsAssumption DEF PoolTypeOK
    <2>7. PoolInv'
      BY <1>1, <2>3, <2>4, <2>5 DEF PoolInv
    <2>8. NobodySleeps'
      BY <1>1, <2>1 DEF NobodySleeps, PoolTypeOK
    <2> QED
      BY <2>6, <2>7, <2>8
  <1>2. CASE /\ n_pool > 0
             /\ t' = Append(t, j)
             /\ n_pool' = n_pool - 1
             /\ th' = [i \in Threads |-> IF th[i] = "blocked" THEN "woken" ELSE th[i]]
             /\ UNCHANGED <<n_out, n_thread, job>>
    <2>1. Alive' = Alive /\ Busy' = Busy /\ Idle' = Idle
      BY <1>2 DEF Alive, Busy, Idle, PoolTypeOK
    <2>2. t' \in Seq(Jobs) /\ Len(t') = Len(t) + 1 /\ Len(t) \in Nat
      BY <1>2, AppendProperties, LenProperties DEF PoolTypeOK
    <2>3. PoolTypeOK'
      BY <1>2, <2>2 DEF PoolTypeOK
    <2>4. PoolInv'
      BY <1>2, <2>1, <2>2 DEF PoolInv, PoolTypeOK
    <2>5. NobodySleeps'
      BY <1>2 DEF NobodySleeps, PoolTypeOK
    <2> QED
      BY <2>3, <2>4, <2>5
  <1> QED
    BY <1>1, <1>2 DEF pool_put

(* A thread moves between states that are counted alike.                   *)
LEMMA MoveInv ==
  ASSUME IInv, NEW i \in Threads, NEW a, NEW b,
         \/ a = "starting" /\ b = "running"
         \/ a = "running" /\ b = "put"
         \/ a = "blocked" /\ b = "woken"
         \/ a = "woken" /\ b = "blocked" /\ t = <<>>,
         th[i] = a, th' = [th EXCEPT ![i] = b],
         UNCHANGED <<n_pool, n_out, n_thread, t, job>>
  PROVE  PoolTypeOK' /\ PoolInv' /\ NobodySleeps'
  <1> USE DEF IInv, TypeOK
  <1>1. Alive' = Alive /\ Busy' = Busy /\ Idle' = Idle
    BY DEF Alive, Busy, Idle, PoolTypeOK
  <1>2. PoolTypeOK'
    BY DEF PoolTypeOK
  <1>3. PoolInv'
    BY <1>1 DEF PoolInv
  <1>4. NobodySleeps'
    BY DEF NobodySleeps, PoolTypeOK
  <1> QED
    BY <1>2, <1>3, <1>4

(* A thread that comes back to the pool, and finds a job or not.           *)
LEMMA GetInv ==
  ASSUME IInv, NEW i \in Threads, pool_get(i)
  PROVE  PoolTypeOK' /\ PoolInv' /\ NobodySleeps'
  <1> USE DEF IInv, TypeOK
  <1>1. i \in Busy /\ i \notin Idle /\ Busy \in SUBSET Threads /\ Idle \in SUBSET Threads
    BY DEF pool_get, Busy, Idle
  <1>2. CASE t = <<>>
    <2>1. /\ th' = [th EXCEPT ![i] = "blocked"]
          /\ n_pool' = n_pool + 1 /\ n_out' = n_out - 1
          /\ n_thread' = n_thread /\ t' = t
          /\ job' = [job EXCEPT ![i] = NoJob]
      BY <1>2 DEF pool_get
    <2>2. Alive' = Alive /\ Busy' = Busy \ {i} /\ Idle' = Idle \cup {i}
      BY <2>1, <1>1 DEF Alive, Busy, Idle, PoolTypeOK
    <2>3. /\ Cardinality(Busy') = Cardinality(Busy) - 1
          /\ Cardinality(Idle') = Cardinality(Idle) + 1
      BY <2>2, <1>1, CountIn, CountOut
    <2>4. PoolTypeOK'
      BY <2>1 DEF PoolTypeOK
    <2>5. PoolInv'
      <3>1. Len(t) \in Nat
        BY LenProperties DEF PoolTypeOK
      <3>2. Cardinality(Busy) \in Nat /\ Cardinality(Idle) \in Nat
        BY <1>1, FiniteThreads
      <3> QED
        BY <2>1, <2>2, <2>3, <3>1, <3>2 DEF PoolInv, PoolTypeOK
    <2>6. NobodySleeps'
      BY <1>2, <2>1 DEF NobodySleeps
    <2> QED
      BY <2>4, <2>5, <2>6
  <1>3. CASE t # <<>>
    <2>1. /\ th' = [th EXCEPT ![i] = "starting"]
          /\ n_pool' = n_pool + 1 /\ n_out' = n_out - 1 + 1
          /\ n_thread' = n_thread /\ t' = rest
          /\ job' = [job EXCEPT ![i] = top]
      BY <1>3 DEF pool_get
    <2>2. Alive' = Alive /\ Busy' = Busy /\ Idle' = Idle
      BY <2>1, <1>1 DEF Alive, Busy, Idle, PoolTypeOK
    <2>3. top \in Jobs /\ rest \in Seq(Jobs) /\ Len(rest) = Len(t) - 1 /\ Len(t) \in Nat
      BY <1>3, TablePop, LenProperties DEF PoolTypeOK
    <2>4. PoolTypeOK'
      BY <2>1, <2>3 DEF PoolTypeOK
    <2>5. PoolInv'
      BY <2>1, <2>2, <2>3 DEF PoolInv, PoolTypeOK
    <2>6. NobodySleeps'
      BY <1>3, <2>1 DEF NobodySleeps, PoolTypeOK
    <2> QED
      BY <2>4, <2>5, <2>6
  <1> QED
    BY <1>2, <1>3

(* A waiting thread takes a job.                                           *)
LEMMA PopInv ==
  ASSUME IInv, NEW i \in Threads, PopJob(i)
  PROVE  PoolTypeOK' /\ PoolInv' /\ NobodySleeps'
  <1> USE DEF IInv, TypeOK
  <1>1. i \in Idle /\ i \notin Busy /\ Busy \in SUBSET Threads /\ Idle \in SUBSET Threads
    BY DEF PopJob, Busy, Idle
  <1>2. /\ th' = [th EXCEPT ![i] = "starting"]
        /\ n_pool' = n_pool /\ n_out' = n_out + 1
        /\ n_thread' = n_thread /\ t' = rest /\ t # <<>>
        /\ job' = [job EXCEPT ![i] = top]
    BY DEF PopJob
  <1>3. Alive' = Alive /\ Busy' = Busy \cup {i} /\ Idle' = Idle \ {i}
    BY <1>1, <1>2 DEF Alive, Busy, Idle, PoolTypeOK
  <1>4. /\ Cardinality(Busy') = Cardinality(Busy) + 1
        /\ Cardinality(Idle') = Cardinality(Idle) - 1
    BY <1>1, <1>3, CountIn, CountOut
  <1>5. top \in Jobs /\ rest \in Seq(Jobs) /\ Len(rest) = Len(t) - 1 /\ Len(t) \in Nat
    BY <1>2, TablePop, LenProperties DEF PoolTypeOK
  <1>6. PoolTypeOK'
    BY <1>2, <1>5 DEF PoolTypeOK
  <1>7. PoolInv'
    <2>1. Cardinality(Busy) \in Nat /\ Cardinality(Idle) \in Nat
      BY <1>1, FiniteThreads
    <2> QED
      BY <2>1, <1>2, <1>3, <1>4, <1>5 DEF PoolInv, PoolTypeOK
  <1>8. NobodySleeps'
    BY <1>2 DEF NobodySleeps, PoolTypeOK
  <1> QED
    BY <1>6, <1>7, <1>8

-----------------------------------------------------------------------------

(* What a pool thread does.                                                *)
LEMMA ThreadInv ==
  ASSUME IInv, NEW i \in Threads, zyva_cache(i) \/ SpuriousWakeup(i)
  PROVE  IInv'
  <1> USE DEF IInv, TypeOK
  <1>1. CASE StartJob(i)
    <2>1. PoolTypeOK' /\ PoolInv' /\ NobodySleeps'
      BY <1>1, MoveInv DEF StartJob
    <2>2. \/ UNCHANGED pc
          \/ pc' = [pc EXCEPT ![job[i][2]] = "sync"]
      BY <1>1 DEF StartJob
    <2>3. ClientTypeOK'
      BY <1>1, <2>2 DEF StartJob, ClientTypeOK
    <2> QED
      BY <2>1, <2>3
  <1>2. CASE op_set(i)
    <2>1. PoolTypeOK' /\ PoolInv' /\ NobodySleeps'
      BY <1>2, MoveInv DEF op_set
    <2>2. ClientTypeOK'
      BY <1>2 DEF op_set, ClientTypeOK, client
    <2> QED
      BY <2>1, <2>2
  <1>3. CASE pool_get(i)
    BY <1>3, GetInv DEF pool_get, ClientTypeOK, client
  <1>4. CASE SleepAgain(i)
    BY <1>4, MoveInv DEF SleepAgain, ClientTypeOK, client
  <1>5. CASE PopJob(i)
    BY <1>5, PopInv DEF PopJob, ClientTypeOK, client
  <1>6. CASE SpuriousWakeup(i)
    BY <1>6, MoveInv DEF SpuriousWakeup, ClientTypeOK, client
  <1> QED
    BY <1>1, <1>2, <1>3, <1>4, <1>5, <1>6 DEF zyva_cache

(* What an instance does.                                                  *)
LEMMA ZyvaInv ==
  ASSUME IInv, NEW e \in Exes, zyva(e)
  PROVE  IInv'
  <1> USE DEF IInv, TypeOK
  <1>1. CASE SyncRun(e)
    <2>1. ClientTypeOK'
      BY <1>1, SizesAssumption DEF SyncRun, ClientTypeOK, Procs
    <2> QED
      BY <1>1, <2>1, PoolUnchanged DEF SyncRun
  <1>2. CASE LaunchP(e)
    <2>1. PoolTypeOK' /\ PoolInv' /\ NobodySleeps'
      BY <1>2, LaunchedJobs, PutInv DEF LaunchP, launch_cached
    <2>2. op' \in [Jobs -> {"none", "empty", "full"}] /\ run' = run
      BY <1>2 DEF LaunchP, launch_cached, ClientTypeOK
    <2>3. k[e] \in Procs /\ run[e] < Runs
      BY <1>2 DEF LaunchP, ClientTypeOK
    <2>4. CASE k[e] > 0
      <3>1. k' = [k EXCEPT ![e] = k[e] - 1] /\ pc' = pc
        BY <1>2, <2>4 DEF LaunchP
      <3>2. k[e] - 1 \in Nat /\ k[e] - 1 \in Procs
        BY <2>3, <2>4, SizesAssumption DEF Procs
      <3> QED
        BY <3>1, <3>2, <2>1, <2>2 DEF ClientTypeOK
    <2>5. CASE ~(k[e] > 0)
      <3>1. k' = [k EXCEPT ![e] = N - 1] /\ pc' = [pc EXCEPT ![e] = "join"]
        BY <1>2, <2>5 DEF LaunchP
      <3>2. N - 1 \in Nat /\ N - 1 \in Procs
        BY SizesAssumption DEF Procs
      <3> QED
        BY <3>1, <3>2, <2>1, <2>2, <2>3 DEF ClientTypeOK
    <2> QED
      BY <2>4, <2>5
  <1>3. CASE JoinP(e)
    <2>1. PoolTypeOK' /\ PoolInv' /\ NobodySleeps'
      BY <1>3, PoolUnchanged DEF JoinP
    <2>2. op' \in [Jobs -> {"none", "empty", "full"}]
      BY <1>3 DEF JoinP, join_detached, ClientTypeOK
    <2>3. k[e] \in Procs /\ run[e] < Runs /\ run[e] \in 0..Runs
      BY <1>3 DEF JoinP, ClientTypeOK
    <2>4. CASE k[e] > 0
      <3>1. k' = [k EXCEPT ![e] = k[e] - 1] /\ pc' = pc /\ run' = run
        BY <1>3, <2>4 DEF JoinP
      <3>2. k[e] - 1 \in Nat /\ k[e] - 1 \in Procs
        BY <2>3, <2>4, SizesAssumption DEF Procs
      <3> QED
        BY <3>1, <3>2, <2>1, <2>2 DEF ClientTypeOK
    <2>5. CASE ~(k[e] > 0)
      <3>1. /\ k' = [k EXCEPT ![e] = 0]
            /\ pc' = [pc EXCEPT ![e] = "sync"]
            /\ run' = [run EXCEPT ![e] = run[e] + 1]
        BY <1>3, <2>5 DEF JoinP
      <3>2. run[e] + 1 \in 0..Runs
        BY <2>3, SizesAssumption
      <3> QED
        BY <3>1, <3>2, <2>1, <2>2 DEF ClientTypeOK
    <2> QED
      BY <2>4, <2>5
  <1>4. CASE EndZyva(e)
    <2>1. ClientTypeOK'
      BY <1>4 DEF EndZyva, ClientTypeOK
    <2> QED
      BY <1>4, <2>1, PoolUnchanged DEF EndZyva
  <1> QED
    BY <1>1, <1>2, <1>3, <1>4 DEF zyva

(* What main does.                                                         *)
LEMMA MainInv ==
  ASSUME IInv, main
  PROVE  IInv'
  <1> USE DEF IInv, TypeOK
  <1>1. last \in Exes
    BY LaunchedJobs
  <1>2. ASSUME k[last] < last, launch_cached(<<"zyva", k[last]>>),
               k' = [k EXCEPT ![last] = @ + 1], UNCHANGED <<pc, run>>,
               pc[last] = "off"
        PROVE  IInv'
    <2>1. PoolTypeOK' /\ PoolInv' /\ NobodySleeps'
      BY <1>2, LaunchedJobs, PutInv DEF launch_cached
    <2>2. op' \in [Jobs -> {"none", "empty", "full"}]
      BY <1>2 DEF ClientTypeOK, launch_cached
    <2>3. k[last] + 1 \in Nat /\ k' = [k EXCEPT ![last] = k[last] + 1]
      BY <1>1, <1>2 DEF ClientTypeOK
    <2>4. k' \in [Exes -> Nat] /\ \A e \in Exes \ {last} : k'[e] = k[e]
      BY <1>1, <2>3 DEF ClientTypeOK
    <2>5. ClientTypeOK'
      BY <1>2, <2>2, <2>4 DEF ClientTypeOK
    <2> QED
      BY <2>1, <2>5
  <1>3. ASSUME pc' = [pc EXCEPT ![last] = "sync"],
               k' = [k EXCEPT ![last] = 0], UNCHANGED <<pool, op, run>>
        PROVE  IInv'
    <2>1. ClientTypeOK'
      BY <1>1, <1>3 DEF ClientTypeOK
    <2> QED
      BY <1>3, <2>1, PoolUnchanged
  <1>4. CASE LaunchZyva
    BY <1>2, <1>3, <1>4 DEF LaunchZyva
  <1>5. CASE JoinZyva
    <2>1. op' \in [Jobs -> {"none", "empty", "full"}]
      BY <1>5 DEF JoinZyva, join_detached, ClientTypeOK
    <2>2. k[last] + 1 \in Nat /\ k' = [k EXCEPT ![last] = k[last] + 1]
      BY <1>1, <1>5 DEF JoinZyva, ClientTypeOK
    <2>3. k' \in [Exes -> Nat] /\ \A e \in Exes \ {last} : k'[e] = k[e]
      BY <1>1, <2>2 DEF ClientTypeOK
    <2>4. ClientTypeOK'
      BY <1>5, <2>1, <2>3 DEF JoinZyva, ClientTypeOK
    <2> QED
      BY <1>5, <2>4, PoolUnchanged DEF JoinZyva
  <1> QED
    BY <1>4, <1>5 DEF main

(* IInv is inductive.                                                      *)
LEMMA NextInv == IInv /\ [Next]_vars => IInv'
  <1> SUFFICES ASSUME IInv, [Next]_vars PROVE IInv'
    OBVIOUS
  <1>1. CASE UNCHANGED vars
    BY <1>1, PoolUnchanged DEF vars, client, IInv, TypeOK, ClientTypeOK
  <1> QED
    BY <1>1, ThreadInv, ZyvaInv, MainInv DEF Next, Exit

(* The counters of the pool mean what their comments say, at every moment  *)
(* the mutex is free, for every number of instances, threads and runs.     *)
THEOREM PoolInvariant == Spec => []IInv
  BY InitInv, NextInv, PTL DEF Spec

(* Each job of the table has an idle thread reserved for it (no job waits  *)
(* for a running one to end), and that thread is awake: pool_put and       *)
(* pool_get lose neither a job nor a wake up.                              *)
THEOREM NoJobWaits == Spec => []PoolInv /\ []NobodySleeps
  <1>1. IInv => PoolInv /\ NobodySleeps
    BY DEF IInv
  <1> QED
    BY <1>1, PoolInvariant, PTL

(* No lost wake up: pool_put, under the mutex, wakes up every thread that  *)
(* sleeps, and a thread only goes to sleep when it sees the table empty.   *)
THEOREM NoLostWakeup == Spec => []NobodySleeps
  BY NoJobWaits, PTL

(* The sum of the counters follows from what they count.                   *)
LEMMA CountersAddUp == IInv => PoolStatus
  <1> SUFFICES ASSUME IInv PROVE PoolStatus
    OBVIOUS
  <1> USE DEF IInv, TypeOK, PoolInv
  <1>1. n_thread \in Nat
    BY MaxThreadsAssumption DEF PoolTypeOK
  <1>2. Cardinality(Alive) = n_thread
    BY <1>1, FS_Interval
  <1>3. Alive = Busy \cup Idle /\ Busy \cap Idle = {}
    BY DEF Alive, Busy, Idle, PoolTypeOK
  <1>4. Busy \in SUBSET Threads /\ Idle \in SUBSET Threads
    BY DEF Busy, Idle
  <1>5. Cardinality(Alive) = Cardinality(Busy) + Cardinality(Idle)
    <2>1. /\ IsFiniteSet(Busy) /\ Cardinality(Busy) \in Nat
          /\ IsFiniteSet(Idle) /\ Cardinality(Idle) \in Nat
      BY <1>4, FiniteThreads
    <2>2. Cardinality(Busy \cup Idle)
            = Cardinality(Busy) + Cardinality(Idle) - Cardinality(Busy \cap Idle)
      BY <2>1, FS_Union
    <2>3. Cardinality(Busy \cap Idle) = 0
      BY <1>3, FS_EmptySet
    <2>4. Cardinality(Alive) = Cardinality(Busy \cup Idle)
      BY <1>3, Zenon
    <2> QED
      BY <2>1, <2>2, <2>3, <2>4
  <1>6. Len(t) \in Nat
    BY LenProperties DEF PoolTypeOK
  <1> QED
    BY <1>1, <1>2, <1>5, <1>6 DEF PoolStatus, PoolTypeOK

(* pool_status never stops the program with "Cache pool invariant          *)
(* violation": it is called with the mutex held, where the counters of the *)
(* last state have changed, if at all, by amounts that cancel out.         *)
THEOREM PoolStatusHolds == Spec => []PoolStatus
  BY PoolInvariant, CountersAddUp, PTL

-----------------------------------------------------------------------------
(* Where the jobs are.                                                     *)

Others == 0..(NExe-2)     \* the instances that main launches
holding(i) == th[i] \in {"starting", "running"}

(* No job is held by two threads, or twice in the table, or both.          *)
OnePlace ==
  /\ \A i, l \in Threads : holding(i) /\ holding(l) /\ job[i] = job[l] => i = l
  /\ \A m, n \in 1..Len(t) : t[m] = t[n] => m = n
  /\ \A i \in Threads, n \in 1..Len(t) : holding(i) => job[i] # t[n]
  /\ \A i \in Threads : holding(i) => job[i] \in Jobs

Given(j) == \/ \E i \in Threads : holding(i) /\ job[i] = j
            \/ \E n \in 1..Len(t) : t[n] = j

(* The jobs in the pool are those that have an empty buffer.               *)
EmptyBuffers == \A j \in Jobs : op[j] = "empty" <=> Given(j)

Unstarted(j) == \/ \E i \in Threads : th[i] = "starting" /\ job[i] = j
                \/ \E n \in 1..Len(t) : t[n] = j

(* An instance that nobody has begun to run has no control yet.            *)
NotStarted == \A e \in Others : Unstarted(<<"zyva", e>>) => pc[e] = "off"

(* What is not launched, or is joined, has no buffer: the threads p of an  *)
(* instance, in the order of the loops over them, and the instances.       *)
NoBuffers ==
  /\ \A e \in Exes, p \in Procs : op[<<"P", e, p>>] # "none" =>
       (pc[e] = "launch" /\ p > k[e]) \/ (pc[e] = "join" /\ p <= k[e])
  /\ \A e \in Others : pc[last] = "off" /\ e >= k[last] =>
       op[<<"zyva", e>>] = "none" /\ pc[e] = "off"

PlacesInv == OnePlace /\ EmptyBuffers /\ NotStarted /\ NoBuffers

(* The jobs of the instances and of their threads are all different.       *)
LEMMA DistinctJobs ==
  /\ \A e \in Others : <<"zyva", e>> \in Jobs /\ e \in Exes /\ e # last
  /\ \A e \in Exes, p \in Procs : <<"P", e, p>> \in Jobs /\ <<"P", e, p>> \notin Zyvas
  /\ \A e \in Others, f \in Exes, p \in Procs : <<"zyva", e>> # <<"P", f, p>>
  /\ \A e, f \in Others : <<"zyva", e>> = <<"zyva", f>> => e = f
  /\ \A e, f \in Exes, p, q \in Procs : <<"P", e, p>> = <<"P", f, q>> => e = f /\ p = q
  /\ \A j \in Zyvas : j[2] \in Others /\ j = <<"zyva", j[2]>>
  /\ \A j \in Jobs : j \notin Zyvas =>
       j[2] \in Exes /\ j[3] \in Procs /\ j = <<"P", j[2], j[3]>>
  <1>1. \A e \in Others : <<"zyva", e>> \in Jobs /\ e \in Exes /\ e # last
    BY SizesAssumption DEF Others, Jobs, Zyvas, Exes, last
  <1>2. \A e \in Exes, p \in Procs : <<"P", e, p>> \in Jobs /\ <<"P", e, p>> \notin Zyvas
    BY DEF Jobs, Ps, Zyvas
  <1>3. /\ \A j \in Zyvas : j[2] \in Others /\ j = <<"zyva", j[2]>>
        /\ \A j \in Jobs : j \notin Zyvas =>
             j[2] \in Exes /\ j[3] \in Procs /\ j = <<"P", j[2], j[3]>>
    BY DEF Jobs, Ps, Zyvas, Others
  <1> QED
    BY <1>1, <1>2, <1>3

(* The entries of the table after a push and after a pop.                  *)
LEMMA TableEntries ==
  ASSUME t \in Seq(Jobs)
  PROVE  /\ Len(t) \in Nat
         /\ \A n \in 1..Len(t) : t[n] \in Jobs
         /\ \A j \in Jobs : /\ Len(Append(t, j)) = Len(t) + 1
                            /\ \A n \in 1..Len(t) : Append(t, j)[n] = t[n]
                            /\ Append(t, j)[Len(t) + 1] = j
         /\ t # <<>> => /\ Len(t) > 0 /\ Len(rest) = Len(t) - 1
                        /\ \A n \in 1..(Len(t) - 1) : rest[n] = t[n]
  <1>1. Len(t) \in Nat /\ \A n \in 1..Len(t) : t[n] \in Jobs
    BY LenProperties, ElementOfSeq
  <1>2. \A j \in Jobs : /\ Len(Append(t, j)) = Len(t) + 1
                        /\ \A n \in 1..Len(t) : Append(t, j)[n] = t[n]
                        /\ Append(t, j)[Len(t) + 1] = j
    BY AppendProperties
  <1>3. ASSUME t # <<>>
        PROVE  /\ Len(t) > 0 /\ Len(rest) = Len(t) - 1
               /\ \A n \in 1..(Len(t) - 1) : rest[n] = t[n]
    <2>1. Len(t) > 0
      BY <1>1, <1>3, EmptySeq
    <2>2. Len(rest) = Len(t) - 1
      BY <1>3, TablePop
    <2>3. \A n \in 1..(Len(t) - 1) : SubSeq(t, 1, Len(t) - 1)[n] = t[n]
      BY <1>1, <2>1
    <2> QED
      BY <2>1, <2>2, <2>3 DEF rest
  <1> QED
    BY <1>1, <1>2, <1>3

(* Initially no job is anywhere.                                           *)
LEMMA InitPlaces == Init => PlacesInv
  <1> SUFFICES ASSUME Init PROVE PlacesInv
    OBVIOUS
  <1>1. OnePlace /\ EmptyBuffers /\ NotStarted
    BY DEF Init, OnePlace, EmptyBuffers, NotStarted, Unstarted, Given, holding
  <1>2. NoBuffers
    BY DistinctJobs DEF Init, NoBuffers
  <1> QED
    BY <1>1, <1>2 DEF PlacesInv

(* launch_cached puts a job that is nowhere in one place.                  *)
LEMMA LaunchPlaces ==
  ASSUME IInv, PlacesInv, NEW j \in Jobs, op[j] = "none", launch_cached(j),
         \A e \in Others : pc[e] = "off" => pc'[e] = "off",
         \A e \in Others : j = <<"zyva", e>> => pc[e] = "off"
  PROVE  OnePlace' /\ EmptyBuffers' /\ NotStarted'
  <1> USE DEF IInv, TypeOK, PlacesInv
  <1>1. /\ t \in Seq(Jobs) /\ th \in [Threads -> {"none", "starting", "running", "put",
                                                   "blocked", "woken"}]
        /\ job \in [Threads -> Jobs \cup {NoJob}]
        /\ op \in [Jobs -> {"none", "empty", "full"}]
        /\ op' = [op EXCEPT ![j] = "empty"]
        /\ pool_put(j)
    BY DEF PoolTypeOK, ClientTypeOK, launch_cached
  <1>2. ~Given(j)
    BY DEF EmptyBuffers
  <1>3. CASE /\ th' = [th EXCEPT ![n_thread + 1] = "starting"]
             /\ job' = [job EXCEPT ![n_thread + 1] = j]
             /\ t' = t /\ n_thread < MaxThreads
    <2> DEFINE new == n_thread + 1
    <2>1. new \in Threads /\ new \notin Alive
      BY <1>3, MaxThreadsAssumption DEF Threads, PoolInv, PoolTypeOK
    <2>2. th[new] = "none"
      BY <2>1 DEF Alive
    <2> HIDE DEF new
    <2>3. /\ th' = [th EXCEPT ![new] = "starting"]
          /\ job' = [job EXCEPT ![new] = j] /\ t' = t
      BY <1>3 DEF new
    <2>4. /\ th'[new] = "starting" /\ job'[new] = j
          /\ \A i \in Threads : i # new => job'[i] = job[i] /\ th'[i] = th[i]
      BY <1>1, <2>1, <2>3, Zenon
    <2>5. OnePlace'
      BY <1>2, <2>1, <2>2, <2>3, <2>4 DEF OnePlace, Given, holding
    <2>6. \A l \in Jobs : Given(l)' <=> Given(l) \/ l = j
      BY <2>1, <2>2, <2>3, <2>4, Zenon DEF Given, holding
    <2>7. EmptyBuffers'
      BY <1>1, <2>6 DEF EmptyBuffers
    <2>8. \A l \in Jobs : Unstarted(l)' => Unstarted(l) \/ l = j
      BY <2>1, <2>2, <2>3, <2>4, Zenon DEF Unstarted
    <2>9. NotStarted'
      BY <2>8, DistinctJobs, Zenon DEF NotStarted
    <2> QED
      BY <2>5, <2>7, <2>9
  <1>4. CASE /\ t' = Append(t, j) /\ job' = job
             /\ th' = [i \in Threads |-> IF th[i] = "blocked" THEN "woken" ELSE th[i]]
    <2> DEFINE m == Len(t) + 1
    <2>1. /\ Len(t) \in Nat /\ Len(t') = m /\ t'[m] = j
          /\ \A n \in 1..Len(t) : t'[n] = t[n]
      BY <1>1, <1>4, TableEntries
    <2>2. \A i \in Threads : /\ th'[i] = "starting" <=> th[i] = "starting"
                             /\ th'[i] = "running" <=> th[i] = "running"
      BY <1>4
    <2>3. /\ \A n \in 1..Len(t') : n \in 1..Len(t) \/ n = m
          /\ \A n \in 1..Len(t) : n \in 1..Len(t')
          /\ m \in 1..Len(t')
      BY <2>1
    <2> HIDE DEF m
    <2>4. OnePlace'
      <3>1. \A i, l \in Threads : holding(i)' /\ holding(l)' /\ job'[i] = job'[l] => i = l
        BY <1>4, <2>2, Zenon DEF OnePlace, holding
      <3>2. \A n \in 1..Len(t) : t[n] # j
        BY <1>2, Zenon DEF Given
      <3>3. ASSUME NEW n \in 1..Len(t')
            PROVE  \/ n \in 1..Len(t) /\ t'[n] = t[n] /\ t'[n] # j
                   \/ n = m /\ t'[n] = j
        <4>1. CASE n \in 1..Len(t)
          <5>1. t'[n] = t[n] /\ t[n] # j
            BY <2>1, <3>2, <4>1, Zenon
          <5> QED
            BY <4>1, <5>1, Zenon
        <4>2. CASE n = m
          <5>1. t'[m] = j
            BY <2>1
          <5> QED
            BY <4>2, <5>1, Zenon
        <4> QED
          BY <2>3, <4>1, <4>2, Zenon
      <3>4. \A n1, n2 \in 1..Len(t') : t'[n1] = t'[n2] => n1 = n2
        <4> SUFFICES ASSUME NEW n1 \in 1..Len(t'), NEW n2 \in 1..Len(t'), t'[n1] = t'[n2]
                     PROVE  n1 = n2
          OBVIOUS
        <4>1. \A a, b \in 1..Len(t) : t[a] = t[b] => a = b
          BY DEF OnePlace
        <4>2. CASE n1 \in 1..Len(t) /\ t'[n1] = t[n1] /\ t'[n1] # j
          <5>1. n2 \in 1..Len(t) /\ t'[n2] = t[n2]
            BY <3>3, <4>2, Zenon
          <5> QED
            BY <4>1, <4>2, <5>1, Zenon
        <4>3. CASE n1 = m /\ t'[n1] = j
          BY <3>3, <4>3, Zenon
        <4> QED
          BY <3>3, <4>2, <4>3, Zenon
      <3>5. \A i \in Threads : holding(i)' => job'[i] # j /\ job'[i] \in Jobs
        BY <1>2, <1>4, <2>2, Zenon DEF OnePlace, Given, holding
      <3>6. \A i \in Threads, n \in 1..Len(t') : holding(i)' => job'[i] # t'[n]
        <4> SUFFICES ASSUME NEW i \in Threads, NEW n \in 1..Len(t'), holding(i)'
                     PROVE  job'[i] # t'[n]
          OBVIOUS
        <4>1. holding(i) /\ job'[i] = job[i] /\ job'[i] # j
          BY <1>4, <2>2, <3>5, Zenon DEF holding
        <4>2. \A a \in 1..Len(t) : job[i] # t[a]
          BY <4>1, Zenon DEF OnePlace
        <4> QED
          BY <3>3, <4>1, <4>2, Zenon
      <3> QED
        BY <3>1, <3>4, <3>5, <3>6, Zenon DEF OnePlace, holding
    <2>5. \A l \in Jobs : Given(l)' <=> Given(l) \/ l = j
      BY <1>4, <2>1, <2>2, <2>3, Zenon DEF Given, holding
    <2>6. EmptyBuffers'
      BY <1>1, <2>5 DEF EmptyBuffers
    <2>7. \A l \in Jobs : Unstarted(l)' => Unstarted(l) \/ l = j
      BY <1>4, <2>1, <2>2, <2>3, Zenon DEF Unstarted
    <2>8. NotStarted'
      BY <2>7, DistinctJobs, Zenon DEF NotStarted
    <2> QED
      BY <2>4, <2>6, <2>8
  <1> QED
    BY <1>1, <1>3, <1>4 DEF pool_put

(* A thread with no job takes the top of the table.                        *)
LEMMA TakePlaces ==
  ASSUME IInv, PlacesInv, NEW i \in Threads, ~holding(i), t # <<>>,
         th' = [th EXCEPT ![i] = "starting"], job' = [job EXCEPT ![i] = top],
         t' = rest, UNCHANGED <<op, client>>
  PROVE  PlacesInv'
  <1> USE DEF IInv, TypeOK, PlacesInv
  <1>1. /\ t \in Seq(Jobs) /\ th \in [Threads -> {"none", "starting", "running", "put",
                                                   "blocked", "woken"}]
        /\ job \in [Threads -> Jobs \cup {NoJob}]
    BY DEF PoolTypeOK
  <1> DEFINE m == Len(t)
  <1>2. /\ m \in Nat /\ m > 0 /\ Len(t') = m - 1 /\ top = t[m] /\ t[m] \in Jobs
        /\ \A n \in 1..(m - 1) : t'[n] = t[n]
    BY <1>1, TableEntries DEF top
  <1> HIDE DEF m
  <1>3. /\ m \in 1..Len(t) /\ 1..Len(t') \subseteq 1..Len(t) /\ m \notin 1..Len(t')
        /\ \A n \in 1..Len(t) : n \in 1..Len(t') \/ n = m
        /\ \A n \in 1..Len(t') : t'[n] = t[n]
    BY <1>2 DEF m
  <1>4. /\ holding(i)' /\ job'[i] = t[m] /\ th'[i] = "starting"
        /\ \A l \in Threads : l # i => job'[l] = job[l] /\ th'[l] = th[l]
    BY <1>1, <1>2 DEF holding
  <1>5. OnePlace'
    BY <1>2, <1>3, <1>4 DEF OnePlace, holding
  <1>6. \A j \in Jobs : Given(j)' <=> Given(j)
    BY <1>3, <1>4 DEF Given, holding
  <1>7. EmptyBuffers'
    BY <1>6 DEF EmptyBuffers
  <1>8. NotStarted'
    <2>1. \A j \in Jobs : Unstarted(j)' => Unstarted(j)
      BY <1>3, <1>4 DEF Unstarted
    <2> QED
      BY <2>1, DistinctJobs DEF NotStarted, client
  <1>9. NoBuffers'
    BY DEF NoBuffers, client
  <1> QED
    BY <1>5, <1>7, <1>8, <1>9

(* A thread without a job changes state, or goes to sleep.                 *)
LEMMA SleepPlaces ==
  ASSUME IInv, PlacesInv, NEW i \in Threads, ~holding(i), NEW s \in {"blocked", "woken"},
         th' = [th EXCEPT ![i] = s], \A l \in Threads : l # i => job'[l] = job[l],
         UNCHANGED <<t, op, client>>
  PROVE  PlacesInv'
  <1>1. \A l \in Threads : /\ th'[l] = "starting" <=> th[l] = "starting"
                           /\ th'[l] = "running" <=> th[l] = "running"
                           /\ th[l] \in {"starting", "running"} => job'[l] = job[l]
    <2>1. th \in [Threads -> {"none", "starting", "running", "put", "blocked", "woken"}]
      BY DEF IInv, TypeOK, PoolTypeOK
    <2>2. /\ th[i] # "starting" /\ th[i] # "running"
          /\ th'[i] # "starting" /\ th'[i] # "running"
      BY <2>1 DEF holding
    <2>3. \A l \in Threads : l # i => th'[l] = th[l] /\ job'[l] = job[l]
      BY <2>1
    <2> TAKE l \in Threads
    <2>4. CASE l = i
      BY <2>2, <2>4
    <2>5. CASE l # i
      BY <2>3, <2>5
    <2> QED
      BY <2>4, <2>5
  <1>2. OnePlace'
    BY <1>1 DEF PlacesInv, OnePlace, holding
  <1>3. \A j \in Jobs : (Given(j)' <=> Given(j)) /\ (Unstarted(j)' => Unstarted(j))
    <2> TAKE j \in Jobs
    <2>1. \A l \in Threads : th'[l] \in {"starting", "running"} /\ job'[l] = j
                              <=> th[l] \in {"starting", "running"} /\ job[l] = j
      <3> TAKE l \in Threads
      <3>1. /\ th'[l] \in {"starting", "running"} <=> th[l] \in {"starting", "running"}
            /\ th[l] \in {"starting", "running"} => job'[l] = job[l]
        BY <1>1
      <3> QED
        BY <3>1, Zenon
    <2>2. \A l \in Threads : th'[l] = "starting" /\ job'[l] = j
                              => th[l] = "starting" /\ job[l] = j
      BY <1>1
    <2> QED
      BY <2>1, <2>2 DEF Given, Unstarted, holding
  <1>4. EmptyBuffers'
    BY <1>3 DEF PlacesInv, EmptyBuffers
  <1>5. NotStarted'
    BY <1>3, DistinctJobs DEF PlacesInv, NotStarted, client
  <1>6. NoBuffers'
    BY DEF PlacesInv, NoBuffers, client
  <1> QED
    BY <1>2, <1>4, <1>5, <1>6 DEF PlacesInv

(* A thread calls f(a): only an instance that had no control gets one.     *)
LEMMA StartPlaces ==
  ASSUME IInv, PlacesInv, NEW i \in Threads, StartJob(i)
  PROVE  PlacesInv'
  <1> USE DEF IInv, TypeOK, PlacesInv
  <1>1. /\ th[i] = "starting" /\ th' = [th EXCEPT ![i] = "running"]
        /\ UNCHANGED <<t, job, op, run, k>>
    BY DEF StartJob
  <1>2. /\ \A l \in Threads : th'[l] \in {"starting", "running"}
                              <=> th[l] \in {"starting", "running"}
        /\ \A l \in Threads : th'[l] = "starting" <=> th[l] = "starting" /\ l # i
    BY <1>1 DEF PoolTypeOK
  <1>3. OnePlace' /\ job[i] \in Jobs
    BY <1>1, <1>2 DEF OnePlace, holding
  <1>4. \A j \in Jobs : (Given(j)' <=> Given(j)) /\ (Unstarted(j)' => Unstarted(j))
    BY <1>1, <1>2, Zenon DEF Given, Unstarted, holding
  <1>5. EmptyBuffers'
    BY <1>1, <1>4 DEF EmptyBuffers
  <1>6. CASE job[i] \notin Zyvas
    <2>1. UNCHANGED pc
      BY <1>6 DEF StartJob
    <2>2. NotStarted'
      BY <1>4, <2>1, DistinctJobs DEF NotStarted
    <2>3. NoBuffers'
      BY <1>1, <2>1 DEF NoBuffers
    <2> QED
      BY <1>3, <1>5, <2>2, <2>3
  <1>7. CASE job[i] \in Zyvas
    <2> PICK e : e = job[i][2]
      OBVIOUS
    <2>1. e \in Others /\ job[i] = <<"zyva", e>> /\ e \in Exes /\ e # last
      BY <1>7, DistinctJobs
    <2>2. pc' = [pc EXCEPT ![e] = "sync"]
      BY <1>7 DEF StartJob
    <2>3. pc[e] = "off" /\ op[<<"zyva", e>>] = "empty"
      <3>1. Unstarted(<<"zyva", e>>) /\ Given(<<"zyva", e>>)
        BY <1>1, <2>1 DEF Unstarted, Given, holding
      <3> QED
        BY <2>1, <3>1, DistinctJobs DEF NotStarted, EmptyBuffers
    <2>4. ~Unstarted(<<"zyva", e>>)'
      BY <1>1, <1>2, <2>1 DEF Unstarted, OnePlace, holding
    <2>5. \A f \in Exes : f # e => pc'[f] = pc[f]
      BY <2>1, <2>2 DEF ClientTypeOK
    <2>6. NotStarted'
      <3> SUFFICES ASSUME NEW f \in Others, Unstarted(<<"zyva", f>>)'
                   PROVE  pc'[f] = "off"
        BY DEF NotStarted
      <3>1. f # e /\ f \in Exes /\ <<"zyva", f>> \in Jobs
        BY <2>4, DistinctJobs
      <3>2. Unstarted(<<"zyva", f>>)
        BY <1>4, <3>1
      <3> QED
        BY <2>5, <3>1, <3>2 DEF NotStarted
    <2>7. NoBuffers'
      <3>1. ASSUME NEW f \in Exes, NEW p \in Procs, op[<<"P", f, p>>] # "none"
            PROVE  (pc'[f] = "launch" /\ p > k[f]) \/ (pc'[f] = "join" /\ p <= k[f])
        BY <2>3, <2>5, <3>1 DEF NoBuffers
      <3>2. pc'[last] = pc[last]
        BY <2>1, <2>5, LaunchedJobs
      <3>3. ASSUME NEW f \in Others, pc[last] = "off", f >= k[last]
            PROVE  op[<<"zyva", f>>] = "none" /\ pc'[f] = "off"
        <4>1. op[<<"zyva", f>>] = "none" /\ pc[f] = "off"
          BY <3>3 DEF NoBuffers
        <4>2. f # e
          BY <2>3, <4>1
        <4> QED
          BY <2>5, <4>1, <4>2, DistinctJobs
      <3> QED
        BY <1>1, <3>1, <3>2, <3>3 DEF NoBuffers
    <2> QED
      BY <1>3, <1>5, <2>6, <2>7
  <1> QED
    BY <1>6, <1>7

(* A thread puts its result: its buffer was empty.                         *)
LEMMA SetPlaces ==
  ASSUME IInv, PlacesInv, NEW i \in Threads, op_set(i)
  PROVE  PlacesInv'
  <1> USE DEF IInv, TypeOK, PlacesInv
  <1> PICK j : j = job[i]
    OBVIOUS
  <1>1. /\ th[i] = "running" /\ th' = [th EXCEPT ![i] = "put"]
        /\ op' = [op EXCEPT ![j] = "full"] /\ MayReturn(j)
        /\ UNCHANGED <<t, job, client>>
    BY DEF op_set
  <1>2. j \in Jobs
    BY <1>1 DEF OnePlace, holding
  <1>3. \A l \in Threads : /\ th'[l] = "starting" <=> th[l] = "starting"
                           /\ th'[l] = "running" <=> th[l] = "running" /\ l # i
    BY <1>1 DEF PoolTypeOK
  <1>4. OnePlace'
    BY <1>1, <1>3 DEF OnePlace, holding
  <1>5. Given(j) /\ ~Given(j)'
    BY <1>1, <1>3 DEF Given, OnePlace, holding
  <1>6. \A l \in Jobs : (l # j => (Given(l)' <=> Given(l))) /\ (Unstarted(l)' => Unstarted(l))
    BY <1>1, <1>3 DEF Given, Unstarted, holding
  <1>7. /\ op[j] = "empty" /\ op'[j] = "full"
        /\ \A l \in Jobs : l # j => op'[l] = op[l]
    BY <1>1, <1>2, <1>5 DEF EmptyBuffers, ClientTypeOK
  <1>8. EmptyBuffers'
    BY <1>5, <1>6, <1>7 DEF EmptyBuffers
  <1>9. NotStarted'
    BY <1>1, <1>6, DistinctJobs DEF NotStarted, client
  <1>10. NoBuffers'
    BY <1>1, <1>7, DistinctJobs DEF NoBuffers, client
  <1> QED
    BY <1>4, <1>8, <1>9, <1>10

(* What a pool thread does.                                                *)
LEMMA ThreadPlaces ==
  ASSUME IInv, PlacesInv, NEW i \in Threads, zyva_cache(i) \/ SpuriousWakeup(i)
  PROVE  PlacesInv'
  <1>1. CASE pool_get(i)
    <2>1. ~holding(i)
      BY <1>1 DEF pool_get, holding
    <2>2. CASE t = <<>>
      BY <1>1, <2>1, <2>2, SleepPlaces DEF pool_get, IInv, TypeOK, PoolTypeOK
    <2>3. CASE t # <<>>
      BY <1>1, <2>1, <2>3, TakePlaces DEF pool_get
    <2> QED
      BY <2>2, <2>3
  <1>2. CASE PopJob(i)
    BY <1>2, TakePlaces DEF PopJob, holding
  <1>3. CASE SleepAgain(i)
    BY <1>3, SleepPlaces DEF SleepAgain, holding
  <1>4. CASE SpuriousWakeup(i)
    BY <1>4, SleepPlaces DEF SpuriousWakeup, holding
  <1> QED
    BY <1>1, <1>2, <1>3, <1>4, StartPlaces, SetPlaces DEF zyva_cache

(* A client that joins or moves on leaves the jobs of the pool alone.      *)
LEMMA ClientPlaces ==
  ASSUME PlacesInv, UNCHANGED pool,
         \A j \in Jobs : op'[j] = "empty" <=> op[j] = "empty",
         \A e \in Others : pc[e] = "off" => pc'[e] = "off"
  PROVE  OnePlace' /\ EmptyBuffers' /\ NotStarted'
  <1>1. OnePlace'
    BY DEF PlacesInv, OnePlace, holding, pool
  <1>2. \A j \in Jobs : (Given(j)' <=> Given(j)) /\ (Unstarted(j)' => Unstarted(j))
    BY DEF Given, Unstarted, holding, pool
  <1> QED
    BY <1>1, <1>2, DistinctJobs DEF PlacesInv, EmptyBuffers, NotStarted

(* What an instance does: it launches jobs without a buffer, and joins.    *)
LEMMA ZyvaPlaces ==
  ASSUME IInv, PlacesInv, NEW e \in Exes, zyva(e)
  PROVE  PlacesInv'
  <1> USE DEF IInv, TypeOK, PlacesInv
  <1>0. /\ op \in [Jobs -> {"none", "empty", "full"}] /\ k \in [Exes -> Nat]
        /\ pc \in [Exes -> {"off", "sync", "launch", "join", "done"}]
        /\ last \in Exes /\ N \in Nat \ {0} /\ Procs = 0..(N-1)
        /\ pc[e] \in {"launch", "join"} => k[e] \in Procs /\ <<"P", e, k[e]>> \in Jobs
    BY LaunchedJobs, SizesAssumption DEF ClientTypeOK, Procs
  <1>1. CASE SyncRun(e)
    <2>1. /\ pc[e] = "sync" /\ pc' = [pc EXCEPT ![e] = "launch"]
          /\ k' = [k EXCEPT ![e] = N - 1] /\ UNCHANGED <<pool, op>>
      BY <1>1 DEF SyncRun
    <2>2. OnePlace' /\ EmptyBuffers' /\ NotStarted'
      BY <1>0, <2>1, ClientPlaces, DistinctJobs
    <2>3. NoBuffers'
      BY <1>0, <2>1, DistinctJobs DEF NoBuffers
    <2> QED
      BY <2>2, <2>3
  <1>2. CASE LaunchP(e)
    <2>1. /\ pc[e] = "launch" /\ launch_cached(<<"P", e, k[e]>>)
          /\ \A f \in Exes : f # e => pc'[f] = pc[f] /\ k'[f] = k[f]
          /\ \/ k[e] > 0 /\ k'[e] = k[e] - 1 /\ pc'[e] = "launch"
             \/ k[e] = 0 /\ k'[e] = N - 1 /\ pc'[e] = "join"
      BY <1>0, <1>2 DEF LaunchP
    <2>2. k[e] \in Procs /\ <<"P", e, k[e]>> \in Jobs /\ op[<<"P", e, k[e]>>] = "none"
      BY <1>0, <2>1 DEF NoBuffers
    <2>3. op' = [op EXCEPT ![<<"P", e, k[e]>>] = "empty"]
      BY <2>1 DEF launch_cached
    <2>4. OnePlace' /\ EmptyBuffers' /\ NotStarted'
      <3>1. \A f \in Others : <<"P", e, k[e]>> # <<"zyva", f>>
        BY <2>2, DistinctJobs
      <3>2. \A f \in Others : pc[f] = "off" <=> pc'[f] = "off"
        BY <2>1, DistinctJobs
      <3> QED
        BY <2>1, <2>2, <3>1, <3>2, LaunchPlaces
    <2>5. NoBuffers'
      BY <1>0, <2>1, <2>2, <2>3, DistinctJobs DEF NoBuffers
    <2> QED
      BY <2>4, <2>5
  <1>3. CASE JoinP(e)
    <2>1. /\ pc[e] = "join" /\ op[<<"P", e, k[e]>>] = "full" /\ UNCHANGED pool
          /\ op' = [op EXCEPT ![<<"P", e, k[e]>>] = "none"]
          /\ \A f \in Exes : f # e => pc'[f] = pc[f] /\ k'[f] = k[f]
          /\ \/ k[e] > 0 /\ k'[e] = k[e] - 1 /\ pc'[e] = "join"
             \/ k[e] = 0 /\ k'[e] = 0 /\ pc'[e] = "sync"
      BY <1>0, <1>3 DEF JoinP, join_detached
    <2>2. OnePlace' /\ EmptyBuffers' /\ NotStarted'
      BY <1>0, <2>1, ClientPlaces, DistinctJobs
    <2>3. NoBuffers'
      BY <1>0, <2>1, DistinctJobs DEF NoBuffers
    <2> QED
      BY <2>2, <2>3
  <1>4. CASE EndZyva(e)
    <2>1. /\ pc[e] = "sync" /\ pc' = [pc EXCEPT ![e] = "done"]
          /\ UNCHANGED <<pool, op, k>>
      BY <1>4 DEF EndZyva
    <2>2. OnePlace' /\ EmptyBuffers' /\ NotStarted'
      BY <1>0, <2>1, ClientPlaces, DistinctJobs
    <2>3. NoBuffers'
      BY <1>0, <2>1, DistinctJobs DEF NoBuffers
    <2> QED
      BY <2>2, <2>3
  <1> QED
    BY <1>1, <1>2, <1>3, <1>4 DEF zyva

(* What main does: it launches each of the others once, and joins them.    *)
LEMMA MainPlaces ==
  ASSUME IInv, PlacesInv, main
  PROVE  PlacesInv'
  <1> USE DEF IInv, TypeOK, PlacesInv
  <1>0. /\ op \in [Jobs -> {"none", "empty", "full"}] /\ k \in [Exes -> Nat]
        /\ pc \in [Exes -> {"off", "sync", "launch", "join", "done"}]
        /\ last \in Exes /\ k[last] \in Nat
        /\ k[last] < last => k[last] \in Others /\ <<"zyva", k[last]>> \in Jobs
        /\ \A e \in Others : e \in Int /\ e < last
    BY LaunchedJobs, SizesAssumption DEF ClientTypeOK, Others, last
  <1>1. CASE /\ pc[last] = "off" /\ k[last] < last
             /\ launch_cached(<<"zyva", k[last]>>)
             /\ k' = [k EXCEPT ![last] = @ + 1] /\ UNCHANGED pc
    <2>1. /\ k[last] \in Others /\ <<"zyva", k[last]>> \in Jobs
          /\ op[<<"zyva", k[last]>>] = "none" /\ pc[k[last]] = "off"
      BY <1>0, <1>1 DEF NoBuffers
    <2>2. op' = [op EXCEPT ![<<"zyva", k[last]>>] = "empty"]
      BY <1>1 DEF launch_cached
    <2>3. OnePlace' /\ EmptyBuffers' /\ NotStarted'
      <3>1. \A e \in Others : <<"zyva", k[last]>> = <<"zyva", e>> => pc[e] = "off"
        BY <2>1, DistinctJobs
      <3> QED
        BY <1>1, <2>1, <3>1, LaunchPlaces
    <2>4. NoBuffers'
      <3>1. k'[last] = k[last] + 1 /\ \A f \in Exes : f # last => k'[f] = k[f]
        BY <1>0, <1>1
      <3>2. \A e \in Exes, p \in Procs : op'[<<"P", e, p>>] = op[<<"P", e, p>>]
        BY <1>0, <2>1, <2>2, DistinctJobs
      <3>3. \A e \in Exes, p \in Procs : op'[<<"P", e, p>>] # "none" =>
              (pc'[e] = "launch" /\ p > k'[e]) \/ (pc'[e] = "join" /\ p <= k'[e])
        BY <1>1, <3>1, <3>2 DEF NoBuffers
      <3>4. ASSUME NEW e \in Others, e >= k'[last]
            PROVE  op'[<<"zyva", e>>] = "none" /\ pc'[e] = "off"
        <4>1. e >= k[last] /\ e # k[last]
          BY <1>0, <3>1, <3>4
        <4>2. <<"zyva", e>> # <<"zyva", k[last]>> /\ <<"zyva", e>> \in Jobs
          BY <2>1, <4>1, DistinctJobs
        <4> QED
          BY <1>0, <1>1, <2>2, <4>1, <4>2 DEF NoBuffers
      <3> QED
        BY <1>1, <3>3, <3>4 DEF NoBuffers
    <2> QED
      BY <2>3, <2>4
  <1>2. CASE /\ pc[last] = "off" /\ pc' = [pc EXCEPT ![last] = "sync"]
             /\ k' = [k EXCEPT ![last] = 0] /\ UNCHANGED <<pool, op>>
    <2>1. OnePlace' /\ EmptyBuffers' /\ NotStarted'
      BY <1>0, <1>2, ClientPlaces, DistinctJobs
    <2>2. NoBuffers'
      BY <1>0, <1>2, DistinctJobs DEF NoBuffers
    <2> QED
      BY <2>1, <2>2
  <1>3. CASE JoinZyva
    <2>1. /\ pc[last] = "done" /\ op[<<"zyva", k[last]>>] = "full" /\ UNCHANGED <<pool, pc>>
          /\ op' = [op EXCEPT ![<<"zyva", k[last]>>] = "none"]
          /\ k' = [k EXCEPT ![last] = k[last] + 1] /\ k[last] < last
      BY <1>3 DEF JoinZyva, join_detached
    <2>2. OnePlace' /\ EmptyBuffers' /\ NotStarted'
      BY <1>0, <2>1, ClientPlaces
    <2>3. NoBuffers'
      BY <1>0, <2>1, DistinctJobs DEF NoBuffers
    <2> QED
      BY <2>2, <2>3
  <1> QED
    BY <1>1, <1>2, <1>3 DEF main, LaunchZyva

LEMMA NextPlaces == IInv /\ PlacesInv /\ [Next]_vars => PlacesInv'
  <1> SUFFICES ASSUME IInv, PlacesInv, [Next]_vars PROVE PlacesInv'
    OBVIOUS
  <1>1. CASE UNCHANGED vars
    <2>1. OnePlace' /\ EmptyBuffers' /\ NotStarted'
      BY <1>1, ClientPlaces DEF vars, client
    <2>2. NoBuffers'
      BY <1>1 DEF vars, client, PlacesInv, NoBuffers
    <2> QED
      BY <2>1, <2>2 DEF PlacesInv
  <1> QED
    BY <1>1, ThreadPlaces, ZyvaPlaces, MainPlaces DEF Next, Exit

(* A set with one element, and one with none.                              *)
LEMMA CountOne ==
  ASSUME NEW S, \A a, b \in S : a = b
  PROVE  /\ S = {} => Cardinality(S) = 0
         /\ S # {} => Cardinality(S) = 1
  <1>1. S = {} => Cardinality(S) = 0
    BY FS_EmptySet
  <1>2. ASSUME NEW a \in S PROVE Cardinality(S) = 1
    <2>1. S = {a}
      OBVIOUS
    <2> QED
      BY <2>1, FS_Singleton
  <1> QED
    BY <1>1, <1>2

(* A job is in one place as long as its buffer is empty, and in none       *)
(* otherwise: no result is put twice, and none is missing.                 *)
THEOREM OneResultPerLaunch == Spec => []SetOnce
  <1>1. IInv /\ PlacesInv => SetOnce
    <2> SUFFICES ASSUME IInv, PlacesInv, NEW j \in Jobs
                 PROVE  Places(j) = IF op[j] = "empty" THEN 1 ELSE 0
      BY DEF SetOnce
    <2> DEFINE H == {i \in Threads : th[i] \in {"starting", "running"} /\ job[i] = j}
               Q == {n \in 1..Len(t) : t[n] = j}
    <2>1. (\A a, b \in H : a = b) /\ (\A a, b \in Q : a = b)
      BY DEF PlacesInv, OnePlace, holding
    <2>2. H = {} \/ Q = {}
      BY DEF PlacesInv, OnePlace, holding
    <2>3. op[j] = "empty" <=> H # {} \/ Q # {}
      BY DEF PlacesInv, EmptyBuffers, Given, holding
    <2> HIDE DEF H, Q
    <2>4. /\ Cardinality(H) = IF H = {} THEN 0 ELSE 1
          /\ Cardinality(Q) = IF Q = {} THEN 0 ELSE 1
      BY <2>1, CountOne
    <2>5. Cardinality(H) + Cardinality(Q) = IF op[j] = "empty" THEN 1 ELSE 0
      BY <2>2, <2>3, <2>4
    <2> QED
      BY <2>5 DEF Places, H, Q
  <1>2. Spec => []PlacesInv
    BY InitPlaces, NextPlaces, PoolInvariant, PTL DEF Spec
  <1> QED
    BY <1>1, <1>2, PoolInvariant, PTL

=============================================================================
