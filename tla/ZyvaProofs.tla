----------------------------- MODULE ZyvaProofs -----------------------------
(***************************************************************************)
(* For any number of instances, threads and runs, and any processors: two  *)
(* test threads that run are never bound to the same one, the instances    *)
(* that meet before each run leave the loop together, and main prints the  *)
(* sum of their histograms, which is what sum_hist expects.                *)
(***************************************************************************)
EXTENDS Zyva, FiniteSetTheorems, TLAPS

TypeOK == /\ prm \in Params
          /\ pc \in [Zyvas -> {"start", "loop", "choose", "run", "done"}]
          /\ n_run \in [Zyvas -> 0..max_run]
          /\ arrived \subseteq Zyvas
          /\ stop_now \in BOOLEAN
          /\ cpus \in [DOMAIN all_cpus -> Int]
          /\ pinned \in [Zyvas -> [Threads -> Int]]

(* Where an instance is between two releases of p_barrier: before the      *)
(* first one, past the one that opens run n, or past the one that follows  *)
(* the choice of the processors of run n, up to the next meeting.          *)
phase(z) ==
  IF pc[z] = "start" \/ (pc[z] = "loop" /\ z \in arrived) THEN <<"entry", 0>>
  ELSE IF \/ pc[z] = "choose" /\ z \notin arrived
          \/ pc[z] = "run" /\ z \in arrived
          \/ pc[z] = "done" /\ n_run[z] < max_run
       THEN <<"choose", n_run[z]>>
  ELSE IF pc[z] = "run" THEN <<"run", n_run[z] + 1>>
  ELSE <<"run", n_run[z]>>

(* The instances that meet are in the same phase.                          *)
InStep == aff_mode # "fixed" => \A y, z \in Zyvas : phase(y) = phase(z)

(* What the control of an instance says of its loop index, of its place in *)
(* the barrier and of stop_now.                                            *)
Control == \A z \in Zyvas :
  /\ pc[z] \in {"start", "done"} => z \notin arrived
  /\ pc[z] = "start" \/ (pc[z] = "loop" /\ z \in arrived) => n_run[z] = 0
  /\ pc[z] \in {"choose", "run"} => n_run[z] < max_run
  /\ pc[z] = "choose" => aff_mode # "fixed"
  /\ pc[z] = "run" /\ z \in arrived => aff_mode # "fixed" /\ ~stop_now
  /\ pc[z] = "done" /\ n_run[z] < max_run => stop_now

(* The array holds different processors, or those of the topology of the   *)
(* run in the slices of the instances that run.                            *)
Cpus == /\ aff_mode # "scan" =>
             \A i, j \in DOMAIN all_cpus : cpus[i] = cpus[j] => i = j
        /\ aff_mode = "scan" =>
             \A z \in Zyvas, p \in Threads : pc[z] = "run" =>
               cpus[N*z + p] = cpu_scan[n_run[z] % SCANSZ][N*z + p]

(* Threads of the runs in progress are bound to what the array says.       *)
Pinned == \A z \in Zyvas, p \in Threads : pinned[z][p] # NoCpu =>
  pc[z] = "run" /\ z \notin arrived /\ pinned[z][p] = cpus[N*z + p]

(* The inductive invariant.                                                *)
IInv == TypeOK /\ InStep /\ Control /\ Cpus /\ Pinned

-----------------------------------------------------------------------------

(* There are processors for all the threads.                               *)
LEMMA Sizes == /\ N \in Nat \ {0} /\ n_exe \in Nat \ {0} /\ max_run \in Nat
               /\ ncpus \in Nat /\ N*n_exe \in Nat /\ N*n_exe <= ncpus
               /\ DOMAIN all_cpus = 0..(ncpus-1)
  <1>1. N \in Nat \ {0} /\ n_exe \in Nat \ {0} /\ max_run \in Nat
    BY ZyvaAssumption
  <1>2. ncpus \in Nat /\ ncpus_used \in (N*n_exe)..ncpus /\ DOMAIN all_cpus = 0..(ncpus-1)
    BY CpusAssumption
  <1>3. N*n_exe \in Nat
    BY <1>1
  <1> QED
    BY <1>1, <1>2, <1>3

(* The threads of all the instances have entries of their own in the array *)
(* of processors.                                                          *)
LEMMA Indices ==
  ASSUME NEW y \in Zyvas, NEW z \in Zyvas, NEW p \in Threads, NEW q \in Threads
  PROVE  /\ N*z + p \in 0..(N*n_exe - 1)
         /\ N*z + p \in DOMAIN all_cpus
         /\ N*y + p = N*z + q => y = z /\ p = q
  <1> USE Sizes DEF Zyvas, Threads
  <1>1. /\ N \in Nat /\ N > 0 /\ n_exe \in Nat /\ p \in Int /\ q \in Int
        /\ y \in Int /\ z \in Int /\ 0 <= p /\ p < N /\ 0 <= q /\ q < N
        /\ 0 <= y /\ 0 <= z /\ z + 1 <= n_exe
    OBVIOUS
  <1>2. \A i, j \in Int : i + 1 <= j => N*i + N <= N*j
    <2> SUFFICES ASSUME NEW i \in Int, NEW j \in Int, i + 1 <= j
                 PROVE  N*i + N <= N*j
      OBVIOUS
    <2>1. N * (j - i - 1) >= 0
      BY <1>1
    <2>2. N * (j - i - 1) = N*j - N*i - N
      BY <1>1
    <2> QED
      BY <1>1, <2>1, <2>2
  <1>3. N*z + N <= N*n_exe /\ 0 <= N*z /\ N*z \in Int /\ N*n_exe \in Int
    BY <1>1, <1>2
  <1>4. N*z + p \in 0..(N*n_exe - 1)
    BY <1>1, <1>3
  <1>5. N*z + p \in DOMAIN all_cpus
    BY <1>1, <1>3
  <1>6. ASSUME N*y + p = N*z + q PROVE y = z /\ p = q
    <2>1. ~(y + 1 <= z) /\ ~(z + 1 <= y)
      BY <1>1, <1>2, <1>6
    <2>2. y = z
      BY <1>1, <2>1
    <2> QED
      BY <1>1, <1>6, <2>2
  <1> QED
    BY <1>4, <1>5, <1>6

(* The topology of a run is one of the array.                              *)
LEMMA Topology ==
  ASSUME NEW n \in Nat
  PROVE  n % SCANSZ \in DOMAIN cpu_scan
  BY CpusAssumption

LEMMA InitInv == Init => IInv
  <1> SUFFICES ASSUME Init PROVE IInv
    OBVIOUS
  <1> USE Sizes DEF Init
  <1>1. TypeOK
    <2>1. cpus \in [DOMAIN all_cpus -> Int]
      BY CpusAssumption
    <2>2. pinned \in [Zyvas -> [Threads -> Int]]
      BY DEF unbound, NoCpu
    <2>3. stop_now \in BOOLEAN
      BY Zenon
    <2>4. n_run \in [Zyvas -> 0..max_run]
      OBVIOUS
    <2>5. pc \in [Zyvas -> {"start", "loop", "choose", "run", "done"}]
      OBVIOUS
    <2>6. prm \in Params /\ arrived \subseteq Zyvas
      OBVIOUS
    <2> QED
      BY <2>1, <2>2, <2>3, <2>4, <2>5, <2>6 DEF TypeOK
  <1>2. InStep /\ Control
    BY DEF InStep, Control, phase
  <1>3. Cpus /\ Pinned
    BY CpusAssumption DEF Cpus, Pinned, unbound
  <1> QED
    BY <1>1, <1>2, <1>3 DEF IInv

(* An instance that waits in the barrier either waits for others, which    *)
(* changes no phase of theirs, or lets all of them go.                     *)
LEMMA Waiting ==
  ASSUME arrived \subseteq Zyvas, NEW z \in Zyvas, pb_wait(z)
  PROVE  \/ arrived' = {} /\ \A y \in Zyvas : y # z => y \in arrived
         \/ arrived' = arrived \cup {z} /\ arrived' # Zyvas
  BY DEF pb_wait

LEMMA StartInv ==
  ASSUME IInv, prm' = prm, NEW z \in Zyvas, Start(z)
  PROVE  IInv'
  <1> USE DEF IInv, TypeOK, Start, At, goto, aff_mode
  <1>1. TypeOK'
    BY Waiting
  <1>2. InStep'
    <2>1. CASE arrived' = {} /\ \A y \in Zyvas : y # z => y \in arrived
      BY <2>1 DEF InStep, Control, phase
    <2>2. CASE arrived' = arrived \cup {z}
      BY <2>2 DEF InStep, Control, phase
    <2> QED
      BY <2>1, <2>2, Waiting
  <1>3. Control'
    BY Waiting DEF Control
  <1>4. Cpus' /\ Pinned'
    BY Waiting DEF Cpus, Pinned
  <1> QED
    BY <1>1, <1>2, <1>3, <1>4

LEMMA MeetInv ==
  ASSUME IInv, prm' = prm, NEW z \in Zyvas, Meet(z)
  PROVE  IInv'
  <1> USE DEF IInv, TypeOK, Meet, At, goto, aff_mode
  <1>1. TypeOK'
    BY Waiting
  <1>2. InStep'
    <2>1. CASE arrived' = {} /\ \A y \in Zyvas : y # z => y \in arrived
      <3>1. phase(z) = <<"run", n_run[z]>>
        BY DEF phase
      <3>2. \A y \in Zyvas : y # z => pc[y] = "choose" /\ n_run[y] = n_run[z]
        BY <2>1, <3>1 DEF InStep, Control, phase
      <3>3. \A y \in Zyvas : phase(y)' = <<"choose", n_run[z]>>
        BY <2>1, <3>2 DEF phase
      <3> QED
        BY <3>3 DEF InStep
    <2>2. CASE arrived' = arrived \cup {z}
      <3>1. \A y \in Zyvas : phase(y)' = phase(y)
        BY <2>2 DEF Control, phase
      <3> QED
        BY <3>1 DEF InStep
    <2> QED
      BY <2>1, <2>2, Waiting
  <1>3. Control'
    BY Waiting DEF Control
  <1>4. Cpus' /\ Pinned'
    BY Waiting DEF Cpus, Pinned
  <1> QED
    BY <1>1, <1>2, <1>3, <1>4

(* Steps that leave the barrier and the processors alone.                  *)
LEMMA LeaveInv ==
  ASSUME IInv, prm' = prm, NEW z \in Zyvas, LoopEnd(z) \/ Break(z) \/ Go(z)
  PROVE  IInv'
  <1> USE Sizes DEF IInv, TypeOK, At, aff_mode
  <1>1. /\ UNCHANGED <<n_run, arrived, stop_now, cpus, pinned>>
        /\ z \notin arrived
        /\ \E l \in {"run", "done"} : pc' = [pc EXCEPT ![z] = l]
    BY DEF LoopEnd, Break, Go, goto
  <1>2. TypeOK'
    BY <1>1
  <1>3. InStep'
    <2> SUFFICES ASSUME aff_mode # "fixed"
                 PROVE  \A y \in Zyvas : phase(y)' = phase(y)
      BY DEF InStep
    <2>1. CASE LoopEnd(z)
      BY <1>1, <2>1 DEF LoopEnd, goto, phase
    <2>2. CASE Break(z)
      BY <1>1, <2>2 DEF Break, goto, phase, Control
    <2> QED
      BY <2>1, <2>2 DEF Go
  <1>4. Control'
    <2>1. CASE LoopEnd(z)
      BY <2>1 DEF LoopEnd, goto, Control
    <2>2. CASE Break(z)
      BY <2>2 DEF Break, goto, Control
    <2>3. CASE Go(z)
      BY <2>3 DEF Go, goto, Control
    <2> QED
      BY <2>1, <2>2, <2>3
  <1>5. Cpus'
    <2>1. aff_mode = "scan" => pc' = [pc EXCEPT ![z] = "done"]
      BY DEF LoopEnd, Break, Go, goto
    <2> QED
      BY <1>1, <2>1 DEF Cpus
  <1>6. Pinned'
    BY <1>1 DEF LoopEnd, Break, Go, goto, Pinned
  <1> QED
    BY <1>2, <1>3, <1>4, <1>5, <1>6

(* A shuffle of an array of different processors is another one.           *)
LEMMA ShuffleInv ==
  ASSUME IInv, prm' = prm, NEW z \in Zyvas, ShuffleCpus(z)
  PROVE  IInv'
  <1> USE DEF IInv, TypeOK, At, aff_mode
  <1>1. /\ pc[z] = "choose" /\ z \notin arrived /\ aff_mode = "random" /\ ~stop_now
        /\ pc' = [pc EXCEPT ![z] = "run"]
        /\ UNCHANGED <<n_run, stop_now, pinned>>
        /\ pb_wait(z)
    BY DEF ShuffleCpus, goto
  <1>2. /\ cpus' \in [DOMAIN all_cpus -> Int]
        /\ \A i, j \in DOMAIN all_cpus : cpus'[i] = cpus'[j] => i = j
    <2>1. CASE UNCHANGED cpus
      BY <1>1, <2>1 DEF Cpus
    <2>2. CASE \E f \in Shuffles : cpus' = [i \in DOMAIN cpus |-> cpus[f[i]]]
      <3> PICK f \in Shuffles : cpus' = [i \in DOMAIN cpus |-> cpus[f[i]]]
        BY <2>2
      <3>1. /\ DOMAIN cpus = DOMAIN all_cpus
            /\ f \in [DOMAIN all_cpus -> DOMAIN all_cpus]
            /\ \A i, j \in DOMAIN all_cpus : f[i] = f[j] => i = j
        BY DEF Shuffles
      <3> QED
        BY <1>1, <3>1 DEF Cpus
    <2> QED
      BY <2>1, <2>2 DEF ShuffleCpus
  <1>3. \A y \in Zyvas, p \in Threads : pinned[y][p] = NoCpu
    <2>1. \A y \in Zyvas : ~(pc[y] = "run" /\ y \notin arrived)
      BY <1>1 DEF InStep, phase
    <2> QED
      BY <2>1 DEF Pinned
  <1>4. TypeOK'
    BY <1>1, <1>2, Waiting
  <1>5. InStep'
    <2>1. CASE arrived' = {} /\ \A y \in Zyvas : y # z => y \in arrived
      <3>1. phase(z) = <<"choose", n_run[z]>>
        BY <1>1 DEF phase
      <3>2. \A y \in Zyvas : y # z => pc[y] = "run" /\ n_run[y] = n_run[z]
        BY <1>1, <2>1, <3>1 DEF InStep, Control, phase
      <3>3. \A y \in Zyvas : phase(y)' = <<"run", n_run[z] + 1>>
        BY <1>1, <2>1, <3>2 DEF phase
      <3> QED
        BY <3>3 DEF InStep
    <2>2. CASE arrived' = arrived \cup {z}
      BY <1>1, <2>2 DEF InStep, Control, phase
    <2> QED
      BY <1>1, <2>1, <2>2, Waiting
  <1>6. Control'
    BY <1>1, Waiting DEF Control
  <1>7. Cpus'
    BY <1>1, <1>2 DEF Cpus
  <1>8. Pinned'
    BY <1>1, <1>3 DEF Pinned
  <1> QED
    BY <1>4, <1>5, <1>6, <1>7, <1>8

(* The offset of an entry of a slice.                                      *)
LEMMA Offset ==
  ASSUME NEW a \in Int, NEW b \in Int, a \in b..(b + N - 1)
  PROVE  a - b \in 0..(N-1) /\ a = b + (a - b)
  BY Sizes

(* An instance copies its part of the topology of the run.                 *)
LEMMA ScanInv ==
  ASSUME IInv, prm' = prm, NEW z \in Zyvas, ScanCpus(z)
  PROVE  IInv'
  <1> USE DEF IInv, TypeOK, At, aff_mode
  <1>1. /\ pc[z] = "choose" /\ z \notin arrived /\ aff_mode = "scan" /\ ~stop_now
        /\ pc' = [pc EXCEPT ![z] = "run"]
        /\ UNCHANGED <<n_run, stop_now, pinned>>
        /\ pb_wait(z)
    BY DEF ScanCpus, goto
  <1>2. \A y \in Zyvas : ~(pc[y] = "run" /\ y \notin arrived)
    BY <1>1 DEF InStep, phase
  <1>3. \A y \in Zyvas, p \in Threads : pinned[y][p] = NoCpu
    BY <1>2 DEF Pinned
  <1>4. \A y \in Zyvas, p \in Threads : N*y + p \in slice(z) <=> y = z
    <2> TAKE y \in Zyvas, p \in Threads
    <2>1. N*y + p \in Int /\ N*z \in Int /\ (y = z => N*y + p \in slice(z))
      BY Sizes DEF slice, Zyvas, Threads
    <2>2. ASSUME N*y + p \in slice(z) PROVE y = z
      <3>1. PICK q \in Threads : N*y + p = N*z + q
        <4> DEFINE a == N*y + p
                   b == N*z
        <4>1. a \in Int /\ b \in Int /\ a \in b..(b + N - 1)
          BY <2>1, <2>2 DEF slice
        <4> HIDE DEF a, b
        <4>2. a - b \in 0..(N-1) /\ a = b + (a - b)
          BY <4>1, Offset
        <4> QED
          BY <4>2 DEF a, b, Threads
      <3> QED
        BY <3>1, Indices
    <2> QED
      BY <2>1, <2>2
  <1>5. cpus' \in [DOMAIN all_cpus -> Int]
    <2>1. \A i \in slice(z) : cpu_scan[n_run[z] % SCANSZ][i] \in Int
      <3> TAKE i \in slice(z)
      <3>1. n_run[z] % SCANSZ \in DOMAIN cpu_scan
        BY Topology, Sizes
      <3>2. i \in 0..(N*n_exe - 1)
        <4>1. i - N*z \in Threads /\ i = N*z + (i - N*z)
          BY Sizes DEF slice, Threads, Zyvas
        <4> QED
          BY <4>1, Indices
      <3>3. cpu_scan[n_run[z] % SCANSZ][i] \in Nat \cup {NoCpu}
        BY <3>1, <3>2, CpusAssumption
      <3> QED
        BY <3>3 DEF NoCpu
    <2> QED
      BY <2>1 DEF ScanCpus
  <1>6. TypeOK'
    BY <1>1, <1>5, Waiting
  <1>7. InStep'
    <2>1. CASE arrived' = {} /\ \A y \in Zyvas : y # z => y \in arrived
      <3>1. phase(z) = <<"choose", n_run[z]>>
        BY <1>1 DEF phase
      <3>2. \A y \in Zyvas : y # z => pc[y] = "run" /\ n_run[y] = n_run[z]
        BY <1>1, <2>1, <3>1 DEF InStep, Control, phase
      <3>3. \A y \in Zyvas : phase(y)' = <<"run", n_run[z] + 1>>
        BY <1>1, <2>1, <3>2 DEF phase
      <3> QED
        BY <3>3 DEF InStep
    <2>2. CASE arrived' = arrived \cup {z}
      BY <1>1, <2>2 DEF InStep, Control, phase
    <2> QED
      BY <1>1, <2>1, <2>2, Waiting
  <1>8. Control'
    BY <1>1, Waiting DEF Control
  <1>9. Cpus'
    <2> SUFFICES ASSUME NEW y \in Zyvas, NEW p \in Threads, pc'[y] = "run"
                 PROVE  cpus'[N*y + p] = cpu_scan[n_run[y] % SCANSZ][N*y + p]
      BY <1>1 DEF Cpus
    <2>1. N*y + p \in DOMAIN cpus
      BY Indices
    <2>2. cpus'[N*y + p] = IF y = z THEN cpu_scan[n_run[z] % SCANSZ][N*y + p]
                                    ELSE cpus[N*y + p]
      BY <1>4, <2>1 DEF ScanCpus
    <2> QED
      BY <1>1, <2>2 DEF Cpus
  <1>10. Pinned'
    BY <1>1, <1>3 DEF Pinned
  <1> QED
    BY <1>6, <1>7, <1>8, <1>9, <1>10

(* A thread binds itself to the processor of its entry.                    *)
LEMMA PinInv ==
  ASSUME IInv, prm' = prm, NEW z \in Zyvas, NEW p \in Threads, Pin(z, p)
  PROVE  IInv'
  <1> USE DEF IInv, TypeOK, aff_mode
  <1>1. /\ pc[z] = "run" /\ z \notin arrived
        /\ UNCHANGED <<pc, n_run, arrived, stop_now, cpus>>
        /\ pinned' = [pinned EXCEPT ![z][p] = cpus[N*z + p]]
    BY DEF Pin, At
  <1>2. cpus[N*z + p] \in Int
    BY Indices
  <1>3. TypeOK'
    BY <1>1, <1>2
  <1>4. InStep' /\ Control' /\ Cpus'
    BY <1>1 DEF InStep, phase, Control, Cpus
  <1>5. Pinned'
    BY <1>1 DEF Pinned
  <1> QED
    BY <1>3, <1>4, <1>5

(* A run ends: nobody waits past the choice of the processors, where       *)
(* stop_now must not change.                                               *)
LEMMA EndRunInv ==
  ASSUME IInv, prm' = prm, NEW z \in Zyvas, EndRun(z)
  PROVE  IInv'
  <1> USE DEF IInv, TypeOK, aff_mode
  <1>1. /\ pc[z] = "run" /\ z \notin arrived
        /\ UNCHANGED <<arrived, cpus>>
        /\ pinned' = [pinned EXCEPT ![z] = unbound]
        /\ n_run' = [n_run EXCEPT ![z] = n_run[z] + 1]
        /\ pc' = [pc EXCEPT ![z] = "loop"]
        /\ stop_now => stop_now'
    BY DEF EndRun, At, goto
  <1>2. stop_now' \in BOOLEAN
    BY Zenon DEF EndRun
  <1>3. n_run[z] \in 0..max_run /\ n_run[z] < max_run
    BY <1>1 DEF Control
  <1>4. n_run[z] + 1 \in 0..max_run
    BY <1>3, Sizes
  <1>5. unbound \in [Threads -> Int]
    BY DEF unbound, NoCpu
  <1>6. TypeOK'
    BY <1>1, <1>2, <1>4, <1>5
  <1>7. InStep'
    <2> SUFFICES ASSUME aff_mode # "fixed"
                 PROVE  \A y \in Zyvas : phase(y)' = phase(y)
      BY DEF InStep
    <2>1. phase(z)' = phase(z)
      BY <1>1, <1>3 DEF phase
    <2>2. \A y \in Zyvas : y # z => phase(y)' = phase(y)
      BY <1>1 DEF phase
    <2> QED
      BY <2>1, <2>2
  <1>8. Control'
    <2>1. \A y \in Zyvas : pc[y] = "run" => y \notin arrived
      <3> SUFFICES ASSUME NEW y \in Zyvas, pc[y] = "run", y \in arrived PROVE FALSE
        OBVIOUS
      <3>1. phase(z) = <<"run", n_run[z] + 1>> /\ phase(y) = <<"choose", n_run[y]>>
        BY <1>1 DEF phase
      <3>2. aff_mode = "fixed"
        BY <3>1 DEF InStep
      <3> QED
        BY <3>2 DEF Control
    <2> QED
      BY <1>1, <1>2, <1>3, <2>1 DEF Control
  <1>9. Cpus'
    BY <1>1 DEF Cpus
  <1>10. Pinned'
    BY <1>1 DEF Pinned, unbound
  <1> QED
    BY <1>6, <1>7, <1>8, <1>9, <1>10

LEMMA NextInv == IInv /\ [Next]_vars => IInv'
  <1> SUFFICES ASSUME IInv, [Next]_vars PROVE IInv'
    OBVIOUS
  <1>1. ASSUME UNCHANGED <<prm, pc, n_run, arrived, stop_now, cpus, pinned>>
        PROVE  IInv'
    BY <1>1 DEF IInv, TypeOK, InStep, phase, Control, Cpus, Pinned, aff_mode
  <1>2. ASSUME prm' = prm, NEW z \in Zyvas, zyva(z)
        PROVE  IInv'
    BY <1>2, StartInv, MeetInv, LeaveInv, ShuffleInv, ScanInv, PinInv, EndRunInv
       DEF zyva, Steps
  <1>3. ASSUME prm' = prm, NEW z \in Zyvas, Join(z)
        PROVE  IInv'
    BY <1>1, <1>3 DEF Join
  <1>4. CASE prm' = prm /\ Postlude
    BY <1>1, <1>4 DEF Postlude
  <1>5. CASE UNCHANGED vars
    BY <1>1, <1>5 DEF vars
  <1> QED
    BY <1>2, <1>3, <1>4, <1>5 DEF Next

(* The invariant holds for every number of instances, threads and runs.    *)
THEOREM ZyvaInvariant == Spec => []IInv
  BY InitInv, NextInv, PTL DEF Spec

(* No two threads that run are bound to the same processor, in any         *)
(* affinity mode: instance 0 shuffles, or the instances copy a topology,   *)
(* only when nobody runs, and nobody runs on entries of different runs.    *)
THEOREM NoSharedCpu == Spec => []DistinctCpus
  <1>1. IInv => DistinctCpus
    <2> SUFFICES ASSUME IInv, NEW y \in Zyvas, NEW z \in Zyvas,
                        NEW p \in Threads, NEW q \in Threads,
                        pinned[y][p] = pinned[z][q], pinned[y][p] # NoCpu
                 PROVE  y = z /\ p = q
      BY DEF DistinctCpus
    <2> USE DEF IInv
    <2>1. /\ pc[y] = "run" /\ y \notin arrived /\ pc[z] = "run" /\ z \notin arrived
          /\ cpus[N*y + p] = cpus[N*z + q] /\ cpus[N*y + p] # NoCpu
      BY DEF Pinned
    <2>2. N*y + p \in 0..(N*n_exe - 1) /\ N*z + q \in 0..(N*n_exe - 1)
      BY Indices
    <2>3. N*y + p \in DOMAIN all_cpus /\ N*z + q \in DOMAIN all_cpus
      BY Indices
    <2>4. CASE aff_mode # "scan"
      BY <2>1, <2>3, <2>4, Indices DEF Cpus
    <2>5. CASE aff_mode = "scan"
      <3>1. n_run[y] \in Nat /\ n_run[z] \in Nat
        BY Sizes DEF TypeOK
      <3>2. phase(y) = phase(z)
        BY <2>5 DEF InStep
      <3>3. n_run[y] = n_run[z]
        BY <2>1, <3>1, <3>2 DEF phase
      <3> DEFINE x == n_run[z] % SCANSZ
      <3>4. x \in DOMAIN cpu_scan
        BY <3>1, Topology
      <3>5. cpu_scan[x][N*y + p] = cpu_scan[x][N*z + q] /\ cpu_scan[x][N*y + p] # NoCpu
        BY <2>1, <2>5, <3>3 DEF Cpus
      <3> HIDE DEF x
      <3>6. N*y + p = N*z + q
        BY <2>2, <3>4, <3>5, CpusAssumption
      <3> QED
        BY <3>6, Indices
    <2> QED
      BY <2>4, <2>5
  <1> QED
    BY <1>1, ZyvaInvariant, PTL

(* The instances that meet before each run break together: none is left    *)
(* to wait for one that has returned.                                      *)
THEOREM BreakTogether == Spec => []StopTogether
  <1>1. IInv => StopTogether
    <2> SUFFICES ASSUME IInv, aff_mode # "fixed", NEW y \in Zyvas, NEW z \in Zyvas,
                        pc[y] = "done", n_run[y] < max_run
                 PROVE  /\ n_run[z] = n_run[y]
                        /\ pc[z] \in {"choose", "done"} /\ z \notin arrived
      BY DEF StopTogether
    <2>1. phase(y) = <<"choose", n_run[y]>> /\ phase(z) = phase(y) /\ stop_now
      BY DEF IInv, InStep, Control, phase
    <2> QED
      BY <2>1 DEF IInv, TypeOK, Control, phase
  <1> QED
    BY <1>1, ZyvaInvariant, PTL

-----------------------------------------------------------------------------
(* The checks of sum_hist.                                                 *)

Hists == [pos : Nat, neg : Nat]

(* Each run adds size_of_test outcomes, only speedcheck ends the loop      *)
(* early, and main has merged whole histograms.                            *)
Sums == /\ hist \in [Zyvas -> Hists] /\ total \in Hists /\ main \in Nat
        /\ \A z \in Zyvas : hist[z].pos + hist[z].neg = size_of_test * n_run[z]
        /\ stop_now => speedcheck
        /\ ~speedcheck /\ main < n_exe => total.pos + total.neg = n_outs * main
        /\ ~failed

LEMMA OutsOfRun ==
  ASSUME NEW a \in Nat, NEW m \in Nat, NEW h \in Hists, h.pos + h.neg = a * m,
         NEW g \in Hists, g.pos + g.neg = a
  PROVE  add(h, g) \in Hists /\ add(h, g).pos + add(h, g).neg = a * (m + 1)
  <1>1. a * (m + 1) = a * m + a
    OBVIOUS
  <1>2. add(h, g) \in Hists /\ add(h, g).pos = h.pos + g.pos /\ add(h, g).neg = h.neg + g.neg
    BY DEF add, Hists
  <1> QED
    BY <1>1, <1>2 DEF Hists

LEMMA Whole ==
  ASSUME IInv, Sums, ~stop_now, NEW z \in Zyvas, pc[z] = "done"
  PROVE  hist[z].pos + hist[z].neg = n_outs
  <1>1. n_run[z] \in 0..max_run /\ ~(n_run[z] < max_run)
    BY DEF IInv, TypeOK, Control
  <1>2. n_run[z] = max_run
    BY <1>1, Sizes
  <1> QED
    BY <1>2 DEF Sums, n_outs

LEMMA InitSums == Init => Sums
  <1> SUFFICES ASSUME Init PROVE Sums
    OBVIOUS
  <1>1. zero \in Hists /\ zero.pos + zero.neg = 0
    BY DEF zero, Hists
  <1>2. size_of_test * 0 = 0 /\ n_outs * 0 = 0
    BY ZyvaAssumption DEF n_outs
  <1> QED
    BY <1>1, <1>2 DEF Init, Sums

LEMMA NextSums == IInv /\ Sums /\ [Next]_vars => Sums'
  <1> SUFFICES ASSUME IInv, Sums, [Next]_vars PROVE Sums'
    OBVIOUS
  <1> USE DEF speedcheck
  <1>0. /\ size_of_test \in Nat /\ n_outs \in Nat /\ n_exe \in Nat \ {0}
        /\ n_exe - 1 \in Zyvas
    BY Sizes, ZyvaAssumption DEF n_outs, Zyvas
  <1>1. ASSUME UNCHANGED <<prm, stop_now, hist, n_run, main, total, failed>>
        PROVE  Sums'
    BY <1>1 DEF Sums
  <1>2. ASSUME prm' = prm, NEW z \in Zyvas, EndRun(z)
        PROVE  Sums'
    <2> PICK pos \in 0..size_of_test :
          /\ hist' = [hist EXCEPT ![z] = [pos |-> hist[z].pos + pos,
                                         neg |-> hist[z].neg + size_of_test - pos]]
          /\ stop_now' = (stop_now \/ (speedcheck
               /\ settled([pos |-> hist[z].pos + pos,
                           neg |-> hist[z].neg + size_of_test - pos])))
          /\ n_run' = [n_run EXCEPT ![z] = n_run[z] + 1]
          /\ UNCHANGED <<main, total, failed>>
      BY <1>2 DEF EndRun
    <2> DEFINE g == [pos |-> pos, neg |-> size_of_test - pos]
    <2>1. g \in Hists /\ g.pos + g.neg = size_of_test
      BY <1>0 DEF Hists
    <2>2. n_run[z] \in Nat /\ hist[z] \in Hists
      BY Sizes DEF IInv, TypeOK, Sums
    <2>3. [pos |-> hist[z].pos + pos, neg |-> hist[z].neg + size_of_test - pos]
            = add(hist[z], g)
      BY <1>0, <2>2 DEF add, Hists
    <2>4. hist' = [hist EXCEPT ![z] = add(hist[z], g)]
      BY <2>3
    <2> HIDE DEF g
    <2>5. /\ add(hist[z], g) \in Hists
          /\ add(hist[z], g).pos + add(hist[z], g).neg = size_of_test * (n_run[z] + 1)
      <3>1. hist[z].pos + hist[z].neg = size_of_test * n_run[z]
        BY DEF Sums
      <3> QED
        BY <1>0, <2>1, <2>2, <3>1, OutsOfRun
    <2>6. hist' \in [Zyvas -> Hists]
      BY <2>4, <2>5 DEF Sums
    <2>7. \A y \in Zyvas : hist'[y].pos + hist'[y].neg = size_of_test * n_run'[y]
      BY <2>4, <2>5 DEF Sums, IInv, TypeOK
    <2>8. stop_now' => speedcheck'
      BY <1>2 DEF Sums
    <2> QED
      BY <1>2, <2>6, <2>7, <2>8 DEF Sums
  <1>3. ASSUME prm' = prm, NEW z \in Zyvas, Steps(z)
        PROVE  Sums'
    BY <1>1, <1>3 DEF Steps, Start, LoopEnd, Meet, Break, Go, ShuffleCpus, ScanCpus, Pin
  <1>4. ASSUME prm' = prm, NEW z \in Zyvas, Join(z)
        PROVE  Sums'
    <2>1. /\ main = z /\ z < n_exe - 1 /\ pc[z] = "done"
          /\ failed' = (failed \/ wrong(hist[z], n_outs))
          /\ total' = add(total, hist[z]) /\ main' = main + 1
          /\ UNCHANGED <<n_run, stop_now, hist>>
      BY <1>4 DEF Join
    <2>2. hist[z] \in Hists /\ total \in Hists /\ main \in Nat
      BY DEF Sums
    <2>3. total' \in Hists
      BY <2>1, <2>2 DEF add, Hists
    <2>4. ~failed'
      <3>1. ~speedcheck => ~stop_now
        BY DEF Sums
      <3> QED
        BY <2>1, <3>1, Whole DEF wrong, Sums
    <2>5. ASSUME ~speedcheck PROVE total'.pos + total'.neg = n_outs * main'
      <3>1. hist[z].pos + hist[z].neg = n_outs
        BY <2>1, <2>5, Whole DEF Sums
      <3>2. total.pos + total.neg = n_outs * main
        BY <1>0, <2>1, <2>2, <2>5 DEF Sums
      <3> QED
        BY <1>0, <2>1, <2>2, <3>1, <3>2, OutsOfRun
    <2> QED
      BY <1>4, <2>1, <2>2, <2>3, <2>4, <2>5 DEF Sums
  <1>5. CASE prm' = prm /\ Postlude
    <2>1. /\ main = n_exe - 1 /\ pc[n_exe - 1] = "done"
          /\ failed' = (failed \/ wrong(add(total, hist[n_exe - 1]), n_outs * n_exe))
          /\ total' = add(total, hist[n_exe - 1]) /\ main' = n_exe
          /\ UNCHANGED <<n_run, stop_now, hist>>
      BY <1>5 DEF Postlude
    <2>2. hist[n_exe - 1] \in Hists /\ total \in Hists /\ main \in Nat
      BY <1>0 DEF Sums
    <2>3. total' \in Hists
      BY <2>1, <2>2 DEF add, Hists
    <2>4. ASSUME ~speedcheck PROVE total'.pos + total'.neg = n_outs * n_exe
      <3>1. hist[n_exe - 1].pos + hist[n_exe - 1].neg = n_outs
        BY <1>0, <2>1, <2>4, Whole DEF Sums
      <3>2. total.pos + total.neg = n_outs * main
        BY <1>0, <2>1, <2>2, <2>4 DEF Sums
      <3>3. total'.pos + total'.neg = n_outs * (main + 1)
        <4>1. add(total, hist[n_exe - 1]).pos + add(total, hist[n_exe - 1]).neg
                = n_outs * (main + 1)
          BY <1>0, <2>2, <3>1, <3>2, OutsOfRun
        <4> QED
          BY <2>1, <4>1
      <3>4. main + 1 = n_exe
        BY <1>0, <2>1
      <3> QED
        BY <3>3, <3>4
    <2>5. ~failed'
      BY <2>1, <2>4 DEF wrong, Sums
    <2> QED
      BY <1>0, <1>5, <2>1, <2>2, <2>3, <2>5 DEF Sums
  <1>6. CASE UNCHANGED vars
    BY <1>1, <1>6 DEF vars
  <1> QED
    BY <1>2, <1>3, <1>4, <1>5, <1>6 DEF Next, zyva

-----------------------------------------------------------------------------
(* The histogram that main prints.                                         *)

Joined == 0..(main-1)

(* main has joined instances that are done, whose outcomes are in total;   *)
(* and what has stopped the test is in the histogram of some instance.     *)
Merged == /\ main \in 0..n_exe
          /\ \A z \in Joined : pc[z] = "done"
          /\ IsFiniteSet(counted(n_pos, Joined)) /\ IsFiniteSet(counted(n_neg, Joined))
          /\ total.pos = Cardinality(counted(n_pos, Joined))
          /\ total.neg = Cardinality(counted(n_neg, Joined))
          /\ stop_now => \E z \in Zyvas : settled(hist[z])
          /\ ~stop_now => total.pos + total.neg = n_outs * main

(* One more instance adds its counter.                                     *)
LEMMA CountedOne ==
  ASSUME NEW S, NEW f, NEW z, z \notin S, f[z] \in Nat, IsFiniteSet(counted(f, S))
  PROVE  /\ IsFiniteSet(counted(f, S \cup {z}))
         /\ Cardinality(counted(f, S \cup {z})) = Cardinality(counted(f, S)) + f[z]
  <1> DEFINE A == counted(f, S)
             B == {z} \X (1..f[z])
  <1>1. counted(f, S \cup {z}) = A \cup B /\ A \cap B = {}
    BY DEF counted
  <1>2. IsFiniteSet({z}) /\ Cardinality({z}) = 1
    BY FS_Singleton
  <1>3. IsFiniteSet(1..f[z]) /\ Cardinality(1..f[z]) = f[z]
    BY FS_Interval
  <1>4. IsFiniteSet(B) /\ Cardinality(B) = Cardinality({z}) * Cardinality(1..f[z])
    BY <1>2, <1>3, FS_Product
  <1>5. Cardinality(B) = f[z]
    BY <1>2, <1>3, <1>4
  <1>6. Cardinality(A) \in Nat
    BY FS_CardinalityType
  <1> HIDE DEF A, B
  <1>7. Cardinality(A \cap B) = 0
    BY <1>1, FS_EmptySet
  <1>8. IsFiniteSet(A)
    BY DEF A
  <1>9. /\ IsFiniteSet(A \cup B)
        /\ Cardinality(A \cup B) = Cardinality(A) + Cardinality(B) - Cardinality(A \cap B)
    BY <1>4, <1>8, FS_Union
  <1>10. Cardinality(A \cup B) = Cardinality(A) + f[z]
    BY <1>5, <1>6, <1>7, <1>9
  <1> QED
    BY <1>1, <1>9, <1>10 DEF A

LEMMA InitMerged == Init => Merged
  <1> SUFFICES ASSUME Init PROVE Merged
    OBVIOUS
  <1>1. Joined = {} /\ total.pos = 0 /\ total.neg = 0 /\ main \in 0..n_exe
    BY ZyvaAssumption DEF Init, Joined, zero
  <1>2. counted(n_pos, Joined) = {} /\ counted(n_neg, Joined) = {}
    BY <1>1 DEF counted
  <1>3. n_outs * main = 0
    BY Sizes, ZyvaAssumption DEF Init, n_outs
  <1> QED
    BY <1>1, <1>2, <1>3, FS_EmptySet DEF Merged, Init

(* What main adds when it has joined instance main.                        *)
LEMMA MergeOne ==
  ASSUME IInv, Sums, Merged, main \in Zyvas, pc[main] = "done", main' = main + 1,
         total' = add(total, hist[main]), UNCHANGED <<pc, stop_now, hist>>
  PROVE  Merged'
  <1>0. n_exe \in Nat \ {0} /\ n_outs \in Nat
    BY Sizes, ZyvaAssumption DEF n_outs
  <1>1. /\ main \in Nat /\ main' \in 0..n_exe /\ main \notin Joined
        /\ Joined' = Joined \cup {main} /\ Joined \subseteq Zyvas
    BY <1>0 DEF Joined, Zyvas
  <1>2. /\ n_pos' = n_pos /\ n_pos[main] = hist[main].pos
        /\ n_neg' = n_neg /\ n_neg[main] = hist[main].neg
    BY DEF n_pos, n_neg
  <1>3. hist[main] \in Hists /\ total \in Hists
    BY DEF Sums
  <1>4. /\ total'.pos = total.pos + hist[main].pos
        /\ total'.neg = total.neg + hist[main].neg
    BY DEF add
  <1>5. /\ IsFiniteSet(counted(n_pos, Joined \cup {main}))
        /\ Cardinality(counted(n_pos, Joined \cup {main})) = total'.pos
    <2>1. /\ n_pos[main] \in Nat /\ IsFiniteSet(counted(n_pos, Joined))
          /\ total.pos = Cardinality(counted(n_pos, Joined))
      BY <1>2, <1>3 DEF Merged, Hists
    <2>2. /\ IsFiniteSet(counted(n_pos, Joined \cup {main}))
          /\ Cardinality(counted(n_pos, Joined \cup {main}))
               = Cardinality(counted(n_pos, Joined)) + n_pos[main]
      <3>1. PICK f, S, z : f = n_pos /\ S = Joined /\ z = main
        OBVIOUS
      <3>2. z \notin S /\ f[z] \in Nat /\ IsFiniteSet(counted(f, S))
        BY <1>1, <2>1, <3>1
      <3>3. /\ IsFiniteSet(counted(f, S \cup {z}))
            /\ Cardinality(counted(f, S \cup {z})) = Cardinality(counted(f, S)) + f[z]
        BY <3>2, CountedOne
      <3> QED
        BY <3>1, <3>3
    <2> QED
      BY <1>2, <1>4, <2>1, <2>2
  <1>6. /\ IsFiniteSet(counted(n_neg, Joined \cup {main}))
        /\ Cardinality(counted(n_neg, Joined \cup {main})) = total'.neg
    <2>1. /\ n_neg[main] \in Nat /\ IsFiniteSet(counted(n_neg, Joined))
          /\ total.neg = Cardinality(counted(n_neg, Joined))
      BY <1>2, <1>3 DEF Merged, Hists
    <2>2. /\ IsFiniteSet(counted(n_neg, Joined \cup {main}))
          /\ Cardinality(counted(n_neg, Joined \cup {main}))
               = Cardinality(counted(n_neg, Joined)) + n_neg[main]
      <3>1. PICK f, S, z : f = n_neg /\ S = Joined /\ z = main
        OBVIOUS
      <3>2. z \notin S /\ f[z] \in Nat /\ IsFiniteSet(counted(f, S))
        BY <1>1, <2>1, <3>1
      <3>3. /\ IsFiniteSet(counted(f, S \cup {z}))
            /\ Cardinality(counted(f, S \cup {z})) = Cardinality(counted(f, S)) + f[z]
        BY <3>2, CountedOne
      <3> QED
        BY <3>1, <3>3
    <2> QED
      BY <1>2, <1>4, <2>1, <2>2
  <1>7. ASSUME ~stop_now PROVE total'.pos + total'.neg = n_outs * (main + 1)
    <2>1. hist[main].pos + hist[main].neg = n_outs
      BY <1>7, Whole
    <2>2. total.pos + total.neg = n_outs * main
      BY <1>7 DEF Merged
    <2> QED
      BY <1>0, <1>1, <1>3, <2>1, <2>2, OutsOfRun
  <1>8. (n_outs * main)' = n_outs * (main + 1)
    BY DEF n_outs
  <1>9. counted(n_pos, Joined)' = counted(n_pos, Joined \cup {main})
    BY <1>1, <1>2 DEF counted
  <1>10. counted(n_neg, Joined)' = counted(n_neg, Joined \cup {main})
    BY <1>1, <1>2 DEF counted
  <1>11. \A z \in Joined' : pc'[z] = "done"
    BY <1>1 DEF Merged
  <1>12. stop_now' => \E z \in Zyvas : settled(hist'[z])
    BY DEF Merged
  <1> QED
    BY <1>1, <1>5, <1>6, <1>7, <1>8, <1>9, <1>10, <1>11, <1>12 DEF Merged, settled

LEMMA NextMerged == IInv /\ Sums /\ Merged /\ [Next]_vars => Merged'
  <1> SUFFICES ASSUME IInv, Sums, Merged, [Next]_vars PROVE Merged'
    OBVIOUS
  <1> USE DEF speedcheck
  <1>0. n_exe \in Nat \ {0} /\ n_exe - 1 \in Zyvas
    BY ZyvaAssumption DEF Zyvas
  <1>1. ASSUME UNCHANGED <<stop_now, hist, main, total>>,
               \A z \in Joined : pc'[z] = "done"
        PROVE  Merged'
    BY <1>1 DEF Merged, Joined, counted, n_pos, n_neg, settled, n_outs
  <1>2. ASSUME prm' = prm, NEW z \in Zyvas, EndRun(z)
        PROVE  Merged'
    <2> PICK pos \in 0..size_of_test :
          LET h == [pos |-> hist[z].pos + pos, neg |-> hist[z].neg + size_of_test - pos]
          IN  /\ pc[z] = "run" /\ pc' = [pc EXCEPT ![z] = "loop"]
              /\ hist' = [hist EXCEPT ![z] = h]
              /\ stop_now' = (stop_now \/ (speedcheck /\ settled(h)))
              /\ UNCHANGED <<main, total>>
      BY <1>2 DEF EndRun, At, goto
    <2> DEFINE h == [pos |-> hist[z].pos + pos, neg |-> hist[z].neg + size_of_test - pos]
    <2>1. /\ Joined' = Joined /\ Joined \subseteq Zyvas /\ z \notin Joined
          /\ \A y \in Joined : pc'[y] = "done"
      BY <1>0 DEF Joined, Merged, Zyvas, IInv, TypeOK
    <2>2. \A y \in Joined : n_pos'[y] = n_pos[y] /\ n_neg'[y] = n_neg[y]
      BY <2>1 DEF n_pos, n_neg, Sums
    <2>3. /\ counted(n_pos, Joined)' = counted(n_pos, Joined)
          /\ counted(n_neg, Joined)' = counted(n_neg, Joined)
      BY <2>1, <2>2 DEF counted
    <2>4. ASSUME settled(hist[z]) PROVE settled(h)
      <3>1. hist[z].pos \in Nat /\ hist[z].neg \in Nat /\ size_of_test \in Nat
        BY Sizes, ZyvaAssumption DEF Sums, Hists
      <3> QED
        BY <2>4, <3>1 DEF settled
    <2>5. hist'[z] = h /\ \A y \in Zyvas \ {z} : hist'[y] = hist[y]
      BY DEF Sums
    <2> HIDE DEF h
    <2>6. ASSUME stop_now' PROVE \E y \in Zyvas : settled(hist'[y])
      <3>1. CASE stop_now
        <4>1. PICK y \in Zyvas : settled(hist[y])
          BY <3>1 DEF Merged
        <4> QED
          BY <2>4, <2>5, <4>1
      <3>2. CASE settled(h)
        BY <2>5, <3>2
      <3> QED
        BY <2>6, <3>1, <3>2 DEF h
    <2>7. (n_outs * main)' = n_outs * main
      BY DEF n_outs
    <2>8. ~stop_now' => ~stop_now
      OBVIOUS
    <2> QED
      BY <2>1, <2>3, <2>6, <2>7, <2>8 DEF Merged, settled
  <1>3. ASSUME prm' = prm, NEW z \in Zyvas, Steps(z)
        PROVE  Merged'
    <2>1. Joined \subseteq Zyvas /\ \A y \in Joined : pc[y] = "done"
      BY <1>0 DEF Joined, Merged, Zyvas
    <2>2. /\ UNCHANGED <<stop_now, hist, main, total>>
          /\ pc[z] = "done" => pc' = pc
          /\ \E l \in {"loop", "choose", "run", "done", pc[z]} : pc' = [pc EXCEPT ![z] = l]
      BY <1>3 DEF Steps, Start, LoopEnd, Meet, Break, Go, ShuffleCpus, ScanCpus, Pin,
                  At, goto, IInv, TypeOK
    <2>3. \A y \in Joined : pc'[y] = "done"
      BY <2>1, <2>2 DEF IInv, TypeOK
    <2> QED
      BY <1>1, <2>2, <2>3
  <1>4. ASSUME prm' = prm, NEW z \in Zyvas, Join(z)
        PROVE  Merged'
    BY <1>4, MergeOne DEF Join
  <1>5. CASE prm' = prm /\ Postlude
    <2>1. main + 1 = n_exe /\ main = n_exe - 1
      BY <1>0, <1>5 DEF Postlude
    <2> QED
      BY <1>0, <1>5, <2>1, MergeOne DEF Postlude
  <1>6. CASE UNCHANGED vars
    BY <1>1, <1>6 DEF vars, Merged
  <1> QED
    BY <1>2, <1>3, <1>4, <1>5, <1>6 DEF Next, zyva

(* The histogram that main prints is the sum of those of the instances;    *)
(* fatal("sum_hist") is never called; and all the outcomes are there,      *)
(* size_of_test * max_run of each instance, unless speedcheck has cut the  *)
(* test short, and then one of them settles the condition.                 *)
THEOREM SumHistHolds == Spec => []SumHist
  <1>1. ASSUME Sums, Merged PROVE SumHist
    <2> SUFFICES ASSUME main = n_exe
                 PROVE  /\ total.pos = Cardinality(counted(n_pos, Zyvas))
                        /\ total.neg = Cardinality(counted(n_neg, Zyvas))
                        /\ \/ total.pos + total.neg = n_outs * n_exe
                           \/ speedcheck /\ settled(total)
      BY <1>1 DEF SumHist, Done, Sums
    <2>1. Joined = Zyvas
      BY DEF Joined, Zyvas
    <2>2. /\ total.pos = Cardinality(counted(n_pos, Zyvas)) /\ IsFiniteSet(counted(n_pos, Zyvas))
          /\ total.neg = Cardinality(counted(n_neg, Zyvas)) /\ IsFiniteSet(counted(n_neg, Zyvas))
      BY <1>1, <2>1 DEF Merged
    <2>3. CASE ~stop_now
      BY <1>1, <2>2, <2>3 DEF Merged
    <2>4. CASE stop_now
      <3>1. PICK z \in Zyvas : settled(hist[z])
        BY <1>1, <2>4 DEF Merged
      <3>2. hist[z].pos \in Nat /\ hist[z].neg \in Nat /\ total.pos \in Nat /\ total.neg \in Nat
        BY <1>1 DEF Sums, Hists
      <3>3. hist[z].pos > 0 => <<z, 1>> \in counted(n_pos, Zyvas)
        BY <3>2 DEF counted, n_pos
      <3>4. hist[z].neg > 0 => <<z, 1>> \in counted(n_neg, Zyvas)
        BY <3>2 DEF counted, n_neg
      <3>5. hist[z].pos > 0 => total.pos # 0
        BY <2>2, <3>3, FS_EmptySet
      <3>6. hist[z].neg > 0 => total.neg # 0
        BY <2>2, <3>4, FS_EmptySet
      <3>7. settled(total)
        BY <3>1, <3>2, <3>5, <3>6 DEF settled
      <3> QED
        BY <1>1, <2>2, <2>4, <3>7 DEF Sums
    <2> QED
      BY <2>3, <2>4
  <1>2. Spec => []Sums
    BY InitSums, NextSums, ZyvaInvariant, PTL DEF Spec
  <1>3. Spec => []Merged
    BY <1>2, InitMerged, NextMerged, ZyvaInvariant, PTL DEF Spec
  <1> QED
    BY <1>1, <1>2, <1>3, PTL

=============================================================================
