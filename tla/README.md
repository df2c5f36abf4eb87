# A verification development for the litmus7 runtime of herdtools7

herdtools7 is a tool suite around litmus tests: small concurrent programs whose
possible outcomes tell memory models apart. `herd7` enumerates the outcomes a
model allows, `diy7` and friends generate tests, `litmus7` turns a test into a C
program that runs it millions of times on real hardware and counts the outcomes.

A litmus7 program is concurrent code of a delicate kind. It runs the racy
fragments that are under test on purpose, and around them it has to initialise,
synchronise, place, collect and count without a race of its own, with hand-made
barriers, because locks would disturb what is measured. An error there does not
crash: it silently attributes an outcome to the hardware that the hardware never
produced. This is the part modelled here.

## 1. Inventory

### 1.1 The system

| component | source | state | operations | how it interacts |
|---|---|---|---|---|
| sense barrier `sense_t` | `litmus/libdir/_*/barrier.c`, `kbarrier-tb.txt` | counter, sense bit | `barrier_init`, `barrier_wait` | called by every test thread, several times per iteration (presi, TimeBase) |
| pthread barrier `pb_t` | `litmus/libdir/_utils.c` 908-939 | count, turn bit, condition variable | `pb_create`, `pb_wait` | between instances (`p_barrier`), and around checks of globals (`fst_barrier`) |
| soft barriers user, user2 | `litmus/skel.ml` 483-545, 1715-1731 | one flag per index, or N flags | emitted `barrier_wait` | once per iteration of a standard test |
| or-flag `po_t`, stabilisation | `_utils.c` 942-992, `skel.ml` 1156-1341 | count, turn, val; copies of the globals | `po_reinit`, `po_wait`, `check_globals`, `stabilize_globals` | all threads of an instance, in safer mode |
| thread cache and one place buffers | `_utils.c` 995-1235 | counters, stack of jobs, buffers | `launch_cached`, `join_detached`, `pool_put`, `pool_get`, `op_set`, `op_get` | `main` launches instances, instances launch threads |
| run loop of standard tests | `skel.ml` 1777-2400, 2500-2765 | affinity array, `stop_now`, histograms | `P<i>`, `zyva`, `main` | instances share the processors and the stop flag |
| run loop of presi tests | `preSi.ml` 1525-2075, `_instance.c`, `_main.c` | role and thread permutations, parameters, variables, time base, log | `choose`, `set_role`, `choose_params`, `do_run` | all threads share all of it, ordered by barriers only |
| outcome hash tables | `_hash.c`, `_main.c` 113-129 | open addressing table per instance, and their sum | `hash_add`, `hash_adds` | role 0 of each instance, then `RUN` |
| outcome trees | `_outs.c`, `defString.ml` | one tree of counters per thread and per instance | `add_outcome_outs`, `merge_outs`, `same_outs`, `dump_outs` | filled by `zyva`, merged and checked by `main` |
| command lines | `_utils.c` 430-803, `_presi.c` 73-257, `_main.c` | `cmd_t`, `opt_t`, `errno` | `parse_cmd`, `parse_opt`, `parse_param` | give `main` its parameters |
| affinity computation | `_utils.c` 222-428, `_linux_affinity.c`, `skel.ml` 2544-2707 | core map, array `aff_cpus` | `custom_affinity`, walk by increments, allocation | `main` hands slices of the array to instances |
| topology allocation | `topology.ml` | tables | | parameters of the loops above |
| KVM harness (AArch64) | `preSi.ml`, `_aarch64/kvm-headers.h`, `kvm_fault_*.c` | page table entries, their saved copies, lists of faults, `TCR_EL1` | `litmus_set_pte_safe`, `litmus_set_pte_attribute`, `record_fault`, `set_hahd_bits` | around each iteration of presi tests |
| klitmus, test compiler | `KSkel.ml`, `compile.ml`, ... | | | |
| herd, relations, generators, ASL, tools | `herd/`, `lib/`, `gen/`, `asllib/`, `tools/`, `jingle/`, `internal/` | batch programs without concurrency | | |

### 1.2 What is hard, and what must be true

The hazards that properties are about are in `PROJECT.json`, each at its line. They are of
these kinds:

* **Reuse of barriers.** Every barrier is re-entered at once by the thread that
  is let go first, while others have not left. Both `sense_t` and `pb_t` tell
  episodes apart by one bit. Correct: a k-th return happens after all k-th
  arrivals, and nobody is left behind.
* **Wake ups.** `pb_wait`, `po_wait` and `pool_get` sleep on condition variables,
  which wake up spuriously; broadcasts wake up more threads than can go on.
  Correct: no early return and no lost wake up.
* **Jobs that depend on jobs.** Cached threads run jobs that wait for other jobs
  (barriers of the test, joins). Correct: a job is never queued behind one that
  runs; the program terminates.
* **Unlocked sharing.** Permutations, parameters, variables, time bases and logs
  are written by one thread and read by others with only barriers in between.
  Correct: what is read belongs to the current iteration, and the outcome that
  is logged belongs to one iteration.
* **Limits.** A hash table that fills up drops outcomes. Correct: it is told if
  and only if counts are short.
* **Early stop.** `stop_now` is set by any instance at any moment. Correct: all
  instances leave the loop together, when they must, and the histogram shows why.
* **Page tables.** The harness changes entries that other processors, and the
  hardware itself, read and write at the same time. Correct: nobody uses two
  translations of one address, the test starts from the entry it asked for, the
  harness itself never faults, and an update by the hardware is in the outcome.
* **Parameters.** Sizes of arrays, increments, delays and addresses are computed
  from the command line. Correct: no access outside an array, an even spread of
  threads, a number that is what the user wrote or is refused.

Met while reading, and without a property, because nothing in the repository says
what should happen or because no outcome depends on them: `do_argint` tests
`errno` without clearing it, so that a list with an element out of range, or a
factor that `strtod` finds too large or too small, makes the next number a fatal
overflow (`_utils.c` 537, modelled); a plain number larger
than an int is truncated (540, modelled); the presi `my_pow10` does not compare
with `INT_MAX` (`_presi.c` 80, modelled); a factor of 0 or a negative number of runs
is accepted (709); `perm_ints` never moves the last element (1250); `hash_log`
hashes faults in the order of their recording while `eq_faults` ignores it
(`_hash.c` 130), which splits an entry in two; `litmus_init` resets `TCR_EL1` on the
boot processor only (`kvm-headers.h` 327); `litmus_set_pte_attribute` may undo an
access flag that the hardware sets between its read and its write (148,
modelled); `LINE` counts variables, not items of arrays (`preSi.ml` 1350);
`read_force_affinity` loops for ever if more processors are asked for than exist
(`_linux_affinity.c` 75).

## 2. Modules

Where a module stands for shared-memory code, an action is one shared access
(`SenseBarrier`, `UserBarrier`), or what a thread does between two releases of a
mutex (`PthreadBarrier`, `ThreadPool`, `Stabilize`) or two barriers (`Presi`,
`Zyva`). Definitions keep the names of the source. A definition `X_Slip` (say
`Decrement_OffByOne`) before the definition `X` is a plausible error in `X`:
each property has one that violates it. `Outs` alone has RECURSIVE operators, and
no theorem. `SpinBarrierProofs` has the proofs of both barriers that spin, for
which `UserBarrier` calls its specification `UserSpec` (with `UserInit` and
`UserNext`).

| module | models | composes |
|---|---|---|
| `Barrier` | abstract: what a reusable barrier promises | |
| `SenseBarrier`, `SpinBarrierProofs` | `sense_t` | implements `Barrier` |
| `PthreadBarrier`, `PthreadBarrierProofs` | `pb_t` | implements `Barrier` |
| `UserBarrier`, `SpinBarrierProofs` | user and user2 barriers with their loop | |
| `Stabilize`, `StabilizeProofs` | `check_globals`, `stabilize_globals`, `po_t` | uses `Barrier` as `fst_barrier` |
| `ThreadPool`, `ThreadPoolProofs` | thread cache, `op_t`, and `main`/`zyva` as client | |
| `Presi`, `PresiProofs` | run loop of presi tests | barrier as shown by `SenseBarrier` |
| `HashTable`, `HashTableProofs` | `_hash.c` and the sum of tables | |
| `Zyva`, `ZyvaProofs` | run loop of standard tests | barrier as shown by `PthreadBarrier` |
| `Outs` | trees of outcomes, as operators | |
| `ZyvaHist` | the trees of all instances and their merge | `Zyva` and `Outs` |
| `CmdLine` | command line of standard tests, as operators | |
| `Affinity` | core maps, custom affinity, walk by increments, as operators | |
| `Setup` | from the command line to the parameters of a test, standard or presi | `CmdLine` and `Affinity` |
| `KvmPte`, `KvmFault` | page table entries; faults, as operators | |
| `KvmTest`, `KvmTestProofs` | iterations of presi tests in KVM mode | `KvmPte` and `KvmFault` |

### 2.1 SenseBarrier

`c` and `sense` are the two shared words, `ms` the local copy of sense. The five
actions are the accesses in program order: `ReadSense` (line 57), `Decrement`
(the exclusive loop and the branch, 61-67), `SpinExit` (the successful read of
68-73), `ResetCount` (77), `FlipSense` (81). The fences of the code order these
accesses, so interleaving them is what the hardware may do; a failed
store-exclusive changes nothing, so the loop is one decrement. The actions carry
the lines of the AArch64 text. The texts of the other architectures, and of the
kernel's `sense_wait`, differ by the test of the last thread (`<= 0` or `= 0`
after the decrement) and by the reversal of the sense (`1 - x`, `sete`, bitwise
complement): these are the fields of `text`, which `Init` chooses.

### 2.2 PthreadBarrier

The mutex is released only in `pthread_cond_wait` and at the end, so a critical
section is one action: `Arrive` goes to sleep, `ArriveLast` ends the episode and
broadcasts, `SleepAgain` and `Return` are the two outcomes of the test after a
wake up, and `SpuriousWakeup` is the library. `ReturnLast` separates the end of
the critical section of the last thread from its return, which is when the
caller goes on.

### 2.3 UserBarrier

`Init` chooses among the modes of a run, user or user2 (`Compact`), with a stride.
`at` says whether a thread is at the barrier or in the code of its index `i`.
`cell`, `free` and `leader` are the index arithmetic of
the emitted functions; `succ` is the order in which the loop with strides visits
indices. The barrier is one poll or one store; a thread stores into a flag only
after it has left earlier spin loops, and each flag is a single cell, hence
interleaving is adequate even for the variant without fences.

### 2.4 Stabilize

One location is followed; the others are independent. The memory is external: a
processor knows its own stores at once and learns of the others one by one in
any order, seeing the last one in coherence order that it knows. This is weaker
than any of the targets, on purpose. `check_globals` must find the initial value
whatever the other threads do (`ChecksPass`).

### 2.5 ThreadPool

`n_pool`, `n_out`, `n_thread` and the stack `t` are the fields of `pool_t`;
`th[i]` is the control of cached thread i and `op[j]` the buffer of job j.
`pool_put` counts a new thread under the mutex and creates it after: such a
thread is `"starting"`. The client is the generated `main` and `zyva`: main
launches all instances but the last, runs that one, and joins; an instance
waits for the others before each run (`SyncRun`, as with random and scan
affinity: the mode in which jobs depend most on each other), launches N
threads, and joins them. A thread of the test returns only after all threads of
its run have started (`MayReturn`), since they meet in the barriers of the test.
`MaxThreads` is a bound of the model, the number of jobs that may run at a time:
a launch that would create one more thread, because one that has given its result
is not back in the pool yet, waits for it.

### 2.6 Presi

`gind` is `g->ind`, `ind` the `ctx->ind` of each instance, `place` the two
arrays `inst` and `role` that `topology.ml` writes (an instance for which the
allocation fails has no processor). `parts` is the sequence drawn from the
common seed 0. `arrived[x]` is a barrier in the form that `SenseBarrier`
justifies. Data is stamped with the iteration that wrote it: `vars_` the
placement of variables, `par` other parameters, `mem` their values, `next_tb`
the time base, `log` the two parts of the outcome (registers and final values).
The test has at least one global variable, which is why `PlaceVars` ends with a
barrier; `have_cache` and `have_globals` switch the two optional barriers of
`do_run`. Page table code is in `KvmTest`, parameters are in `Setup`; statistics are
left out.

### 2.7 HashTable

`probe` says where the linear probe of an outcome stops, for any hash function.
`Collected`/`Dropped` is `hash_add` by role 0 of an instance, with the update of
`hash_ok`; the merge of `RUN` goes entry by entry. `seen` is a history variable:
what each table was given. `ok` of an unused entry is arbitrary, since
`hash_init` leaves it uninitialised in allocated memory.

### 2.8 Zyva

`cpus` is `aff_cpus`, of which instance z has the slice that starts at `N*z`;
`pinned` what its running threads have bound themselves to. It is cleared when
they are joined, which is right for standard and detached threads; a cached thread
(see ThreadPool) keeps its mask, so that one whose next entry is -1 may still be bound
to an earlier processor, which is not covered. `Meet`, `Break`,
`ShuffleCpus` and `ScanCpus` are the branches at lines 2115-2137, `EndRun` is
join, collection and the speedcheck test, `Join` and `Postlude` the end of main.
There is no filter in the modelled test (a filter disables the sum checks).

### 2.9 Outs and ZyvaHist

A tree of `_outs.c` is a sequence of cells, ordered by key, each with its counter
and the tree below it; one level per register or location, the last one first.
`ZyvaHist` adds to `Zyva` the trees of each instance: `outs`, filled from the
arrays after the run, and `outs0`, which the harness of the safer modes builds
from the histograms of its threads by merges. `Log` extends `EndRun` by the
outcomes of a run, `Merge` extends `Join`, `End` is the postlude. `seen` is a
history variable, the bag of outcomes. `Histogram` says that every check the
program makes on its trees passes (`same_hist`, the sums), that the counts of
`main` are those of the outcomes seen, and that what `dump_outs` prints has each
outcome once, in order, with its count and its star.

### 2.10 CmdLine, Affinity and Setup

`parse_cmd(d, p, errno, o, a)` is the set of results of one option: the program
goes on with new parameters, or exits by `usage` or by `fatal`. It is a set
because signed overflow is undefined: `times10` gives what builds may do. A number is
`num`, `unit` and `rest`, where `rest` means malformed; a factor is a fraction with
`rest` and `erange`; lists are sequences, whose elements have a `rest` as well; all
other texts are names. `argint`, `argdouble`, `argcpus`, `argints` and `parse_prefetch`
each have their way to `usage`. `errno` is state, set by `strtol` and `strtod`, since
the code tests it without clearing it. `int` and `strtol` have
the widths `INT_MAX` and `LONG_MAX`. In `Affinity` a core map is a sequence in which
`Uninit` marks what the code leaves unset. `Setup` runs either program: `Start`
reads the processors, `ParseOption` takes an option, `Run` computes everything
`main` computes before it launches the instances, and goes to the state `"undefined"`
if an array would be read or written outside of it; `StartPresi`, `EndOptions`,
`ParseParam` and `EndParams` are the counterparts for presi tests.

`CommandLine` says which arguments are refused, and how: `usage` is for an option
that is not announced and for an argument that is malformed or names a processor,
thread or variable that does not exist, `fatal("overflow")` for a number that is too
large or for a stale `errno`. All else is accepted, with the value the user wrote.

`InBounds` lists what may lead to `"undefined"`: more processors said available
(`-a`) than listed, processors of `-p` beyond the core map or cores that are not
full with custom affinity, and more instances than the topologies were computed
for. The property is that nothing else does.

### 2.11 KvmPte, KvmFault and KvmTest

An entry is the set of its bits. `KvmTest` follows one variable x, its page table
entry, and the role that owns it. Before the test code the owner installs the
initial entry (`Argument`, `Break`, `Flush`, `Make`), then its attributes
(`ReadAttr`, `StoreAttr`: a read and a write of a valid entry), and flushes
(`FlushLast`); after the code it swaps in the saved entry by the same sequence,
and the old one goes to the outcome. Each access of the entry is an action. The
MMU is external: any processor may walk the table at any moment (`Speculate`),
sets the access flag or the dirty state if `TCR_EL1` lets it, keeps a TLB entry
until it is invalidated, and faults as the architecture says. `Fault` is
`fault_handler` with the three ways of going on after a fault. `StartTest` and
`EndTest` put several tests in one executable on the same processors, which is
where features of one test may reach the next.

## 3. Runs

| run | states | checks |
|---|---|---|
| `sense_barrier` | 729 | `BarrierInv`, `ImplementsBarrier`, `AllRoundsDone`, in all texts |
| `pthread_barrier` | 347 | `PbInv`, `ImplementsBarrier`, `AllRoundsDone` |
| `user_barrier` | 4,399 | `LeaderFirst`, `BoundedSkew`, `AllDone`, user with strides and user2 without |
| `user2_stride` | | `AllDone` is **violated**: see 5 |
| `stabilize` | 257,304 | `ChecksPass`, `OrOfAll`, `StableIsFinal`, `AllReturn` |
| `thread_pool` | 224,469 | `PoolInv`, `PoolStatus`, `NobodySleeps`, `SetOnce`, `Termination` |
| `presi` | 444,148 | `OneThreadPerRole`, `FreshVariables`, `SameTimeBase`, `OutcomeOfOneIteration`, `AllOutcomesLogged` |
| `hash_table` | 186,420 | `TableInv`, `NothingLost`, `Report` |
| `zyva` | 113,627 | `DistinctCpus`, `StopTogether`, `Histogram`, `Termination`, in every affinity mode, with and without speedcheck |
| `setup` | 503,529 | `CommandLine`, `InBounds`, `Balanced`, `PresiParams` |
| `kvm` | 45,106 | `Undisturbed`, `BreakBeforeMake`, `FreshTranslations`, `LoggedPte`, `FaultsLogged`, `FeaturesAsAsked` |
| `kvm_reset` | | `FeaturesAsAsked` is **violated**: see 5 |

**Bounds.** Three threads make two waiters race with each other and with the
last one; four episodes use each value of the bit twice, once after it wrapped.
User2 needs more than 4N indices for a flag to be reversed back and forth. Three
threads make the ring comparison of `stabilize_globals` differ from a pairwise
one. Two instances of two threads nest jobs within jobs; two runs use cached
threads again in any order. Two runs of two iterations of `Presi` have a change
of iteration within a run, and a change of run with and without a change of
topology and with idle threads. A table of three entries with four outcomes
overflows in an instance, in the sum, or in both, and the collisions wrap around
the end. The trees of outcomes have two levels, so that a merge meets equal and
different prefixes. Two options on a command line (`MaxOptions`) suffice for one
to disturb the next (`errno`, the affinity modes, `-a` with `-n` or `-p`); the types
are scaled to `INT_MAX = 2^21 - 1` and `LONG_MAX = 2^27 - 1`, far enough from each
other and from 10^6 for each of the tests of overflow to be reached and to be
passed, and `MaxInstances` bounds the arrays. Two KVM tests in a row, of four that
differ in features, initial entry and handling of faults, on two processors,
have each role change, use and lose the entry, and one test follow another.
Each MC module says it for its own constants.

**Deadlock** is checked in the runs of `ThreadPool`, `Presi`, `HashTable`, `Zyva`,
`Setup` and `KvmTest`, whose programs end by an explicit final step; the barriers and
`stabilize` stop when the loops of all threads have ended, which the liveness
property of each run demands.

**Fairness.** Weak fairness of each thread: a litmus test runs with no more
threads than processors (or under a preemptive scheduler), and each thread keeps
executing. For the mutexes it says that a thread that wants one gets it in the
end: critical sections are short and no thread re-takes a mutex without leaving.
No fairness is assumed of spurious wake ups. In `Stabilize`, every store reaches
every processor in the end, which coherence guarantees. The runs of `Setup` and
`KvmTest` check safety only and assume no fairness.

**What the runs taught.**

* The barrier at the top of the iteration in `choose_params` (`preSi.ml` 1904)
  looks redundant, as iterations end with barriers; it protects role 0, which
  after the last barrier still reads the placement of variables (`idx_addr`) and
  the parameters. Without it `FreshVariables` fails.
* In scan mode the first of the two waits for `p_barrier` only serves the
  speedcheck break: slices are disjoint, the second wait is enough for
  `DistinctCpus`. In random mode it is needed, since instance 0 changes the
  slices of all.
* The second `pb_wait(fst_barrier)`, at the start of `stabilize_globals`, is not
  needed for `StableIsFinal`: `po_reinit` is itself a barrier, and a round of
  copies made too early is followed by another.
* The last flush of `litmus_set_pte_safe`, "to be performed explicitly" by the
  caller, is needed although the sequence has flushed before: a walk between the
  new entry and its attributes leaves a TLB entry without them.
* `custom_affinity` compares cores with elements of the list of processors
  (`_utils.c` 408 and 418 pass `aff_cpus->cpu` where the core map is expected). As long as
  processors are numbered from 0 the reads stay in bounds; the requests for
  different cores are then compared with the wrong number.

## 4. Proofs

TLC checks the instances above. TLAPS proves, for every value of the constants:

| theorem | module | says |
|---|---|---|
| `SenseBarrierInvariant` | `SpinBarrierProofs` | `BarrierInv` always holds |
| `SenseBarrierCorrect` | | `barrier_wait`, in every text, implements `Barrier` |
| `UserBarrierInvariant`, `LeadersFirst` | | nobody runs an index before its leader; for user2, if there are no strides |
| `SkewBounded` | | without strides no thread is N indices ahead of another |
| `PthreadBarrierInvariant` | `PthreadBarrierProofs` | `PbInv` always holds |
| `PthreadBarrierCorrect` | | `pb_wait` implements `Barrier` |
| `PoolInvariant`, `NoJobWaits`, `NoLostWakeup` | `ThreadPoolProofs` | the counters count, each queued job has an idle thread, nobody sleeps on a job |
| `PoolStatusHolds` | | "Cache pool invariant violation" cannot happen |
| `OneResultPerLaunch` | | a launched job is in one place until its buffer is set, once: `op_set` never meets a full buffer |
| `TablesInvariant`, `TablesWellFormed` | `HashTableProofs` | one entry per outcome, which its probe reaches |
| `NoSilentLoss` | | unless a failure is flagged, the counts are exact |
| `ReportCorrect` | | the warning of a full table is printed if and only if some count is short, no count is too large, and without it the numbers of positive and negative outcomes are right |
| `ZyvaInvariant`, `NoSharedCpu` | `ZyvaProofs` | threads that run are bound to different processors, in every affinity mode |
| `BreakTogether` | | instances that meet before each run leave the loop at the same run |
| `SumHistHolds` | | the histogram of main is the sum of those of the instances, `fatal("sum_hist")` is never called, and only a settled condition cuts the test short (`SumHist`, the first conjunct of `Histogram`) |
| `StabilizeInvariant`, `GlobalsChecked` | `StabilizeProofs` | `check_globals` sees the initial values |
| `PoWaitIsOr` | | `po_wait` gives all threads the or of their arguments |
| `ReturnsFinalState` | | `stabilize_globals` returns when all have copied the last value |
| `PresiInvariant`, `RolesCastOnce` | `PresiProofs` | a role of an instance is played by one thread |
| `VariablesFresh`, `TimeBaseShared` | | variables, parameters and time base are those of the present iteration |
| `OneIterationLogged` | | an outcome has the parts of all roles, of one iteration |
| `KvmInvariant`, `BreaksBeforeMake`, `StartsFresh`, `HarnessUndisturbed` | `KvmTestProofs` | changes of an entry leave no translation behind, and the harness itself never faults |
| `PteLogged` | | the logged entry is the one the test expects, field by field |
| `FaultsRecorded` | | the lists of faults, and what is printed of them, decide the atoms of the condition, if the lists are long enough |
| `FeaturesSwitched` | | a test has the hardware management it asks for, if `HAFDBS` is at most 2 |

**Barriers.** That all threads are in the same episode (`SameEpisode`) is not
inductive: it needs that the counter is the number of threads still to arrive
(`CountRemaining`, stated with the cardinality of the threads whose local bit is
the current one), that a thread about to decrement has read the current bit
(`FreshSense`), and that the thread that resets does so with all others
waiting (`ResetAlone`). The last thread is last because the cardinality of the
waiting threads is n - 1; then everyone's bit is the same, and the flip moves
all from waiting to released at once. `episode(p)` counts a released thread as
already in the next episode, which gives the refinement mapping: inside is the
set of threads between decrement and return, and a thread leaves only when every
other one has arrived for its episode. For `pb_t` the counterpart of `ResetAlone`
is `NoLostWakeup`. The texts of `barrier_wait` need two facts: reversing
the sense gives the other one, and the counter is never negative, so that `<= 0`
and `= 0` agree. The proofs assume a finite, non-empty set of threads.

**Flags that go round.** A flag of the user barrier is raised once, by its leader
(`Raised`), which gives `LeaderFirst` for every stride. The compact barrier has one flag
for all the indices of a leader. `Reversed` says what it means: its value is not
the one that the leader will store at its next use (`NextUse`). `Order` says that whoever
has passed an index comes after its leader; as the leaders of N consecutive indices
are all the threads, a follower is less than a round away from the leader it
waits for. So if the leader had not passed the index of the follower, that index
would be its next use, and the flag would have the other value (`FlagSeen`). `Order`
also gives `SkewBounded`. That consecutive uses of a flag store different values is
arithmetic of remainders by N and 2*N, which the backends do not do for a
variable N: `DivMod`, `Multiple`, `Half` and `NextFree` prove it from
quotients. `LeadersFirst` assumes that a compact barrier comes without strides;
`user2_stride` shows what happens otherwise (see 5).

**Pool.** The invariant that carries the proof is `n_pool + Len(t) =
Cardinality(Idle)`: idle threads are those that are free and those that are
reserved. `pool_put` moves one unit from the first to the second; `pool_get` adds
one, and popping a job removes one. `PoolStatus` then follows by counting
`Alive = Busy \cup Idle`.

`OneResultPerLaunch` rests on a second invariant, `PlacesInv`, about jobs: a job
is in the table or with one thread, never twice (`OnePlace`); a buffer is empty
just as long as its job is somewhere (`EmptyBuffers`); and an instance that has
not started, or has joined, has no jobs of its threads about (`NotStarted`,
`NoBuffers`), so that a launch finds its job nowhere.

**Tables.** `Reachable` (all entries on the way to an outcome are used) is what
makes `OneEntry` inductive: a probe that stops at an unused entry has passed by
every place where the outcome could be. Entries are never freed, hence
`Reachable` is stable. `NothingLost` relates counters with the history.

The report is about sums, which are folds over sets. `sumOf(g, S)` is shown to be the
number of units, pairs of an element x and a number up to g[x] (`SumIsUnits`): the fold is
determined by its equation, since a smallest set on which it differed would lose the
element that the fold picks (`Smallest`). From there on sums are cardinalities,
and the lemmas on sums that agree, differ at one point, are below each other, or are renamed
follow from the theorems about finite sets. `MergeInv` gives the state of the merge: what
the sum was given is what the entries scanned so far held (`Moved`), no table
holds more than it was given (`AtMost`), and a cleared flag has a cause, an outcome whose count is short
(`Short`).

**Threads in step.** `Zyva`, `Presi` and `KvmTest` share an argument. Their
threads are ordered by barriers only, and each property is about the data that one
thread finds while others are anywhere. The invariant maps each thread to the
segment between two barriers that it is in; a thread that waits is still in the
segment before. All threads that share a barrier are in the same segment: a step
within a segment does not change the map, an arrival does not either, and the
last arrival moves all of them at once. What a thread finds then follows from the
segment and from what each thread does to its own part of the data in it.

* `ZyvaProofs`: the segment is `phase`, the numbers of the run and of the wait.
  `Cpus` says what the array holds in a phase: different processors, or the slices of the
  topology of the run. `Pinned` ties the running threads to it. In the modes that
  shuffle or scan, the array changes in the phase where nobody is pinned.
  `stop_now` is read in that phase, and set only in the other, hence
  `BreakTogether`. `Sums` gives the number of outcomes of each instance, and `Merged`
  says that the total has the outcomes of the instances joined so far, counted as
  pairs of an instance and a number, and that what made `stop_now` true is
  in the histogram of some instance.
* `PresiProofs`: the barrier `gb` separates the casting of a run from its
  performance (`InStep`). In the casting, `CastOf` says what a thread knows of
  its role: the place that the topology sends it to, then, once the barrier of
  the instance has been passed, its image by the shuffle of the roles, which
  nobody changes any more. A topology gives a place to one processor, and the
  shuffles are permutations, hence each instance has each role once when the
  performance starts (`Complete`): a permutation of a finite set is onto, by
  `FS_Injection`. This also counts the threads that meet in the barrier of an
  instance: exactly N, so that the last one is the last one. `Together` compares
  segments and iterations started in an instance; `DataOf` says that the part of a thread is of
  its iteration, or of the one before while it rests between two iterations.
  The latter is what role 0 needs while it adds the outcome and the others go on.
* `KvmTestProofs`: only the owner changes the entry, and the others are located by
  `Together`. Wherever the owner is, the entry and all TLBs are related: at rest
  (`Rest`: the entry is the one of the boot and so are its translations), between
  break and make (`Broken`: no valid entry, then no translation), made (`Made`:
  translations to the same page), fresh (`Fresh`: only the bits that the hardware
  manages may differ). Speculative walks happen at any time and preserve each of these.
  For the outcome, `Shown` says of which entry the expected description is the
  description, according to where the owner is: of the present entry while it is installed,
  of the saved one while it is replaced, of the logged one from the swap on. Bits
  are compared one by one, so that no power of two is computed.
  `Rounds` says that all roles have done the same number of iterations, hence that
  the lists of faults which role 0 finds are of its own; `Recorded` that a list has
  different faults, all of them raised, and for each fault left out one that
  matches it. It overflows only if there are more different faults than places, which the
  hypothesis `Fits` of the theorem excludes. What is printed is a fold over the
  atoms; `after` is its value after any set of atoms in closed form, and the fold
  is determined as above.

**The or-flag.** `OrInv` has three phases of the two calls in the loop,
`Collecting`, `Comparing` and `Leaving`; the threads that have not woken up yet from the last
call are recognised by the turn bit. `count` is the number of threads still to
come, so that the last one finds all others asleep. The comparison is a
ring: each thread compares its copy with that of its neighbour. When all
comparisons succeed the copies are all equal, by an induction along the ring in the form of
a least counterexample (`LeastNat`). One of the equal copies is that of the
writer of the last store, who has known its own store since (`WriterCopy`).

**Assumptions.** The proofs use the named assumptions of the modules and no
others. `CpusAssumption`: enough different processors, and at least one topology
to scan, in which a processor has one thread. `TestsAssumption` of `Presi`: in a
topology a processor has one place and an instance has all its roles or none,
which is what `topology.ml` writes. `PteAssumption`: the entry of a variable at
boot is valid, has the access flag and is writable, as kvm-unit-tests maps it, and
the entry of y is like it, for another page. `TestsAssumption` of `KvmTest`: an entry that
a test or its code describes names a variable and flags; the code writes no zero
entry; the threads of atoms are threads of the test. `HashAssumption`: there are finitely many
outcomes. Three theorems have a hypothesis. That of `FeaturesSwitched` restricts the
hardware, and that of `LeadersFirst` the combination of barriers and strides; the
runs `kvm_reset` and `user2_stride` show that they are needed (see 5). That of
`FaultsRecorded`, `Fits`, is about `MAX_FAULTS_PER_THREAD`, which nothing in the code
relates to a test (it is 8): beyond it `record_fault` drops faults silently. The
constants of the run satisfy `Fits`. The inductive invariants were model-checked on the
instances of the runs before they were proved.

**Only model-checked.** Liveness (`AllRoundsDone`, `AllDone`, `AllReturn`,
`Termination`, `AllOutcomesLogged`) is out of the prover's reach. So is induction
over data. Two folds could be avoided by a closed form that determines them (sums, and the
printing of faults, see above); this does not extend to `Checks` and `Printed`,
the parts of `Histogram` about trees, which are built by RECURSIVE operators, nor
to `CommandLine`, `InBounds`, `Balanced` and `PresiParams` of `Setup`, whose
algorithms are folds over options and digits and walks over arrays that depend
on each earlier step.

## 5. Findings

**The compact barrier user2 does not work with strides** (`litmus/skel.ml` 532-545
with 1836-1837). A flag of user2 is reversed each time it is used, and its value
at index k, `k % (2*N) < N`, is right for a loop that goes down by one: between
two uses of a flag the leadership has gone round, so the leader itself has waited
for all others. With strides of N (the adaptive default, line 2505, and
`dumpParams.ml` 43), all indices of a segment have the same leader and the same
flag: the leader reverses it again without waiting, and a follower that has not
looked in the meantime waits for ever. The run `user2_stride` shows it with two
threads. The barriers are there "to synchronize test iterations" (line 483), the
user barrier with one flag per index does so with strides (`user_barrier`), and
nothing rejects the combination.

**Hardware management of entries is not reset on recent processors**
(`litmus/libdir/_aarch64/kvm-headers.h` 318-325). A KVM test that asks for hardware
management of the access flag or dirty state sets bits of `TCR_EL1`, and calls
`reset_hahd_bits` at its end, "Reset for next test" (`preSi.ml` 2066). That function
resets only if the `HAFDBS` field is exactly 1 or 2, whereas `feature_check`
accepts any value that is large enough (`preSi.ml` 2195, `v >= `). The run
`kvm_reset` has a processor with the value 3: a test that asked for no hardware
management then runs with the bits of the previous one. In the run `kvm`, with
values up to 2, `FeaturesAsAsked` holds.

## 6. Not modelled, and why

* The TimeBase loop of `skel.ml` and prefetching: they move threads in time, and
  no outcome depends on them.
* Topology allocation: it runs in the generator; what it writes is a parameter.
* The binding of threads to processors, putting processors on line
  (`read_force_affinity`), memory allocation, time of day: system calls.
* The check of static memory in `main` (`skel.ml` 2624).
* klitmus beyond its barrier; user mode (EL0), self-modifying code and the x86
  headers of the KVM variant; statistics of presi tests.
* Prints, except the order and the counts of outcomes and of faults.
* The compiler from litmus to C, parsers, printers: text to text.
* herd, gen, asllib, tools, jingle, internal: not concurrent; the algorithms at
  their core are in the plan. Cat models themselves are specifications already.

## 7. Plan

Done, in this order: `Barrier`, `SenseBarrier` and its proofs, `PthreadBarrier` and
its proofs, `UserBarrier`, `Stabilize`, `ThreadPool` and its proofs, `Presi`,
`HashTable` and its proofs, `Zyva`, `KvmPte`, `KvmFault`, `KvmTest`, `CmdLine`,
`Affinity`, `Setup`, `Outs`, `ZyvaHist`; then the proofs of `Zyva`, `Stabilize`,
`KvmTest` and `Presi`, and of `SetOnce` in `ThreadPool`; then those of `UserBarrier`, of
the report of `HashTable`, of the logged entries and faults of `KvmTest`, and of the
whole of `SumHist`.

To extend the model:

1. `TimeBaseLoop`: the loop of `skel.ml` with the sense barrier and the time base.
2. `Topology`: allocation of instances, with `TestsAssumption` of `Presi` and
   `CpusAssumption` of `Zyva` as what it must guarantee.
3. `Candidates`: herd's enumeration of read-from maps and coherence orders
   (`herd/mem.ml`) against a reference definition of the candidate executions of
   a small test; the verdict of `top_herd.ml`; the relations of `lib/innerRel.ml`.
4. `Cycle`: what `gen/cycle.ml` requires of a cycle of relaxations.

To prove more: `Balanced` for one topology without `-p`, where the walk by increments
has a closed form; the bounds of `InBounds` one array at a time; that `ZyvaHist`
implements `Zyva`, which carries `SumHist` over.
