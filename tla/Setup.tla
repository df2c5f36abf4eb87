------------------------------- MODULE Setup -------------------------------
(***************************************************************************)
(* What a test program does before its threads run: it reads its command   *)
(* line, computes how many instances run, on which processors and with     *)
(* which parameters.  There are two such programs: standard tests (main    *)
(* and run of litmus/skel.ml, litmus/libdir/_utils.c) and presi tests      *)
(* (litmus/libdir/_main.c, _presi.c, _instance.c and litmus/preSi.ml).     *)
(***************************************************************************)
EXTENDS CmdLine, Affinity

CONSTANTS Tests,         \* how the program is emitted, see MCSetup
          Masks,         \* the sets of processors the system may give
          Args,          \* the arguments the user gives to each option, by kind of test
          Params,        \* the parameters given after the options of presi tests
          MaxOptions,    \* how many options and parameters are given, at most
          MaxInstances   \* more instances are not followed

VARIABLES test,
          st,       \* where the program is, or how it ended
          def,      \* cmd_t def, or opt_t def
          cmd, errno, left,
          last,     \* the last option and its argument
          prm       \* what the threads run with

vars == <<test, st, def, cmd, errno, left, last, prm>>

standard == test.kind = "standard"
N == test.N
none == [o |-> "", a |-> <<>>]

Init == /\ test \in Tests
        /\ st = "start" /\ def = <<>> /\ cmd = <<>> /\ prm = <<>>
        /\ errno = FALSE /\ left = MaxOptions /\ last = none

max(n, m) == IF n < m THEN m ELSE n

-----------------------------------------------------------------------------
(* Standard tests.                                                         *)

(* read_force_affinity reads the mask again until enough processors are    *)
(* awake.  A test emitted with a limit does not run on too few of them.    *)
Start(mask) ==
  LET all == IF test.def.aff_mode = "none" THEN <<>> ELSE read_affinity(mask)
      d == [test.def EXCEPT !.aff_cpus = all]
  IN  /\ st = "start" /\ standard
      /\ test.force => test.def.avail <= Len(all)
      /\ def' = d /\ cmd' = d
      /\ st' = IF test.limit /\ d.aff_mode # "none" /\ Len(all) < N THEN "exit" ELSE "parse"
      /\ UNCHANGED <<test, errno, left, last, prm>>

n_avail == IF def.aff_mode # "none" /\ ~(cmd.avail > 0) THEN Len(cmd.aff_cpus) ELSE cmd.avail

n_exe == IF cmd.n_exe > 0 THEN cmd.n_exe ELSE IF n_avail < N THEN 1 ELSE n_avail \div N

\* the array has the processors of the threads only
aff_cpus_sz_Threads == N * n_exe

aff_cpus_sz == IF cmd.aff_mode = "random" THEN max(Len(cmd.aff_cpus), N * n_exe) ELSE N * n_exe

ncpus_used == max(n_avail, N * n_exe)

(* A topology that is not known is replaced by all of them.                *)
aff_mode == IF cmd.aff_mode = "topo" /\ ~Contains(test.group, cmd.aff_topo)
            THEN "scan" ELSE cmd.aff_mode

SCANSZ == Len(test.group)

(* The topologies whose processors are read, in each run or once.          *)
scanned == IF aff_mode = "scan" THEN {x \in 0..(SCANSZ-1) : x < cmd.max_run}
           ELSE {CHOOSE i \in 0..(SCANSZ-1) : test.group[i+1] = cmd.aff_topo}

(* The array aff_cpus; perm_prefix_ints moves its first ncpus_used ones.   *)
allocation ==
  CASE aff_mode = "none" -> {[r |-> <<>>, st |-> "run"]}
    [] aff_mode = "incr" -> {[r |-> walk(cmd.aff_cpus, cmd.aff_incr, N * n_exe), st |-> "run"]}
    [] aff_mode = "random" ->
         {[r |-> cycle(cmd.aff_cpus, aff_cpus_sz),
           st |-> IF ncpus_used <= aff_cpus_sz THEN "run" ELSE "undefined"]}
    [] aff_mode = "custom" ->
         LET cm == IF test.smtmode = "seq" THEN coremap_seq(Len(def.aff_cpus), test.smt)
                   ELSE coremap_end(Len(def.aff_cpus), test.smt)
         IN  {[r |-> s.r, st |-> IF s.st = "ok" THEN "run" ELSE s.st] :
                s \in custom_affinity(cm, test.color, test.diff, cmd.aff_cpus, N, n_exe)}
    [] aff_mode \in {"scan", "topo"} ->
         LET from(x, k) == test.SCANLINE * x + k
             all == \A x \in scanned, k \in 0..(N * n_exe - 1) : from(x, k) + 1 \in DOMAIN test.cpu_scan
         IN  {[r |-> IF ~all \/ aff_mode = "scan" THEN <<>>
                     ELSE [k \in 1..(N * n_exe) |-> test.cpu_scan[from(CHOOSE x \in scanned : TRUE, k - 1) + 1]],
               st |-> IF all THEN "run" ELSE "undefined"]}

(* run, up to the launch of the instances.                                 *)
Run == /\ st = "parse" /\ standard
       /\ IF n_exe > MaxInstances THEN st' = "large" /\ UNCHANGED prm
          ELSE \E s \in allocation :
                 /\ st' = s.st
                 /\ prm' = [n_exe |-> n_exe, mode |-> aff_mode, cpus |-> s.r, used |-> ncpus_used]
       /\ UNCHANGED <<test, def, cmd, errno, left, last>>

-----------------------------------------------------------------------------
(* Presi tests.                                                            *)

NEXE == IF test.AVAIL < N THEN 1 ELSE test.AVAIL \div N
NSTEPS2 == (test.NSTEPS - 1) \div 2

StartPresi ==
  LET d == [verbose |-> 0, max_run |-> 2, size_of_test |-> 2, avail |-> test.AVAIL,
            n_exe |-> NEXE, delay |-> test.DELTA_TB, fix |-> 0]
  IN  /\ st = "start" /\ ~standard
      /\ def' = d /\ cmd' = d /\ st' = "parse"
      /\ UNCHANGED <<test, errno, left, last, prm>>

usage_opt == {"-v", "-q", "-a", "-n", "-r", "-s", "+fix"} \cup when(def.delay > 0, {"-tb"})

flags_opt(p) == "-q" :> [p EXCEPT !.verbose = 0] @@ "-v" :> [p EXCEPT !.verbose = @ + 1] @@
                "+fix" :> [p EXCEPT !.fix = 1]

ints_opt(p, x) ==
  "-r" :> [p EXCEPT !.max_run = x] @@ "-s" :> [p EXCEPT !.size_of_test = x] @@
  "-a" :> [p EXCEPT !.avail = x, !.n_exe = IF x < 1 THEN 1 ELSE @] @@
  "-n" :> [p EXCEPT !.n_exe = atLeast(1, x)] @@
  (IF def.delay > 0 THEN "-tb" :> [p EXCEPT !.delay = atLeast(1, x)] ELSE <<>>)

parse_opt(o, a) ==
  CASE o \in DOMAIN flags_opt(cmd) -> {next(flags_opt(cmd)[o], errno)}
    [] o \in DOMAIN ints_opt(cmd, 0) ->
         {argint(cmd, x, a, errno, LAMBDA y : ints_opt(cmd, y)[o]) : x \in do_argint(a, errno, FALSE)}
    [] OTHER -> {exit("usage", cmd, errno)}

\* more instances than there is room for
instances_Unbounded ==
  LET n == IF cmd.avail < test.AVAIL THEN cmd.avail \div N ELSE cmd.n_exe
  IN  IF n < 1 THEN 1 ELSE n

(* How many instances run.                                                 *)
instances == LET n == IF cmd.avail < test.AVAIL THEN cmd.avail \div N ELSE cmd.n_exe
             IN  IF n < 1 THEN 1 ELSE IF n > NEXE THEN NEXE ELSE n

(* From the options to the parameters, which have no value yet.            *)
EndOptions ==
  LET delay == max(cmd.delay, test.NSTEPS - 1)
  IN  /\ st = "parse" /\ ~standard
      /\ prm' = [nexe |-> instances, delay |-> delay, step |-> delay \div (test.NSTEPS - 1),
                 param |-> [t \in DOMAIN test.parse |-> -1]]
      /\ st' = "param"
      /\ UNCHANGED <<test, def, cmd, errno, left, last>>

(* id or addnsteps, whose overflow wraps around.                           *)
f(tag, x) == IF test.parse[tag].addnsteps THEN int(x + NSTEPS2) ELSE x

(* do_parse: a parameter that is not known is ignored.                     *)
ParseParam(tag, i) ==
  /\ st = "param" /\ left > 0 /\ left' = left - 1
  /\ IF tag \notin DOMAIN test.parse THEN UNCHANGED <<st, prm>>
     ELSE LET v == f(tag, int(strtol(i)))
          IN  /\ prm' = [prm EXCEPT !.param[tag] = v]
              /\ st' = IF v >= test.parse[tag].max THEN "fatal" ELSE st
  /\ UNCHANGED <<test, def, cmd, errno, last>>

EndParams == st = "param" /\ st' = "run" /\ UNCHANGED <<test, def, cmd, errno, left, last, prm>>

(* What an iteration may take for a parameter.                             *)
comp_param(tag) == LET t == test.parse[tag] v == prm.param[tag]
                   IN  IF v >= 0 THEN {v} ELSE t.least..(t.max - 1)

(* The delay of a thread but the first, for the value v of its parameter.  *)
delay_of(v) == int(prm.delay + (v - NSTEPS2) * prm.step)

(* The memory, in units of VOFF: a line holds one unit of each variable.   *)
LINE == test.line + test.line * ((test.NVARS - 1) \div test.line)
MEMSZ == (test.NVARS * NEXE + 1) * LINE

(* init_global aligns the memory, then gives each instance its part.       *)
aligned(mem) == ((mem + LINE - 1) \div LINE) * LINE
instance_mem(mem, e) == aligned(mem) + e * test.NVARS * LINE

(* Where choose_params puts the k-th variable.                             *)
var(mem, e, k, v) == instance_mem(mem, e) + (IF k = 0 THEN 0 ELSE LINE * v + k)

-----------------------------------------------------------------------------

ParseOption(o, a) ==
  /\ st = "parse" /\ left > 0 /\ left' = left - 1
  /\ \E r \in IF standard THEN parse_cmd(def, cmd, errno, o, a) ELSE parse_opt(o, a) :
       st' = r.st /\ cmd' = r.p /\ errno' = r.errno
  /\ last' = [o |-> o, a |-> a]
  /\ UNCHANGED <<test, def, prm>>

(* The argument of an option is missing; a standard test is given          *)
(* something that is not an option.                                        *)
Incomplete == /\ st = "parse" /\ left > 0
              /\ st' = "usage" /\ last' = none /\ left' = left - 1
              /\ UNCHANGED <<test, def, cmd, errno, prm>>

Ended == st \notin {"start", "parse", "param"}

Next == \/ \E mask \in Masks : Start(mask)
        \/ \E o \in DOMAIN Args[test.kind] : \E a \in Args[test.kind][o] : ParseOption(o, a)
        \/ Run \/ Incomplete
        \/ StartPresi \/ EndOptions \/ EndParams
        \/ \E tag \in DOMAIN Params : \E i \in Params[tag] : ParseParam(tag, i)
        \/ Ended /\ UNCHANGED vars

Spec == Init /\ [][Next]_vars

-----------------------------------------------------------------------------

(* What the user means by an integer, and what the program has understood. *)
meant(a) == a.num * (CASE a.unit = "" -> 1 [] a.unit = "k" -> 1000 [] a.unit = "m" -> 1000000)

understood ==
  "-r" :> cmd.max_run @@ "-s" :> cmd.size_of_test @@ "-n" :> cmd.n_exe @@ "-a" :> cmd.avail @@
  (IF standard THEN "-st" :> cmd.stride @@ "-k" :> cmd.sync_n @@ "-i" :> cmd.aff_incr @@
                    "-prs" :> cmd.static_prefetch @@ "-l" :> cmd.max_loop
   ELSE "-tb" :> cmd.delay)

positive == {"-n", "-l", "-tb"}
natural == {"-st", "-k", "-i", "-prs"}
least(o, x) == IF o \in positive THEN max(1, x) ELSE IF o \in natural THEN max(0, x) ELSE x

announced == IF standard THEN usage(def) ELSE usage_opt

lists == {"-p", "-prf"} \cup when(standard, {"-tb"})
numbers == DOMAIN understood \cup {"-ta"}
factors == {"-f", "-fr", "-fs"}

malformed(o, a) == \/ o \in numbers \cup factors /\ a.rest
                   \/ o \in lists /\ \E e \in Range(a) : e.rest \/ (o = "-tb" /\ e.val.rest)
                   \/ o = "-p" /\ a = <<>>

(* A list names a processor, thread or variable that cannot be.            *)
unknown(o, a) ==
  CASE o = "-p" -> \E e \in Range(a) : e.num \notin 0..INT_MAX
    [] o = "-tb" /\ standard -> \E e \in Range(a) : e.idx \notin DOMAIN def.delta_tb
    [] o = "-prf" -> \E e \in Range(a) : \/ e.proc \notin DOMAIN def.prefetch
                                        \/ e.name \notin DOMAIN def.prefetch[e.proc]
    [] OTHER -> FALSE

tooLarge(a) == ERANGE(a.num) \/ (a.unit # "" /\ meant(a) \notin 1..(INT_MAX-1))

(* parse_cmd and parse_opt take the options that usage announces, and no   *)
(* other, and refuse one of them just for its argument: usage tells of one *)
(* that is malformed or names nothing, and fatal("overflow") of a number   *)
(* that is too large, or of an earlier one, in a list or a factor, that    *)
(* nobody has told of.  A number that is an int has its value, up to the   *)
(* least one of the option; one that is not never gets past the units of a *)
(* standard test, whatever the undefined overflows on the way give.        *)
CommandLine == last.o # "" =>
  /\ st = "parse" => last.o \in announced /\ ~malformed(last.o, last.a)
  /\ st = "usage" /\ last.o \in announced => malformed(last.o, last.a) \/ unknown(last.o, last.a)
  /\ st = "fatal" /\ prm = <<>> =>
       \/ errno
       \/ last.o \in numbers /\ tooLarge(last.a)
       \/ last.o \in lists /\ \E e \in Range(last.a) : ERANGE(e.idx) \/ tooLarge(e.val)
  /\ st = "parse" /\ last.o \in DOMAIN understood =>
       IF meant(last.a) = int(meant(last.a))
       THEN understood[last.o] = least(last.o, meant(last.a))
       ELSE standard => last.a.unit = ""

(* No array is read or written outside of it (aff_cpus, by the shuffle of  *)
(* perm_prefix_ints; the core map and the list of processors, by           *)
(* custom_affinity; cpu_scan) as long as the processors said available     *)
(* exist, those of custom affinity are numbered from 0 and make full       *)
(* cores, and the topologies were computed for as many threads.            *)
InBounds == st = "undefined" =>
  CASE prm.mode = "random" -> cmd.avail > Len(cmd.aff_cpus)
    [] prm.mode = "custom" -> \/ Len(def.aff_cpus) % test.smt # 0
                              \/ \E c \in Range(cmd.aff_cpus) :
                                   c >= Len(def.aff_cpus) \/ c >= Len(cmd.aff_cpus)
    [] OTHER -> prm.mode \in {"scan", "topo"} /\ N * prm.n_exe > test.SCANLINE

(* The places of aff_cpus whose processors the threads of a run may have.  *)
chosen == IF prm.mode = "random" THEN kSubset(N * prm.n_exe, 1..prm.used) ELSE {1..(N * prm.n_exe)}

(* The threads are spread evenly: with random, custom and incremental      *)
(* affinity no processor is given to two threads more than another one,    *)
(* in any run, whatever the increment and the shuffles.                    *)
Balanced ==
  (/\ st = "run" /\ standard
   /\ prm.mode \in {"random", "custom"} \/ (prm.mode = "incr" /\ cmd.aff_incr > 0)
   /\ IsInjective(cmd.aff_cpus))
  => \A S \in chosen : \A x, y \in Range(cmd.aff_cpus) :
       Quantify(S, LAMBDA i : prm.cpus[i] = x) <= Quantify(S, LAMBDA i : prm.cpus[i] = y) + 1

(* The instances fit in the processors, and in those that are available;   *)
(* the parameters are in the ranges of the tables they index; the threads  *)
(* never wait for a negative time, if the base delay leaves room; and      *)
(* wherever the memory begins and whatever the parameters, two variables,  *)
(* of one instance or of two, are never at the same place nor outside.     *)
PresiParams == st = "run" /\ ~standard =>
  /\ prm.nexe \in 1..NEXE /\ prm.nexe * N <= test.AVAIL
  /\ cmd.avail \in N..test.AVAIL => prm.nexe * N <= cmd.avail
  /\ \A t \in DOMAIN test.parse : comp_param(t) \subseteq 0..(test.parse[t].max - 1)
  /\ prm.step >= 1
  /\ 3 * prm.delay <= 2 * INT_MAX => \A v \in comp_param("d1") : delay_of(v) >= 0
  /\ \A mem \in 0..(LINE-1), e, g \in 0..(prm.nexe-1), k, l \in 0..(test.NVARS-1),
        v, w \in 0..(test.NVARS-1) :
       /\ var(mem, e, k, v) \in mem..(mem + MEMSZ - 1)
       /\ var(mem, e, k, v) = var(mem, g, l, w) => e = g /\ k = l

=============================================================================
