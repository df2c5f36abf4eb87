------------------------------ MODULE MCSetup ------------------------------
(* Standard tests of two threads in each affinity mode, and presi tests.   *)
EXTENDS Setup

int_(n) == [num |-> n, unit |-> "", rest |-> FALSE]
unit_(n, u) == [num |-> n, unit |-> u, rest |-> FALSE]
garbage == [num |-> 0, unit |-> "", rest |-> TRUE]

(* Around zero, around the number of processors, larger than an int, than  *)
(* a long; units with zero, in range, too large, and with overflows.       *)
Numbers == {int_(n) : n \in {-1, 0, 1, 2, 3, 5, INT_MAX + 3, 2 * (LONG_MAX + 1)}}
           \cup {unit_(0, "k"), unit_(1, "m"), unit_(3, "m"), unit_(150, "m")} \cup {garbage}

factor_(n, m) == [num |-> n, den |-> m, rest |-> FALSE, erange |-> FALSE]

(* Among them texts that are no factor, too large, and too small.          *)
Factors == {factor_(n, m) : n \in {0, 3}, m \in {1, 2}} \cup
           {factor_(1, 500), [factor_(0, 1) EXCEPT !.rest = TRUE],
            [factor_(1, 0) EXCEPT !.erange = TRUE], [factor_(0, 1) EXCEPT !.erange = TRUE]}

cpus_(l) == [i \in DOMAIN l |-> [num |-> l[i], rest |-> FALSE]]

delay_(i, v) == [idx |-> i, val |-> v, rest |-> FALSE]
prefetch_(q, x, c) == [proc |-> q, name |-> x, dir |-> c, rest |-> FALSE]

intOptions == {"-r", "-s", "-st", "-n", "-a", "-k", "-i", "-ta", "-prs", "-l"}
flagOptions == {"-q", "-v", "+ra", "+ca", "+sa", "+rm", "-rm", "+sc", "-sc", "+fix", "+vb", "-vb",
                "-vp", "-unknown"}

standardArgs ==
  [o \in intOptions |-> Numbers] @@ [o \in flagOptions |-> {<<>>}] @@
  [o \in {"-fr", "-fs", "-f"} |-> Factors] @@
  "-p" :> {cpus_(l) : l \in {<<>>, <<0>>, <<3, 1>>, <<0, 1, 2>>, <<0, -1>>, <<2 * (LONG_MAX + 1), 2>>,
                             <<-2 * (LONG_MAX + 1), 2>>, <<1, 0, 7>>}}
          \cup {<<[num |-> 1, rest |-> TRUE]>>} @@
  "-tb" :> {<<>>, <<delay_(1, int_(4)), delay_(0, unit_(150, "m"))>>, <<delay_(2, int_(1))>>,
            <<delay_(1, garbage)>>, <<[delay_(1, int_(4)) EXCEPT !.rest = TRUE]>>} @@
  "-pra" :> {"F", "?"} @@
  "-prf" :> {<<>>, <<prefetch_(0, "x", "W"), prefetch_(1, "y", "T")>>, <<prefetch_(0, "z", "T")>>,
             <<prefetch_(2, "x", "T")>>, <<[prefetch_(0, "x", "F") EXCEPT !.rest = TRUE]>>} @@
  "+ta" :> {"[0],[1]", "bad"}

presiArgs == [o \in {"-r", "-s", "-n", "-a", "-tb"} |-> Numbers] @@
             [o \in {"-q", "-v", "+fix", "-vb"} |-> {<<>>}]

cArgs == "standard" :> standardArgs @@ "presi" :> presiArgs

cParams == [t \in {"part", "x", "d1", "c_0_x", "unknown"} |->
              {-7, -1, 0, 1, 2, 4, 5, INT_MAX, LONG_MAX}]

cMasks == {0..3, 0..2, {1}, {0, 2}}

base == [verbose |-> 0, max_run |-> 2, size_of_test |-> 4, stride |-> -1, avail |-> 4, n_exe |-> 0,
         sync_n |-> 0, aff_mode |-> "none", aff_custom_enabled |-> FALSE,
         aff_scan_enabled |-> FALSE, aff_incr |-> 0, aff_cpus |-> <<>>, aff_topo |-> "",
         shuffle |-> -1, max_loop |-> 0, delta_tb |-> <<>>, prefetch |-> <<>>,
         static_prefetch |-> -1, verbose_barrier |-> -1, speedcheck |-> -1, fix |-> 1, prelude |-> 0]

full == [base EXCEPT !.stride = 1, !.sync_n = 2, !.aff_mode = "incr", !.aff_incr = 1, !.avail = 0,
                     !.shuffle = 1, !.max_loop = 3, !.delta_tb = (0 :> 0 @@ 1 :> 0),
                     !.prefetch = (0 :> ("x" :> "none") @@ 1 :> ("y" :> "none")),
                     !.static_prefetch = 1, !.verbose_barrier = 1, !.speedcheck = 1, !.fix = 0,
                     !.prelude = 1]

aff(mode) == [base EXCEPT !.aff_mode = mode, !.aff_custom_enabled = (mode = "custom"),
                          !.aff_scan_enabled = (mode = "scan"), !.aff_incr = 1, !.avail = 0]

standardTest(d) ==
  [kind |-> "standard", N |-> 2, def |-> d, force |-> FALSE, limit |-> FALSE,
   smt |-> 2, smtmode |-> "seq", color |-> <<<<0>>, <<1>>>>, diff |-> {<<0, 1>>},
   SCANLINE |-> 4, cpu_scan |-> <<0, 1, 2, 3, 0, 2, 1, 3>>, group |-> <<"[0,1]", "[0],[1]">>]

presiTest(avail, nvars, delta) ==
  [kind |-> "presi", N |-> 2, AVAIL |-> avail, NSTEPS |-> 9, DELTA_TB |-> delta, NVARS |-> nvars,
   line |-> 2,
   parse |-> "part" :> [max |-> 2, least |-> 0, addnsteps |-> FALSE] @@
             "x" :> [max |-> nvars, least |-> 0, addnsteps |-> FALSE] @@
             "d1" :> [max |-> 9, least |-> 0, addnsteps |-> TRUE] @@
             "c_0_x" :> [max |-> 3, least |-> 1, addnsteps |-> FALSE]]

cTests ==
  {standardTest(d) : d \in {base, full, aff("random"), aff("scan")}} \cup
  {[standardTest(aff("custom")) EXCEPT !.smtmode = s] : s \in {"seq", "end"}} \cup
  {[standardTest(aff("custom")) EXCEPT !.color = <<<<0, 1>>>>, !.diff = {}, !.force = TRUE],
   [standardTest(aff("incr")) EXCEPT !.limit = TRUE]} \cup
  {presiTest(4, 3, 0), presiTest(5, 2, 20)}

=============================================================================
