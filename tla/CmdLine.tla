------------------------------ MODULE CmdLine ------------------------------
(***************************************************************************)
(* The command line of a standard test: numbers and lists given as         *)
(* arguments, and parse_cmd (litmus/libdir/_utils.c).                      *)
(*                                                                         *)
(* The argument of an integer option is a record: the number it begins     *)
(* with, what multiplies it ("k", "m" or ""), and rest, whether it is      *)
(* malformed: something else follows, or there is no number, which then    *)
(* is 0.  Factors and the elements of lists have a rest as well.           *)
(* INT_MAX and LONG_MAX stand for the limits of the types.                 *)
(***************************************************************************)
EXTENDS Integers, SequencesExt, TLC

CONSTANTS INT_MAX, LONG_MAX

ASSUME WidthAssumption == /\ {INT_MAX, LONG_MAX} \subseteq Nat \ {0}
                          /\ (LONG_MAX + 1) % (INT_MAX + 1) = 0

overflow == LONG_MAX + 1       \* fatal("overflow")

ERANGE(num) == num > LONG_MAX \/ num < -LONG_MAX - 1

strtol(num) == IF num > LONG_MAX THEN LONG_MAX
               ELSE IF num < -LONG_MAX - 1 THEN -LONG_MAX - 1 ELSE num

(* The conversion (int)r.                                                  *)
int(r) == ((r + INT_MAX + 1) % (2 * (INT_MAX + 1))) - (INT_MAX + 1)

(* Ten times r, as 8r + 2r.  A negative term is taken for an overflow. An  *)
(* overflow of the last sum is undefined: seen, or a negative result.      *)
times10(r) == CASE r = overflow \/ r < 0 -> {overflow}
                [] r \in 0..(LONG_MAX \div 10) -> {10 * r}
                [] r > LONG_MAX \div 10 /\ r # overflow ->
                     {overflow} \cup (IF r > LONG_MAX \div 8 THEN {}
                                      ELSE {10 * r - 2 * (LONG_MAX + 1)})

pow10(p, x) == FoldLeft(LAMBDA rs, i : UNION {times10(r) : r \in rs}, {x}, [i \in 1..p |-> i])

\* the result is not checked
my_pow10_Unchecked(p, x, checked) == pow10(p, x)

(* _utils.c checks the result, _presi.c does not.                          *)
my_pow10(p, x, checked) ==
  {IF checked /\ (r >= INT_MAX \/ r <= 0) THEN overflow ELSE r : r \in pow10(p, x)}

(* errno is never cleared: a range error met before is taken for one here. *)
do_argint(a, errno, checked) ==
  LET r == IF ERANGE(a.num) \/ errno THEN {overflow}
           ELSE CASE a.unit = "" -> {a.num}
                  [] a.unit = "k" -> my_pow10(3, a.num, checked)
                  [] a.unit = "m" -> my_pow10(6, a.num, checked)
  IN  {IF x = overflow THEN x ELSE int(x) : x \in r}

(* The options and the conditions under which usage announces them.        *)
when(b, options) == IF b THEN options ELSE {}

usage(d) == UNION {
  {"-v", "-q", "-a", "-n", "-r", "-fr", "-s", "-fs", "-f"},
  when(d.stride > 0, {"-st"}),
  when(d.aff_mode # "none", {"-i", "-p", "+ra", "+ca", "+sa"}),
  when(d.aff_mode # "none" /\ d.aff_scan_enabled, {"+ta"}),
  when(d.shuffle >= 0, {"+rm", "-rm"}),
  when(d.speedcheck >= 0, {"+sc", "-sc"}),
  when(d.fix = 0, {"+fix"}),
  when(d.delta_tb # <<>>, {"-tb", "-ta"}),
  when(d.verbose_barrier >= 0, {"+vb", "-vb"}),
  when(d.prefetch # <<>>, {"-pra", "-prf"}),
  when(d.static_prefetch >= 0, {"-prs"}),
  when(d.max_loop > 0, {"-l"}),
  when(d.prelude > 0, {"-vp"}),
  when(d.sync_n > 0, {"-k"})}

-----------------------------------------------------------------------------
(* parse_cmd: the effect on p of an option, by the kind of its argument.   *)

(* "+ca" and "+sa" mean "+ra" when the test has no such allocation.        *)
alias(d, o, enabled, new, p) ==
  CASE enabled -> o :> new
    [] ~enabled /\ d.aff_mode # "none" -> o :> [p EXCEPT !.aff_mode = "random"]
    [] ~enabled /\ d.aff_mode = "none" -> <<>>

(* Without an argument.                                                    *)
flags(d, p) ==
  "-q" :> [p EXCEPT !.verbose = 0] @@ "-v" :> [p EXCEPT !.verbose = @ + 1] @@
  (IF d.aff_mode = "none" THEN <<>> ELSE
     "+ra" :> [p EXCEPT !.aff_mode = "random"]) @@
  alias(d, "+ca", d.aff_custom_enabled, [p EXCEPT !.aff_mode = "custom"], p) @@
  alias(d, "+sa", d.aff_scan_enabled, [p EXCEPT !.aff_mode = "scan"], p) @@
  (IF d.shuffle < 0 THEN <<>> ELSE
     "+rm" :> [p EXCEPT !.shuffle = 1] @@ "-rm" :> [p EXCEPT !.shuffle = 0]) @@
  (IF d.speedcheck < 0 THEN <<>> ELSE
     "+sc" :> [p EXCEPT !.speedcheck = 1] @@ "-sc" :> [p EXCEPT !.speedcheck = 0]) @@
  (IF d.fix # 0 THEN <<>> ELSE "+fix" :> [p EXCEPT !.fix = 1]) @@
  (IF d.verbose_barrier < 0 THEN <<>> ELSE
     "+vb" :> [p EXCEPT !.verbose_barrier = @ + 1] @@
     "-vb" :> [p EXCEPT !.verbose_barrier = 0]) @@
  (IF d.prelude <= 0 THEN <<>> ELSE "-vp" :> [p EXCEPT !.prelude = 0])

atLeast(i, x) == IF x < i THEN i ELSE x

(* With an integer.                                                        *)
ints(d, p, x) ==
  "-r" :> [p EXCEPT !.max_run = x] @@ "-s" :> [p EXCEPT !.size_of_test = x] @@
  "-n" :> [p EXCEPT !.n_exe = atLeast(1, x)] @@ "-a" :> [p EXCEPT !.avail = x] @@
  (IF d.stride <= 0 THEN <<>> ELSE "-st" :> [p EXCEPT !.stride = atLeast(0, x)]) @@
  (IF d.sync_n <= 0 THEN <<>> ELSE "-k" :> [p EXCEPT !.sync_n = atLeast(0, x)]) @@
  (IF d.aff_mode = "none" THEN <<>> ELSE
     "-i" :> [p EXCEPT !.aff_mode = "incr", !.aff_incr = atLeast(0, x)]) @@
  (IF d.delta_tb = <<>> THEN <<>> ELSE
     "-ta" :> [p EXCEPT !.delta_tb = [k \in DOMAIN @ |-> x]]) @@
  (IF d.static_prefetch < 0 THEN <<>> ELSE
     "-prs" :> [p EXCEPT !.static_prefetch = atLeast(0, x)]) @@
  (IF d.max_loop <= 0 THEN <<>> ELSE "-l" :> [p EXCEPT !.max_loop = atLeast(1, x)])

(* With a factor, a fraction (infinity has denominator 0).  What is not an *)
(* int is converted into whatever the processor gives.                     *)
scale(x, num, den) ==
  LET y == x * num
      z == IF y >= 0 THEN y \div den ELSE -((-y) \div den)
  IN  IF den # 0 /\ z = int(z) THEN {z} ELSE {-INT_MAX - 1, 0, INT_MAX}

doubles(p, f) ==
  "-fr" :> {[p EXCEPT !.max_run = r] : r \in scale(p.max_run, f.num, f.den)} @@
  "-fs" :> {[p EXCEPT !.size_of_test = s] : s \in scale(p.size_of_test, f.num, f.den)} @@
  "-f" :> {[p EXCEPT !.size_of_test = s, !.max_run = r] :
             s \in scale(p.size_of_test, f.num, f.den), r \in scale(p.max_run, f.den, f.num)}

(* Any other character than F, T and W means none.                         *)
direction(c) == CASE c = "F" -> "flush" [] c = "T" -> "touch" [] c = "W" -> "touch_store"
                  [] OTHER -> "none"

set_prefetch(r, dir) == [q \in DOMAIN r |-> [v \in DOMAIN r[q] |-> dir]]

(* With a text: a prefetch directive, a topology.                          *)
texts(d, p, t) ==
  (IF d.prefetch = <<>> THEN <<>> ELSE
     "-pra" :> [p EXCEPT !.prefetch = set_prefetch(@, direction(t))]) @@
  (IF ~d.aff_scan_enabled THEN <<>> ELSE
     "+ta" :> [p EXCEPT !.aff_mode = "topo", !.aff_topo = t])

(* What an option or an element of a list does: the program goes on, or    *)
(* exits after its usage, or after an error message.                       *)
next(p, errno) == [st |-> "parse", p |-> p, errno |-> errno]
exit(st, p, errno) == [st |-> st, p |-> p, errno |-> errno]

argint(p, x, a, errno, new(_)) ==
  IF x = overflow THEN exit("fatal", p, errno)
  ELSE IF a.rest THEN exit("usage", p, errno) ELSE next(new(x), errno)

(* strtod sets errno too, if the factor is too large or too small.         *)
argdouble(p, f, errno, new) ==
  IF f.rest THEN {exit("usage", p, errno)} ELSE {next(q, errno \/ f.erange) : q \in new}

(* argcpus, "-p": a list of processors, at least one, none of them         *)
(* negative.                                                               *)
argcpus(p, l, errno) ==
  IF l = <<>> \/ \E i \in DOMAIN l : l[i].rest \/ int(strtol(l[i].num)) < 0
  THEN exit("usage", p, errno)
  ELSE next([p EXCEPT !.aff_cpus = [i \in DOMAIN l |-> int(strtol(l[i].num))]],
            errno \/ \E i \in DOMAIN l : ERANGE(l[i].num))

(* argints, "-tb": an element is a thread, a colon and its delay.          *)
argints(p, e, errno) ==
  IF e.rest \/ int(strtol(e.idx)) \notin DOMAIN p.delta_tb THEN {exit("usage", p, errno)}
  ELSE LET f == errno \/ ERANGE(e.idx)
       IN  {argint(p, x, e.val, f,
                   LAMBDA v : [p EXCEPT !.delta_tb[int(strtol(e.idx))] = v]) :
              x \in do_argint(e.val, f, TRUE)}

(* parse_prefetch, "-prf": an element is thread, variable and directive.   *)
(* Both lists may be empty.                                                *)
parse_prefetch(p, e, errno) ==
  LET proc == int(strtol(e.proc))
  IN  IF ~e.rest /\ proc \in DOMAIN p.prefetch /\ e.name \in DOMAIN p.prefetch[proc]
      THEN next([p EXCEPT !.prefetch[proc][e.name] = direction(e.dir)],
                errno \/ ERANGE(e.proc))
      ELSE exit("usage", p, errno)

(* The elements of a list are applied one after the other.                 *)
list(Op(_, _, _), p, l, errno) ==
  FoldLeft(LAMBDA S, e : UNION {IF s.st = "parse" THEN Op(s.p, e, s.errno) ELSE {s} : s \in S},
           {next(p, errno)}, l)

(* An option of parse_cmd, with its argument.                              *)
parse_cmd(d, p, errno, o, a) ==
  CASE o \in DOMAIN flags(d, p) -> {next(flags(d, p)[o], errno)}
    [] o \in DOMAIN ints(d, p, 0) ->
         {argint(p, x, a, errno, LAMBDA y : ints(d, p, y)[o]) : x \in do_argint(a, errno, TRUE)}
    [] o \in DOMAIN doubles(p, [num |-> 1, den |-> 1]) ->
         argdouble(p, a, errno, doubles(p, a)[o])
    [] o \in DOMAIN texts(d, p, "") -> {next(texts(d, p, a)[o], errno)}
    [] o = "-p" /\ d.aff_mode # "none" -> {argcpus(p, a, errno)}
    [] o = "-tb" /\ d.delta_tb # <<>> -> list(argints, p, a, errno)
    [] o = "-prf" /\ d.prefetch # <<>> ->
         list(LAMBDA q, e, err : {parse_prefetch(q, e, err)}, p, a, errno)
    [] OTHER -> {exit("usage", p, errno)}

=============================================================================
