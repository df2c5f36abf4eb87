------------------------------ MODULE Affinity ------------------------------
(***************************************************************************)
(* Which logical processor each thread of a standard test is given: the    *)
(* processors of the machine (litmus/libdir/_linux_affinity.c), the cores  *)
(* they belong to and custom affinity (litmus/libdir/_utils.c), and the    *)
(* walk of incremental affinity (litmus/skel.ml).                          *)
(***************************************************************************)
EXTENDS Integers, SequencesExt

(* The processors of a mask, in order.                                     *)
read_affinity(mask) == SetToSortSeq(mask, <)

gcd[a \in Nat, b \in Nat] == IF a = 0 THEN b ELSE gcd[b % a, a]

-----------------------------------------------------------------------------
(* The core of each processor, numbered from 0.  The last ones are not     *)
(* written when the number of processors is not a multiple of nways.       *)

Uninit == -1

coremap(navail, nways, core(_)) ==
  [k \in 0..(navail-1) |-> IF k < (navail \div nways) * nways THEN core(k) ELSE Uninit]

coremap_seq(navail, nways) == coremap(navail, nways, LAMBDA k : k \div nways)

coremap_end(navail, nways) == coremap(navail, nways, LAMBDA k : k % (navail \div nways))

get_ncores(cm) == 1 + (CHOOSE c \in Range(cm) : \A k \in DOMAIN cm : cm[k] <= c)

get_core_procs(cm, procs, c) == SelectSeq(procs, LAMBDA proc : cm[proc] = c)

inverse_procs(cm, procs) ==
  [c \in 0..(get_ncores(cm) - 1) |-> get_core_procs(cm, procs, c)]

-----------------------------------------------------------------------------
(* Custom affinity.  s is the state of the allocation: the processors left *)
(* in each core, those of the threads of the instance, -1 when not chosen  *)
(* yet, those of all the instances, and whether it went wrong.  map is     *)
(* what the cores of processors are read from, diff the pairs of threads   *)
(* that exclude each other.                                                *)

excludes(diff, p, k) == <<p, k>> \in diff \/ <<k, p>> \in diff

(* The entries of map that ok_one_color reads for the thread p.            *)
reads(diff, s, p) == {s.a[k] : k \in {j \in DOMAIN s.a : s.a[j] >= 0 /\ excludes(diff, p, j)}}

ok_one_color(map, diff, s, p, c) == \A op \in reads(diff, s, p) : map[op + 1] # c

ok_color(map, diff, s, g, c) == \A i \in DOMAIN g : ok_one_color(map, diff, s, g[i], c)

room(s, sz) == {c \in DOMAIN s.mc : Len(s.mc[c]) >= sz}

(* The search begins with a random core, or with the previous one.         *)
find_color_diff(map, diff, s, g) == {c \in room(s, Len(g)) : ok_color(map, diff, s, g, c)}

find_one_proc(map, diff, s, p) ==
  LET ok == {c \in room(s, 1) : ok_one_color(map, diff, s, p, c)}
  IN  IF ok # {} THEN ok ELSE room(s, 1)

take(s, p, c) == [s EXCEPT !.a[p] = Last(s.mc[c]), !.mc[c] = Front(@)]

(* One thread of a group that no core can hold.                            *)
alone(map, diff, s, p) ==
  IF s.st # "ok" THEN {s}
  ELSE IF room(s, 1) = {} THEN {[s EXCEPT !.st = "fatal"]}
  ELSE IF \E op \in reads(diff, s, p) : op + 1 \notin DOMAIN map
       THEN {[s EXCEPT !.st = "undefined"]}
  ELSE {take(s, p, c) : c \in find_one_proc(map, diff, s, p)}

(* A group of threads: on one core, or else each where it can be.          *)
group(map, diff, s, g) ==
  IF s.st # "ok" THEN {s}
  ELSE IF room(s, Len(g)) # {} /\ \E i \in DOMAIN g : \E op \in reads(diff, s, g[i]) :
            op + 1 \notin DOMAIN map
       THEN {[s EXCEPT !.st = "undefined"]}
  ELSE IF find_color_diff(map, diff, s, g) # {}
       THEN {FoldLeft(LAMBDA t, p : take(t, p, c), s, g) :
               c \in find_color_diff(map, diff, s, g)}
  ELSE FoldLeft(LAMBDA S, p : UNION {alone(map, diff, t, p) : t \in S}, {s}, g)

(* One instance of the test, whose threads are those of the groups.        *)
instance(map, color, diff, n, s) ==
  LET S == FoldLeft(LAMBDA T, g : UNION {group(map, diff, t, g) : t \in T},
                    {[s EXCEPT !.a = [i \in 0..(n-1) |-> -1]]}, color)
  IN  {[t EXCEPT !.r = @ \o [i \in 1..n |-> t.a[i-1]]] : t \in S}

(* The cores are read from the list of processors, not from the core map.  *)
custom_affinity(cm, color, diff, aff_cpus, n, n_exe) ==
  IF Uninit \in Range(cm) \/ ~(Range(aff_cpus) \subseteq DOMAIN cm)
  THEN {[r |-> <<>>, st |-> "undefined"]}
  ELSE FoldLeft(LAMBDA S, k : UNION {instance(aff_cpus, color, diff, n, s) : s \in S},
         {[mc |-> inverse_procs(cm, aff_cpus), a |-> <<>>, r |-> <<>>, st |-> "ok"]},
         [k \in 1..n_exe |-> k])

-----------------------------------------------------------------------------

\* the walk goes on where it started
advance_Same(w, delta, sz) == [w EXCEPT !.next = (@ + delta) % sz]

(* Incremental affinity: the next processor, or the next cycle.            *)
advance(w, delta, sz) ==
  LET n == (w.next + delta) % sz
      s == (w.start + 1) % gcd[delta, sz]
  IN  IF n = w.start THEN [next |-> s, start |-> s] ELSE [w EXCEPT !.next = n]

(* The processors of n threads.                                            *)
walk(cpus, incr, n) ==
  LET sz == Len(cpus)
      delta == IF incr <= 0 THEN 1 ELSE incr % sz
      all == IF incr <= 0 THEN [k \in 1..sz |-> -1] ELSE cpus
  IN  FoldLeft(LAMBDA s, k : [r |-> Append(s.r, all[s.w.next + 1]),
                              w |-> advance(s.w, delta, sz)],
               [r |-> <<>>, w |-> [next |-> 0, start |-> 0]], [k \in 1..n |-> k]).r

(* Random affinity: the processors over and over, which are then permuted. *)
cycle(cpus, n) == [k \in 1..n |-> cpus[((k - 1) % Len(cpus)) + 1]]

=============================================================================
