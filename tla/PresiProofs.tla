---------------------------- MODULE PresiProofs ----------------------------
(***************************************************************************)
(* Proofs about the runs of presi tests, for any number of threads, roles, *)
(* instances, runs and iterations, with any topologies: the casting gives  *)
(* each role of an instance to one thread, and the barriers of an instance *)
(* keep what its threads share to one iteration.                           *)
(*                                                                         *)
(* The barrier gb separates the casting of a run from its performance.     *)
(* In the casting, the threads of an instance are those that the topology  *)
(* sends to it: the invariant says what each of them knows of its role so  *)
(* far.  In the performance, they are between the same two barriers of the *)
(* instance, in the same iteration, and each role keeps in its own part of *)
(* what is shared the number of the iteration that it wrote it in.         *)
(***************************************************************************)
EXTENDS Presi, FiniteSetTheorems, TLAPS

Acting == {"place", "do_run", "init", "sync", "code", "collect", "add"}
Labels == {"choose", "set_role", "shuffled", "choose_params"} \cup Acting

TypeOK == /\ conf \in Tests
          /\ arrived \in [Barriers -> SUBSET Ids]
          /\ parts \in [0..(nruns-1) -> Parts]
          /\ gind \in Perms(Ids)
          /\ ind \in [Insts -> Perms(Roles)]
          /\ pc \in [Ids -> Labels]
          /\ inst \in [Ids -> Insts]
          /\ role \in [Ids -> Roles \cup {NoRole}]
          /\ run \in [Ids -> Nat]
          /\ s \in [Ids -> Nat]
          /\ vars_ \in [Insts -> [Roles -> Int]]
          /\ par \in [Insts -> [Roles -> Int]]
          /\ mem \in [Insts -> [Roles -> Int]]
          /\ log \in [Insts -> [Roles -> Int \X Int]]
          /\ DOMAIN next_tb = Insts
          /\ DOMAIN tb0 = Ids

(* A thread that waits for gb has the label that follows.                  *)
casting(p) == IF p \in arrived[gb] THEN pc[p] = "choose_params"
              ELSE pc[p] \in {"set_role", "shuffled"}

(* The run that p is in: it ends when all threads are at its end.          *)
present(p) == IF ~casting(p) /\ pc[p] \in {"choose", "set_role"} THEN run[p] - 1 ELSE run[p]

InStep == \A p, q \in Ids : /\ casting(p) <=> casting(q)
                            /\ present(p) = present(q)

Casting == \A p \in Ids : casting(p)

Control == \A p \in Ids :
  /\ p \in arrived[gb] => pc[p] \in {"set_role", "choose_params"}
  /\ \A e \in Insts : p \in arrived[e] =>
       /\ p \notin arrived[gb] /\ inst[p] = e /\ role[p] # NoRole
       /\ pc[p] \in Acting \cup {"shuffled"}
       /\ pc[p] = "sync" => have_cache
       /\ pc[p] = "add" => have_globals
  /\ casting(p) \/ pc[p] \in {"choose", "set_role"} => s[p] = 0
  /\ casting(p) \/ p \in arrived[gb] => run[p] < nruns
  /\ pc[p] \in Acting => role[p] # NoRole

(* The place of thread p in the casting of the run.                        *)
sent(p) == place[part(p)][gind[p]]
sentIn(p) == 0 <= sent(p)[1] /\ sent(p)[1] < nexe

(* What is known of the roles, before and after they are shuffled.  After  *)
(* the barrier of its instance, a thread finds the shuffle done.           *)
CastOf(p) ==
  /\ pc[p] = "shuffled" => shuffleRoles /\ sentIn(p) /\ <<inst[p], role[p]>> = sent(p)
  /\ pc[p] = "choose_params" /\ ~sentIn(p) => role[p] = NoRole
  /\ pc[p] = "choose_params" /\ sentIn(p) =>
       /\ inst[p] = sent(p)[1]
       /\ role[p] = IF shuffleRoles THEN ind[inst[p]][sent(p)[2]] ELSE sent(p)[2]
  /\ shuffleRoles /\ sentIn(p)
     /\ (pc[p] = "choose_params" \/ (pc[p] = "shuffled" /\ p \notin arrived[inst[p]])) =>
       \A q \in Ids : sent(q)[1] = sent(p)[1] => pc[q] # "set_role"

Cast == Casting => \A p \in Ids : CastOf(p)

mates(p, q) == role[p] # NoRole /\ role[q] # NoRole /\ inst[p] = inst[q]

(* In the performance, an instance has all its roles, once.                *)
CompleteOf(p) ==
  /\ \A q \in Ids : mates(p, q) /\ role[p] = role[q] => p = q
  /\ role[p] # NoRole => \A r \in Roles : \E q \in Ids : mates(p, q) /\ role[q] = r

Complete == ~Casting => \A p \in Ids : CompleteOf(p)

(* The segment, between two barriers of its instance, that p is in.        *)
inside(l) == CASE l \in {"choose", "set_role", "choose_params", "add"} -> 1
               [] l = "place" -> 2
               [] l = "do_run" -> 3
               [] l = "init" -> IF have_cache THEN 4 ELSE 5
               [] l = "sync" -> 5
               [] l = "code" -> 6
               [] l = "collect" -> IF have_globals THEN 7 ELSE 1

waiting(l) == CASE l = "place" -> 1
                [] l = "do_run" -> 2
                [] l = "init" -> 3
                [] l = "sync" -> 4
                [] l = "code" -> 5
                [] l = "collect" -> 6
                [] l = "add" -> 7

waits(p) == p \in arrived[inst[p]]
segment(p) == IF waits(p) THEN waiting(pc[p]) ELSE inside(pc[p])

(* Iterations started, since the first run.                                *)
started(p) == IF pc[p] \in Acting /\ ~(pc[p] = "place" /\ waits(p)) THEN stamp(p) + 1 ELSE stamp(p)

Together == ~Casting => \A p, q \in Ids : mates(p, q) =>
  segment(p) = segment(q) /\ started(p) = started(q)

mineOf(f, p) == f[inst[p]][role[p]]

(* The part of p in what its instance shares is of the present iteration,  *)
(* or else of the last one, if it was in this run.                         *)
Resting == {"choose", "set_role", "choose_params", "place"}
old(p) == stamp(p) > present(p) * size

DataOf(p) ==
  /\ pc[p] \in Acting \ {"place"} => mineOf(vars_, p) = stamp(p)
  /\ pc[p] \in Acting \ {"place", "do_run"} => mineOf(par, p) = stamp(p)
  /\ pc[p] \in {"sync", "code", "collect", "add"} => mineOf(mem, p) = stamp(p)
  /\ pc[p] \in {"collect", "add"} => /\ mineOf(log, p)[1] = stamp(p)
                                     /\ tb0[p] = next_tb[inst[p]]
  /\ pc[p] = "add" /\ have_globals => mineOf(log, p)[2] = stamp(p)
  /\ pc[p] \in Resting /\ old(p) =>
       /\ mineOf(vars_, p) = stamp(p) - 1
       /\ mineOf(par, p) = stamp(p) - 1
       /\ mineOf(log, p)[1] = stamp(p) - 1
       /\ have_globals => mineOf(log, p)[2] = stamp(p) - 1

Data == ~Casting => \A p \in Ids : role[p] # NoRole => DataOf(p)

IInv == TypeOK /\ InStep /\ Control /\ Cast /\ Complete /\ Together /\ Data

-----------------------------------------------------------------------------
(* Finite sets of threads and roles.                                       *)

LEMMA Sizes == /\ IsFiniteSet(Ids) /\ Cardinality(Ids) = AVAIL /\ 0 \in Ids
               /\ IsFiniteSet(Roles) /\ Cardinality(Roles) = N /\ N \in Nat \ {0}
               /\ 0 \in Roles /\ NoRole \notin Roles /\ gb \notin Insts
               /\ size \in Nat /\ nruns \in Nat /\ nexe \in Nat /\ nexe <= NEXE
<1>1. N \in Nat \ {0} /\ NEXE \in Nat \ {0} /\ AVAIL \in Nat /\ AVAIL >= N * NEXE
  BY SizesAssumption
<1>2. N * NEXE >= 1
  BY <1>1
<1>3. AVAIL >= 1
  BY <1>1, <1>2
<1>4. /\ IsFiniteSet(Ids) /\ Cardinality(Ids) = AVAIL
      /\ IsFiniteSet(Roles) /\ Cardinality(Roles) = N
  BY <1>1, <1>3, FS_Interval DEF Ids, Roles
<1> QED BY <1>1, <1>3, <1>4, SizesAssumption DEF Ids, Roles, Insts, NoRole, gb

LEMMA PermOnto ==
  ASSUME NEW S, IsFiniteSet(S), NEW f \in Perms(S)
  PROVE  \A y \in S : \E x \in S : f[x] = y
<1>1. f \in Injection(S, S)
  BY DEF Perms, Injection, IsInjective
<1>2. f \in Surjection(S, S)
  BY <1>1, FS_Injection
<1> QED BY <1>2 DEF Surjection

LEMMA PermPerm ==
  ASSUME NEW S, NEW f \in Perms(S), NEW g \in Perms(S)
  PROVE  [x \in S |-> f[g[x]]] \in Perms(S)
BY DEF Perms

(* A set of threads that have each role once is as large as N.             *)
LEMMA TeamSize ==
  ASSUME NEW T \in SUBSET Ids, NEW f \in [T -> Roles],
         \A p, q \in T : f[p] = f[q] => p = q,
         \A r \in Roles : \E p \in T : f[p] = r
  PROVE  IsFiniteSet(T) /\ Cardinality(T) = N
<1>1. f \in Bijection(T, Roles)
  BY DEF Bijection, Injection, Surjection, IsInjective
<1>2. IsFiniteSet(T)
  BY Sizes, FS_Subset
<1>3. ExistsBijection(T, Roles)
  BY <1>1 DEF ExistsBijection
<1> QED BY <1>2, <1>3, Sizes, FS_Bijection

(* The last thread of T to come to a barrier for Cardinality(T) threads.   *)
LEMMA LastOne ==
  ASSUME NEW T, IsFiniteSet(T), NEW a \in SUBSET T
  PROVE  Cardinality(a) = Cardinality(T) <=> a = T
BY FS_Subset

(* Topologies.                                                             *)
LEMMA Topology ==
  ASSUME conf \in Tests, NEW t \in Parts
  PROVE  /\ place[t] \in [Ids -> (Insts \X Roles) \cup {<<NoRole, NoRole>>}]
         /\ \A x, y \in Ids : place[t][x] = place[t][y] => x = y \/ place[t][x][1] = NoRole
         /\ \A x \in Ids : \A e \in Insts : place[t][x][1] = e =>
              \A r \in Roles : \E y \in Ids : place[t][y] = <<e, r>>
<1>1. /\ place \in [Parts -> [Ids -> (Insts \X Roles) \cup {<<NoRole, NoRole>>}]]
      /\ \A x, y \in Ids : place[t][x] = place[t][y] => x = y \/ place[t][x][1] = NoRole
      /\ \A e \in Insts : {r \in Roles : \E y \in Ids : place[t][y] = <<e, r>>} \in {{}, Roles}
  BY TestsAssumption DEF Parts, SCANSZ, place
<1>2. place[t] \in [Ids -> (Insts \X Roles) \cup {<<NoRole, NoRole>>}]
  BY <1>1
<1>3. ASSUME NEW x \in Ids, NEW e \in Insts, place[t][x][1] = e, NEW r \in Roles
      PROVE  \E y \in Ids : place[t][y] = <<e, r>>
  <2>1. place[t][x] \in Insts \X Roles
    BY <1>2, <1>3 DEF Insts, NoRole
  <2>2. place[t][x][2] \in Roles /\ place[t][x] = <<e, place[t][x][2]>>
    BY <2>1, <1>3
  <2>3. {k \in Roles : \E y \in Ids : place[t][y] = <<e, k>>} # {}
    BY <2>2
  <2>4. {k \in Roles : \E y \in Ids : place[t][y] = <<e, k>>} = Roles
    BY <2>3, <1>1
  <2> QED BY <2>4
<1> QED BY <1>1, <1>2, <1>3

(* In the casting, the threads that are sent to the same instance.         *)
LEMMA Sent ==
  ASSUME TypeOK, \A p \in Ids : run[p] < nruns, \A p, q \in Ids : run[p] = run[q]
  PROVE  /\ \A p \in Ids : sent(p) \in (Insts \X Roles) \cup {<<NoRole, NoRole>>}
         /\ \A p \in Ids : sentIn(p) => sent(p) \in Insts \X Roles
         /\ \A p, q \in Ids : sentIn(p) /\ sent(p) = sent(q) => p = q
         /\ \A p \in Ids : sentIn(p) =>
              \A r \in Roles : \E q \in Ids : sent(q) = <<sent(p)[1], r>>
<1>1. PICK t \in Parts : \A p \in Ids : part(p) = t
  <2>1. run[0] \in 0..(nruns-1)
    BY Sizes DEF TypeOK
  <2>2. parts[run[0]] \in Parts
    BY <2>1 DEF TypeOK
  <2>3. \A p \in Ids : part(p) = parts[run[0]]
    BY Sizes DEF part
  <2> QED BY <2>2, <2>3
<1>2. conf \in Tests /\ gind \in Perms(Ids)
  BY DEF TypeOK
<1>3. gind \in [Ids -> Ids] /\ \A x, y \in Ids : gind[x] = gind[y] => x = y
  BY <1>2 DEF Perms
<1>4. \A p \in Ids : sent(p) = place[t][gind[p]]
  BY <1>1 DEF sent
<1>5. \A p \in Ids : sent(p) \in (Insts \X Roles) \cup {<<NoRole, NoRole>>}
  BY <1>2, <1>3, <1>4, Topology
<1>6. ASSUME NEW p \in Ids, sentIn(p) PROVE sent(p) \in Insts \X Roles
  BY <1>5, <1>6 DEF sentIn, NoRole
<1>7. ASSUME NEW p \in Ids, NEW q \in Ids, sentIn(p), sent(p) = sent(q) PROVE p = q
  <2>1. sent(p)[1] # NoRole
    BY <1>7 DEF sentIn, NoRole
  <2> QED BY <2>1, <1>2, <1>3, <1>4, <1>7, Topology
<1>8. ASSUME NEW p \in Ids, sentIn(p), NEW r \in Roles
      PROVE  \E q \in Ids : sent(q) = <<sent(p)[1], r>>
  <2>1. sent(p)[1] \in Insts
    BY <1>6, <1>8
  <2>2. PICK y \in Ids : place[t][y] = <<sent(p)[1], r>>
    <3>1. gind[p] \in Ids /\ place[t][gind[p]][1] = sent(p)[1]
      BY <1>3, <1>4, <1>8
    <3>2. \A x \in Ids : \A e \in Insts : place[t][x][1] = e =>
            \A k \in Roles : \E y \in Ids : place[t][y] = <<e, k>>
      BY <1>2, Topology
    <3> QED BY <2>1, <3>1, <3>2, <1>8, Zenon
  <2>3. PICK q \in Ids : gind[q] = y
    BY <1>2, Sizes, PermOnto
  <2> QED BY <2>2, <2>3, <1>4
<1> QED BY <1>5, <1>6, <1>7, <1>8

(* There are N of them.                                                    *)
LEMMA SentSize ==
  ASSUME TypeOK, \A p \in Ids : run[p] < nruns, \A p, q \in Ids : run[p] = run[q],
         NEW p \in Ids, sentIn(p)
  PROVE  /\ IsFiniteSet({q \in Ids : sent(q)[1] = sent(p)[1]})
         /\ Cardinality({q \in Ids : sent(q)[1] = sent(p)[1]}) = N
<1> DEFINE T == {q \in Ids : sent(q)[1] = sent(p)[1]}
           f == [q \in T |-> sent(q)[2]]
<1>1. \A q \in T : sentIn(q) /\ sent(q) \in Insts \X Roles
  BY Sent DEF sentIn
<1>2. f \in [T -> Roles]
  BY <1>1
<1>3. \A q, k \in T : f[q] = f[k] => q = k
  <2> SUFFICES ASSUME NEW q \in T, NEW k \in T, sent(q)[2] = sent(k)[2] PROVE q = k
    OBVIOUS
  <2>1. sent(q) = sent(k)
    BY <1>1
  <2> QED BY <2>1, <1>1, Sent
<1>4. \A r \in Roles : \E q \in T : f[q] = r
  <2> TAKE r \in Roles
  <2>1. PICK q \in Ids : sent(q) = <<sent(p)[1], r>>
    BY Sent
  <2>2. q \in T /\ f[q] = r
    BY <2>1
  <2> QED BY <2>2
<1>5. T \in SUBSET Ids
  OBVIOUS
<1> HIDE DEF f, T
<1>6. IsFiniteSet(T) /\ Cardinality(T) = N
  BY <1>2, <1>3, <1>4, <1>5, TeamSize
<1> QED BY <1>6 DEF T

-----------------------------------------------------------------------------
(* Steps of the performance.                                               *)

(* Thread p goes to l, and may come to the barrier of its instance.        *)
PlayStep(p, l) ==
  /\ At(p, pc[p]) /\ pc[p] \in Acting \cup {"choose_params"}
  /\ goto(p, l) /\ l \in Acting \cup {"choose_params", "choose"}
  /\ l \in Acting => role[p] # NoRole
  /\ UNCHANGED <<conf, parts, gind, ind, inst, role>>
  /\ \A q \in Ids \ {p} : run'[q] = run[q] /\ s'[q] = s[q]
  /\ IF l = "choose" THEN run'[p] = run[p] + 1 /\ s'[p] = 0 ELSE run'[p] = run[p]

Arrives(p, l) ==
  /\ barrier_wait(inst[p], p)
  /\ l \in Acting /\ (l = "sync" => have_cache) /\ (l = "add" => have_globals)

LEMMA InstOf == ASSUME TypeOK, NEW p \in Ids
                PROVE  inst[p] \in Insts /\ inst[p] # gb /\ inst[p] \in Barriers
<1>1. inst[p] \in Insts
  BY DEF TypeOK
<1>2. gb \notin Insts
  BY Sizes
<1> QED BY <1>1, <1>2 DEF Barriers

LEMMA StampNat == ASSUME TypeOK, NEW p \in Ids PROVE stamp(p) \in Nat
<1>1. run[p] \in Nat /\ s[p] \in Nat
  BY DEF TypeOK
<1>2. size \in Nat
  BY SizesAssumption
<1>3. \A x, y, z \in Nat : x * y + z \in Nat
  OBVIOUS
<1> QED BY <1>1, <1>2, <1>3 DEF stamp

LEMMA Performing ==
  ASSUME TypeOK, InStep, NEW p \in Ids, ~casting(p)
  PROVE  ~Casting /\ \A q \in Ids : ~casting(q)
BY DEF Casting, InStep

LEMMA PlayControl ==
  ASSUME TypeOK, InStep, Control, Complete, NEW p \in Ids, NEW l, PlayStep(p, l),
         UNCHANGED arrived \/ Arrives(p, l)
  PROVE  /\ ~Casting /\ ~Casting' /\ InStep' /\ Control' /\ Cast' /\ Complete'
         /\ arrived' \in [Barriers -> SUBSET Ids] /\ pc' \in [Ids -> Labels]
         /\ \A q \in Ids : present(q)' = present(q)
<1>1. /\ p \notin arrived[gb] /\ \A e \in Insts : p \notin arrived[e]
      /\ inst[p] \in Insts /\ inst[p] # gb
  BY InstOf DEF PlayStep, At, Barriers
<1>2. /\ arrived' \in [Barriers -> SUBSET Ids] /\ arrived'[gb] = arrived[gb]
      /\ \A q \in Ids \ {p} : \A e \in Insts : q \in arrived'[e] => q \in arrived[e]
      /\ \A e \in Insts : p \in arrived'[e] => e = inst[p] /\ Arrives(p, l)
  <2>1. CASE UNCHANGED arrived
    BY <2>1, <1>1 DEF TypeOK
  <2>2. CASE Arrives(p, l)
    BY <2>2, <1>1 DEF TypeOK, Arrives, barrier_wait, Barriers
  <2> QED BY <2>1, <2>2
<1>3. pc' \in [Ids -> Labels] /\ pc'[p] = l /\ \A q \in Ids \ {p} : pc'[q] = pc[q]
  BY DEF PlayStep, goto, TypeOK, Labels
<1>4. ~casting(p) /\ ~casting(p)'
  BY <1>1, <1>2, <1>3 DEF PlayStep, casting, Acting
<1>5. \A q \in Ids \ {p} : casting(q)' <=> casting(q)
  BY <1>2, <1>3 DEF casting
<1>6. ~Casting /\ \A q \in Ids : ~casting(q)
  BY <1>4, Performing
<1>7. ~Casting' /\ \A q \in Ids : ~casting(q)'
  BY <1>4, <1>5, <1>6 DEF Casting
<1>8. \A q \in Ids : present(q)' = present(q)
  <2>1. present(p)' = present(p)
    <3>1. present(p) = run[p]
      BY DEF present, PlayStep, Acting
    <3>2. run[p] \in Nat
      BY DEF TypeOK
    <3> QED BY <3>1, <3>2, <1>3, <1>7 DEF present, PlayStep, Acting
  <2>2. ASSUME NEW q \in Ids \ {p} PROVE present(q)' = present(q)
    BY <1>3, <1>5 DEF present, PlayStep
  <2> QED BY <2>1, <2>2
<1>9. InStep'
  BY <1>7, <1>8 DEF InStep
<1>10. Control'
  <2> SUFFICES ASSUME NEW q \in Ids
               PROVE  /\ q \in arrived'[gb] => pc'[q] \in {"set_role", "choose_params"}
                      /\ \A e \in Insts : q \in arrived'[e] =>
                           /\ q \notin arrived'[gb] /\ inst'[q] = e /\ role'[q] # NoRole
                           /\ pc'[q] \in Acting \cup {"shuffled"}
                           /\ pc'[q] = "sync" => have_cache'
                           /\ pc'[q] = "add" => have_globals'
                      /\ casting(q)' \/ pc'[q] \in {"choose", "set_role"} => s'[q] = 0
                      /\ casting(q)' \/ q \in arrived'[gb] => run'[q] < nruns
                      /\ pc'[q] \in Acting => role'[q] # NoRole
    BY DEF Control, gb, NoRole
  <2>1. have_cache' = have_cache /\ have_globals' = have_globals /\ inst' = inst /\ role' = role
    BY DEF PlayStep, have_cache, have_globals
  <2>2. CASE q = p
    BY <1>1, <1>2, <1>3, <1>7, <2>1, <2>2 DEF PlayStep, Arrives, Acting
  <2>3. CASE q # p
    <3>1. /\ pc'[q] = pc[q] /\ s'[q] = s[q] /\ run'[q] = run[q] /\ ~casting(q) /\ ~casting(q)'
          /\ (q \in arrived'[gb] <=> q \in arrived[gb])
      BY <1>2, <1>3, <1>6, <1>7, <2>3 DEF PlayStep
    <3>2. /\ q \in arrived[gb] => pc[q] \in {"set_role", "choose_params"}
          /\ \A e \in Insts : q \in arrived[e] =>
               /\ q \notin arrived[gb] /\ inst[q] = e /\ role[q] # NoRole
               /\ pc[q] \in Acting \cup {"shuffled"}
               /\ pc[q] = "sync" => have_cache
               /\ pc[q] = "add" => have_globals
          /\ casting(q) \/ pc[q] \in {"choose", "set_role"} => s[q] = 0
          /\ casting(q) \/ q \in arrived[gb] => run[q] < nruns
          /\ pc[q] \in Acting => role[q] # NoRole
      BY Zenon DEF Control
    <3> QED BY <1>2, <2>1, <2>3, <3>1, <3>2
  <2> QED BY <2>2, <2>3
<1>11. Complete'
  <2>1. \A q \in Ids : CompleteOf(q)
    BY <1>6 DEF Complete
  <2>2. inst' = inst /\ role' = role
    BY DEF PlayStep
  <2>3. \A q \in Ids : CompleteOf(q)'
    BY <2>1, <2>2, Zenon DEF CompleteOf, mates, NoRole
  <2> QED BY <2>3 DEF Complete
<1> QED BY <1>2, <1>3, <1>6, <1>7, <1>8, <1>9, <1>10, <1>11 DEF Cast

(* The threads of an instance that performs are N.                         *)
LEMMA Team ==
  ASSUME TypeOK, ~Casting, Complete, NEW p \in Ids, role[p] # NoRole
  PROVE  /\ IsFiniteSet({q \in Ids : mates(p, q)})
         /\ Cardinality({q \in Ids : mates(p, q)}) = N
<1> DEFINE T == {q \in Ids : mates(p, q)}
           f == [q \in T |-> role[q]]
<1>1. \A q \in Ids : CompleteOf(q)
  BY DEF Complete
<1>2. f \in [T -> Roles]
  BY DEF mates, TypeOK
<1>3. \A q, k \in T : f[q] = f[k] => q = k
  <2> SUFFICES ASSUME NEW q \in T, NEW k \in T, role[q] = role[k] PROVE q = k
    OBVIOUS
  <2>1. mates(q, k)
    BY DEF mates
  <2> QED BY <2>1, <1>1 DEF CompleteOf
<1>4. \A r \in Roles : \E q \in T : f[q] = r
  BY <1>1 DEF CompleteOf
<1>5. T \in SUBSET Ids
  OBVIOUS
<1> HIDE DEF f, T
<1>6. IsFiniteSet(T) /\ Cardinality(T) = N
  BY <1>2, <1>3, <1>4, <1>5, TeamSize
<1> QED BY <1>6 DEF T

(* A step within a segment.                                                *)
LEMMA InsideStep ==
  ASSUME TypeOK, InStep, Control, Complete, Together, NEW p \in Ids, NEW l,
         PlayStep(p, l), UNCHANGED arrived, ~Casting,
         role[p] # NoRole => inside(l) = inside(pc[p]) /\ started(p)' = started(p)
  PROVE  Together'
<1>1. /\ pc'[p] = l /\ inst' = inst /\ role' = role
      /\ \A q \in Ids \ {p} : pc'[q] = pc[q] /\ s'[q] = s[q] /\ run'[q] = run[q]
  BY DEF PlayStep, goto, TypeOK
<1>2. \A k : inside(k)' = inside(k) /\ waiting(k)' = waiting(k)
  BY Zenon DEF inside, waiting, PlayStep, have_cache, have_globals
<1>3. ~waits(p) /\ ~waits(p)'
  BY <1>1 DEF waits, PlayStep, At, TypeOK, Barriers
<1>4. ASSUME NEW q \in Ids, role[q] # NoRole
      PROVE  segment(q)' = segment(q) /\ started(q)' = started(q)
  <2>1. CASE q = p
    BY <2>1, <1>1, <1>2, <1>3, <1>4, Zenon DEF segment
  <2>2. CASE q # p
    <3>1. pc'[q] = pc[q] /\ stamp(q)' = stamp(q) /\ (waits(q)' <=> waits(q))
      BY <2>2, <1>1 DEF stamp, waits
    <3> QED BY <3>1, <1>2, Zenon DEF segment, started
  <2> QED BY <2>1, <2>2
<1> QED BY <1>1, <1>4 DEF Together, mates, NoRole

(* A step to a barrier, which lets all the threads of the instance go if   *)
(* it is the last one.                                                     *)
LEMMA BarrierStep ==
  ASSUME TypeOK, InStep, Control, Complete, Together, NEW p \in Ids, NEW l,
         PlayStep(p, l), Arrives(p, l), ~Casting, \A q \in Ids : ~casting(q),
         waiting(l) = inside(pc[p]), l = "place" <=> pc[p] = "choose_params", s'[p] = s[p]
  PROVE  Together'
<1> DEFINE T == {q \in Ids : mates(p, q)}
           a == arrived[inst[p]] \cup {p}
<1>1. /\ pc'[p] = l /\ inst' = inst /\ role' = role /\ l \in Acting /\ role[p] # NoRole
      /\ inst[p] \in Insts /\ inst[p] # gb
      /\ \A q \in Ids \ {p} : pc'[q] = pc[q] /\ s'[q] = s[q] /\ run'[q] = run[q]
  BY InstOf DEF PlayStep, Arrives, goto, TypeOK
<1>2. \A k : inside(k)' = inside(k) /\ waiting(k)' = waiting(k)
  BY Zenon DEF inside, waiting, PlayStep, have_cache, have_globals
<1>3. ~waits(p) /\ segment(p) = waiting(l)
  BY <1>1 DEF waits, segment, PlayStep, At, TypeOK, Barriers
<1>4. \A q \in Ids : stamp(q)' = stamp(q)
  <2>1. run'[p] = run[p]
    BY <1>1 DEF PlayStep, Acting
  <2> QED BY <1>1, <2>1 DEF stamp
<1>5. started(p) = IF l = "place" THEN stamp(p) ELSE stamp(p) + 1
  BY <1>3 DEF started, PlayStep, Acting
<1>6. a \in SUBSET T
  BY <1>1 DEF Control, mates, TypeOK, Barriers
<1>7. IsFiniteSet(T) /\ Cardinality(T) = N
  BY <1>1, Team
<1>8. Cardinality(a) = N <=> a = T
  BY <1>6, <1>7, LastOne
<1>9. /\ arrived'[inst[p]] = IF a = T THEN {} ELSE a
      /\ \A e \in Insts \ {inst[p]} : arrived'[e] = arrived[e]
  BY <1>1, <1>8 DEF Arrives, barrier_wait, TypeOK, Barriers
<1>10. \A q \in Ids : mates(p, q) => started(q) = started(p) /\ segment(q) = waiting(l)
  BY <1>1, <1>3 DEF Together, mates
<1>11. ASSUME NEW q \in Ids, role[q] # NoRole, ~mates(p, q)
       PROVE  segment(q)' = segment(q) /\ started(q)' = started(q)
  <2>1. q # p /\ inst[q] # inst[p] /\ inst[q] \in Insts
    BY <1>1, <1>11 DEF mates, TypeOK
  <2>2. pc'[q] = pc[q] /\ (waits(q)' <=> waits(q))
    BY <2>1, <1>1, <1>9 DEF waits
  <2> QED BY <2>2, <1>2, <1>4, Zenon DEF segment, started
<1>12. CASE a = T
  <2>1. \A q \in T : ~waits(q)'
    BY <1>1, <1>9, <1>12 DEF waits, mates
  <2>2. \A q \in T : pc'[q] = l
    <3> SUFFICES ASSUME NEW q \in T, q # p PROVE pc[q] = l
      BY <1>1
    <3>1. q \in arrived[inst[p]] /\ inst[q] = inst[p]
      BY <1>12 DEF mates
    <3>2. waiting(pc[q]) = waiting(l)
      BY <3>1, <1>10 DEF segment, waits
    <3>3. pc[q] \in Acting
      <4>1. pc[q] \in Acting \cup {"shuffled"} /\ q \notin arrived[gb] /\ ~casting(q)
        BY <3>1, <1>1 DEF Control
      <4> QED BY <4>1 DEF casting
    <3> QED BY <3>2, <3>3, <1>1 DEF waiting, Acting
  <2>3. \A q \in T : segment(q)' = inside(l)
    BY <2>1, <2>2, <1>2, Zenon DEF segment
  <2>4. \A q \in T : stamp(q) = stamp(p)
    <3> SUFFICES ASSUME NEW q \in T, q # p PROVE stamp(q) = stamp(p)
      OBVIOUS
    <3>1. pc[q] = l /\ waits(q)
      BY <2>2, <1>1, <1>12 DEF waits, mates
    <3>2. started(q) = IF l = "place" THEN stamp(q) ELSE stamp(q) + 1
      BY <3>1, <1>1 DEF started
    <3>3. stamp(q) \in Int /\ stamp(p) \in Int
      BY StampNat
    <3> QED BY <3>2, <3>3, <1>5, <1>10
  <2>5. \A q \in T : started(q)' = stamp(p) + 1
    BY <2>1, <2>2, <2>4, <1>1, <1>4 DEF started
  <2> QED BY <2>3, <2>5, <1>1, <1>11 DEF Together, mates, NoRole
<1>13. CASE a # T
  <2>1. \A q \in T : segment(q)' = segment(q) /\ started(q)' = started(q)
    <3> SUFFICES ASSUME NEW q \in T PROVE segment(q)' = segment(q) /\ started(q)' = started(q)
      OBVIOUS
    <3>1. CASE q = p
      <4>1. waits(p)'
        BY <1>1, <1>9, <1>13 DEF waits
      <4>2. segment(p)' = waiting(l)
        BY <4>1, <1>1, <1>2, Zenon DEF segment
      <4>3. started(p)' = IF l = "place" THEN stamp(p) ELSE stamp(p) + 1
        BY <4>1, <1>1, <1>4 DEF started
      <4> QED BY <3>1, <4>2, <4>3, <1>3, <1>5
    <3>2. CASE q # p
      <4>1. pc'[q] = pc[q] /\ (waits(q)' <=> waits(q))
        BY <3>2, <1>1, <1>9, <1>13 DEF waits, mates
      <4> QED BY <4>1, <1>2, <1>4, Zenon DEF segment, started
    <3> QED BY <3>1, <3>2
  <2> QED BY <2>1, <1>1, <1>11 DEF Together, mates, NoRole
<1> QED BY <1>12, <1>13

(* What a thread writes: its part, its copy of the time base, and the      *)
(* shared time base before the code.                                       *)
DataStep(p) ==
  /\ \/ UNCHANGED vars_
     \/ role[p] # NoRole /\ \E v \in Int : vars_' = mine(vars_, p, v)
  /\ \/ UNCHANGED par
     \/ role[p] # NoRole /\ \E v \in Int : par' = mine(par, p, v)
  /\ \/ UNCHANGED mem
     \/ role[p] # NoRole /\ \E v \in Int : mem' = mine(mem, p, v)
  /\ \/ UNCHANGED log
     \/ role[p] # NoRole /\ \E v \in Int \X Int : log' = mine(log, p, v)
  /\ \/ UNCHANGED tb0
     \/ \E v : tb0' = [tb0 EXCEPT ![p] = v]
  /\ \/ UNCHANGED next_tb
     \/ /\ role[p] # NoRole /\ pc[p] = "sync" /\ ~waits(p)
        /\ \E v : next_tb' = [next_tb EXCEPT ![inst[p]] = v]

(* The part of p changes, those of the other threads do not.               *)
LEMMA Mine ==
  ASSUME TypeOK, ~Casting, Complete, NEW p \in Ids, role[p] # NoRole,
         NEW f, DOMAIN f = Insts, \A e \in Insts : DOMAIN f[e] = Roles, NEW v
  PROVE  /\ mine(f, p, v)[inst[p]][role[p]] = v
         /\ \A q \in Ids \ {p} : role[q] # NoRole =>
              mine(f, p, v)[inst[q]][role[q]] = f[inst[q]][role[q]]
<1>1. inst[p] \in Insts /\ role[p] \in Roles
  BY DEF TypeOK
<1>2. mine(f, p, v)[inst[p]][role[p]] = v
  BY <1>1 DEF mine
<1>3. ASSUME NEW q \in Ids \ {p}, role[q] # NoRole
      PROVE  mine(f, p, v)[inst[q]][role[q]] = f[inst[q]][role[q]]
  <2>1. inst[q] \in Insts /\ role[q] \in Roles
    BY <1>3 DEF TypeOK
  <2>2. inst[q] # inst[p] \/ role[q] # role[p]
    BY <1>3 DEF Complete, CompleteOf, mates
  <2> QED BY <1>1, <2>1, <2>2 DEF mine
<1> QED BY <1>2, <1>3

LEMMA PartTypes ==
  ASSUME TypeOK
  PROVE  /\ DOMAIN vars_ = Insts /\ \A e \in Insts : DOMAIN vars_[e] = Roles
         /\ DOMAIN par = Insts /\ \A e \in Insts : DOMAIN par[e] = Roles
         /\ DOMAIN mem = Insts /\ \A e \in Insts : DOMAIN mem[e] = Roles
         /\ DOMAIN log = Insts /\ \A e \in Insts : DOMAIN log[e] = Roles
BY DEF TypeOK

LEMMA DataTypes ==
  ASSUME TypeOK, ~Casting, Complete, NEW p \in Ids, DataStep(p)
  PROVE  /\ vars_' \in [Insts -> [Roles -> Int]] /\ par' \in [Insts -> [Roles -> Int]]
         /\ mem' \in [Insts -> [Roles -> Int]] /\ log' \in [Insts -> [Roles -> Int \X Int]]
         /\ DOMAIN next_tb' = Insts /\ DOMAIN tb0' = Ids
<1>1. /\ inst[p] \in Insts /\ role[p] # NoRole => role[p] \in Roles
  BY DEF TypeOK
<1>2. vars_ \in [Insts -> [Roles -> Int]] /\ par \in [Insts -> [Roles -> Int]]
      /\ mem \in [Insts -> [Roles -> Int]]
  BY DEF TypeOK
<1>3. ASSUME NEW v \in Int, role[p] # NoRole
      PROVE  /\ mine(vars_, p, v) \in [Insts -> [Roles -> Int]]
             /\ mine(par, p, v) \in [Insts -> [Roles -> Int]]
             /\ mine(mem, p, v) \in [Insts -> [Roles -> Int]]
  BY <1>1, <1>2, <1>3 DEF mine
<1>4. vars_' \in [Insts -> [Roles -> Int]] /\ par' \in [Insts -> [Roles -> Int]]
      /\ mem' \in [Insts -> [Roles -> Int]]
  <2>1. vars_' \in [Insts -> [Roles -> Int]]
    BY <1>2, <1>3 DEF DataStep
  <2>2. par' \in [Insts -> [Roles -> Int]]
    BY <1>2, <1>3 DEF DataStep
  <2>3. mem' \in [Insts -> [Roles -> Int]]
    BY <1>2, <1>3 DEF DataStep
  <2> QED BY <2>1, <2>2, <2>3
<1>5. log' \in [Insts -> [Roles -> Int \X Int]]
  <2>1. ASSUME NEW v \in Int \X Int, role[p] # NoRole
        PROVE  mine(log, p, v) \in [Insts -> [Roles -> Int \X Int]]
    <3> DEFINE S == Int \X Int
    <3>1. log \in [Insts -> [Roles -> S]] /\ v \in S
      BY DEF TypeOK
    <3> HIDE DEF S
    <3>2. mine(log, p, v) \in [Insts -> [Roles -> S]]
      BY <3>1, <2>1, <1>1 DEF mine
    <3> QED BY <3>2 DEF S
  <2>2. log \in [Insts -> [Roles -> Int \X Int]]
    BY DEF TypeOK
  <2> QED BY <2>1, <2>2 DEF DataStep
<1> QED BY <1>4, <1>5 DEF DataStep, TypeOK

LEMMA OthersData ==
  ASSUME TypeOK, ~Casting, Complete, Together, NEW p \in Ids, NEW l, PlayStep(p, l), DataStep(p),
         NEW q \in Ids \ {p}, role[q] # NoRole, DataOf(q), present(q)' = present(q)
  PROVE  DataOf(q)'
<1>1. /\ pc'[q] = pc[q] /\ inst'[q] = inst[q] /\ role'[q] = role[q]
      /\ stamp(q)' = stamp(q) /\ have_globals' = have_globals
  BY DEF PlayStep, goto, TypeOK, stamp, have_globals
<1>2. vars_'[inst[q]][role[q]] = vars_[inst[q]][role[q]]
  BY PartTypes, Mine DEF DataStep
<1>3. par'[inst[q]][role[q]] = par[inst[q]][role[q]]
  BY PartTypes, Mine DEF DataStep
<1>4. mem'[inst[q]][role[q]] = mem[inst[q]][role[q]]
  BY PartTypes, Mine DEF DataStep
<1>5. log'[inst[q]][role[q]] = log[inst[q]][role[q]]
  BY PartTypes, Mine DEF DataStep
<1>6. tb0'[q] = tb0[q]
  BY DEF DataStep, TypeOK
<1>7. pc[q] \in {"collect", "add"} => next_tb'[inst[q]] = next_tb[inst[q]]
  <2>0. inst[q] # inst[p] => next_tb'[inst[q]] = next_tb[inst[q]]
    BY DEF DataStep, TypeOK
  <2> SUFFICES ASSUME pc[q] \in {"collect", "add"}, inst[q] = inst[p],
                      role[p] # NoRole, pc[p] = "sync", ~waits(p)
               PROVE  FALSE
    BY <2>0 DEF DataStep
  <2>1. mates(p, q)
    BY DEF mates
  <2>2. segment(p) = 5 /\ segment(q) # 5
    BY DEF segment, inside, waiting
  <2> QED BY <2>1, <2>2 DEF Together
<1>8. mineOf(vars_, q)' = mineOf(vars_, q) /\ mineOf(par, q)' = mineOf(par, q)
      /\ mineOf(mem, q)' = mineOf(mem, q) /\ mineOf(log, q)' = mineOf(log, q)
      /\ (old(q)' <=> old(q))
  BY <1>1, <1>2, <1>3, <1>4, <1>5 DEF mineOf, old
<1> QED BY <1>1, <1>6, <1>7, <1>8, Zenon DEF DataOf

(* A step of the performance keeps the invariant, if it keeps the thread   *)
(* with its mates and its own part of the data.                            *)
LEMMA PlayInv ==
  ASSUME IInv, NEW p \in Ids, NEW l, PlayStep(p, l), DataStep(p),
         UNCHANGED arrived \/ Arrives(p, l),
         run' \in [Ids -> Nat], s' \in [Ids -> Nat],
         Together', role[p] # NoRole => DataOf(p)'
  PROVE  IInv'
<1> USE DEF IInv
<1>1. /\ ~Casting /\ ~Casting' /\ InStep' /\ Control' /\ Cast' /\ Complete'
      /\ arrived' \in [Barriers -> SUBSET Ids] /\ pc' \in [Ids -> Labels]
      /\ \A q \in Ids : present(q)' = present(q)
  BY PlayControl
<1>2. TypeOK'
  <2>1. UNCHANGED <<conf, parts, gind, ind, inst, role>> /\ Parts' = Parts
    BY DEF PlayStep, Parts, SCANSZ, place
  <2> QED BY <1>1, <2>1, DataTypes DEF TypeOK
<1>3. Data'
  <2> SUFFICES ASSUME NEW q \in Ids, role[q] # NoRole PROVE DataOf(q)'
    BY DEF Data, PlayStep, NoRole
  <2>1. CASE q = p
    BY <2>1
  <2>2. CASE q # p
    <3>1. DataOf(q)
      BY <1>1 DEF Data
    <3> QED BY <3>1, <1>1, <2>2, OthersData
  <2> QED BY <2>1, <2>2
<1> QED BY <1>1, <1>2, <1>3

LEMMA PlayBarrier ==
  ASSUME IInv, NEW p \in Ids, NEW l, PlayStep(p, l), DataStep(p), Arrives(p, l),
         UNCHANGED <<run, s>>, waiting(l) = inside(pc[p]),
         l = "place" <=> pc[p] = "choose_params", DataOf(p)'
  PROVE  IInv'
<1>1. ~casting(p)
  BY DEF PlayStep, At, Barriers, casting, Acting
<1>2. ~Casting /\ \A q \in Ids : ~casting(q)
  BY <1>1, Performing DEF IInv
<1>3. Together'
  BY <1>2, BarrierStep DEF IInv
<1> QED BY <1>3, PlayInv DEF IInv, TypeOK

LEMMA PlayInside ==
  ASSUME IInv, NEW p \in Ids, NEW l, PlayStep(p, l), DataStep(p), UNCHANGED arrived,
         run' \in [Ids -> Nat], s' \in [Ids -> Nat],
         role[p] # NoRole => inside(l) = inside(pc[p]) /\ started(p)' = started(p) /\ DataOf(p)'
  PROVE  IInv'
<1>1. ~casting(p)
  BY DEF PlayStep, At, Barriers, casting, Acting
<1>2. ~Casting
  BY <1>1, Performing DEF IInv
<1>3. Together'
  BY <1>2, InsideStep DEF IInv
<1> QED BY <1>3, PlayInv DEF IInv

(* What holds of a thread that acts.                                       *)
LEMMA Acts ==
  ASSUME IInv, NEW p \in Ids, At(p, pc[p]), pc[p] \in Acting \cup {"choose_params"}
  PROVE  /\ ~Casting /\ ~waits(p)
         /\ pc[p] \in Acting => role[p] # NoRole
         /\ role[p] # NoRole => DataOf(p)
         /\ inst[p] \in Insts /\ (role[p] # NoRole => role[p] \in Roles)
         /\ stamp(p) \in Nat
<1>1. ~casting(p)
  BY DEF At, Barriers, casting, Acting
<1>2. ~Casting
  BY <1>1, Performing DEF IInv
<1>3. ~waits(p)
  BY InstOf DEF At, waits, IInv
<1> QED BY <1>2, <1>3, StampNat DEF IInv, Data, Control, TypeOK

LEMMA NextRunInv ==
  ASSUME IInv, NEW p \in Ids, NextRun(p), UNCHANGED conf
  PROVE  IInv'
<1>1. PlayStep(p, "choose")
  BY DEF NextRun, PlayStep, At, IInv, TypeOK, Acting
<1>2. DataStep(p) /\ UNCHANGED arrived /\ run' \in [Ids -> Nat] /\ s' \in [Ids -> Nat]
  BY DEF NextRun, DataStep, data, IInv, TypeOK
<1>3. At(p, pc[p]) /\ pc[p] = "choose_params" /\ pc'[p] = "choose"
  BY DEF NextRun, At, goto, IInv, TypeOK
<1>4. present(p)' = present(p)
  BY <1>1, <1>2, PlayControl DEF IInv
<1>5. ASSUME role[p] # NoRole
      PROVE  inside("choose") = inside(pc[p]) /\ started(p)' = started(p) /\ DataOf(p)'
  <2>1. stamp(p)' = stamp(p)
    <3>1. run[p] \in Nat /\ s[p] = size /\ run'[p] = run[p] + 1 /\ s'[p] = 0
      BY <1>5 DEF NextRun, IInv, TypeOK
    <3>2. size \in Nat
      BY SizesAssumption
    <3>3. \A x, y \in Nat : (x + 1) * y + 0 = x * y + y
      OBVIOUS
    <3> QED BY <3>1, <3>2, <3>3 DEF stamp
  <2>2. DataOf(p)
    BY <1>3, <1>5, Acts
  <2>3. /\ mineOf(vars_, p)' = mineOf(vars_, p) /\ mineOf(par, p)' = mineOf(par, p)
        /\ mineOf(log, p)' = mineOf(log, p) /\ have_globals' = have_globals
        /\ (old(p)' <=> old(p))
    BY <1>4, <2>1 DEF NextRun, data, mineOf, have_globals, old
  <2>4. DataOf(p)'
    BY <2>1, <2>2, <2>3, <1>3 DEF DataOf, Acting, Resting
  <2>5. started(p)' = started(p)
    BY <2>1, <1>3 DEF started, Acting
  <2> QED BY <2>4, <2>5, <1>3 DEF inside
<1> QED BY <1>1, <1>2, <1>5, PlayInside

LEMMA NextIterationInv ==
  ASSUME IInv, NEW p \in Ids, NextIteration(p), UNCHANGED conf
  PROVE  IInv'
<1>1. PlayStep(p, "place")
  BY DEF NextIteration, PlayStep, At, Acting
<1>2. DataStep(p) /\ Arrives(p, "place") /\ UNCHANGED <<run, s>>
  BY DEF NextIteration, DataStep, data, Arrives, Acting
<1>3. At(p, pc[p]) /\ pc[p] = "choose_params" /\ pc'[p] = "place" /\ role[p] # NoRole
  BY DEF NextIteration, At, goto, IInv, TypeOK
<1>4. present(p)' = present(p)
  BY <1>1, <1>2, PlayControl DEF IInv
<1>5. DataOf(p)
  BY <1>3, Acts
<1>6. /\ mineOf(vars_, p)' = mineOf(vars_, p) /\ mineOf(par, p)' = mineOf(par, p)
      /\ mineOf(log, p)' = mineOf(log, p) /\ have_globals' = have_globals
      /\ stamp(p)' = stamp(p) /\ (old(p)' <=> old(p))
  BY <1>4 DEF NextIteration, data, mineOf, have_globals, old, stamp
<1>7. DataOf(p)'
  BY <1>3, <1>5, <1>6 DEF DataOf, Acting, Resting
<1>8. waiting("place") = inside(pc[p])
  BY <1>3 DEF waiting, inside
<1> QED BY <1>1, <1>2, <1>3, <1>7, <1>8, PlayBarrier

LEMMA PlaceVarsInv ==
  ASSUME IInv, NEW p \in Ids, PlaceVars(p), UNCHANGED conf
  PROVE  IInv'
<1>1. At(p, pc[p]) /\ pc[p] = "place" /\ pc'[p] = "do_run"
  BY DEF PlaceVars, At, goto, IInv, TypeOK
<1>2. role[p] # NoRole /\ stamp(p) \in Nat /\ ~Casting
  BY <1>1, Acts DEF Acting
<1>3. PlayStep(p, "do_run")
  BY <1>1, <1>2 DEF PlaceVars, PlayStep, Acting
<1>4. Arrives(p, "do_run") /\ UNCHANGED <<run, s>>
  BY DEF PlaceVars, Arrives, Acting
<1>5. DataStep(p)
  BY <1>2 DEF PlaceVars, DataStep
<1>6. vars_'[inst[p]][role[p]] = stamp(p)
  BY <1>2, PartTypes, Mine DEF PlaceVars, IInv
<1>7. mineOf(vars_, p)' = stamp(p) /\ stamp(p)' = stamp(p)
  BY <1>6 DEF PlaceVars, mineOf, stamp
<1>8. DataOf(p)'
  BY <1>1, <1>7 DEF DataOf, Acting, Resting
<1>9. waiting("do_run") = inside(pc[p])
  BY <1>1 DEF waiting, inside
<1> QED BY <1>1, <1>3, <1>4, <1>5, <1>8, <1>9, PlayBarrier

LEMMA EnterRunInv ==
  ASSUME IInv, NEW p \in Ids, EnterRun(p), UNCHANGED conf
  PROVE  IInv'
<1>1. At(p, pc[p]) /\ pc[p] = "do_run" /\ pc'[p] = "init"
  BY DEF EnterRun, At, goto, IInv, TypeOK
<1>2. role[p] # NoRole /\ stamp(p) \in Nat /\ ~Casting /\ DataOf(p)
  BY <1>1, Acts DEF Acting
<1>3. PlayStep(p, "init")
  BY <1>1, <1>2 DEF EnterRun, PlayStep, Acting
<1>4. Arrives(p, "init") /\ UNCHANGED <<run, s>>
  BY DEF EnterRun, Arrives, Acting
<1>5. DataStep(p)
  BY <1>2 DEF EnterRun, DataStep
<1>6. par'[inst[p]][role[p]] = stamp(p)
  BY <1>2, PartTypes, Mine DEF EnterRun, IInv
<1>7. /\ mineOf(par, p)' = stamp(p) /\ stamp(p)' = stamp(p)
      /\ mineOf(vars_, p)' = mineOf(vars_, p)
  BY <1>6 DEF EnterRun, mineOf, stamp
<1>8. DataOf(p)'
  BY <1>1, <1>2, <1>7 DEF DataOf, Acting, Resting
<1>9. waiting("init") = inside(pc[p])
  BY <1>1 DEF waiting, inside
<1> QED BY <1>1, <1>3, <1>4, <1>5, <1>8, <1>9, PlayBarrier

LEMMA InitVarsInv ==
  ASSUME IInv, NEW p \in Ids, InitVars(p), UNCHANGED conf
  PROVE  IInv'
<1>1. At(p, pc[p]) /\ pc[p] = "init" /\ pc'[p] = "sync"
  BY DEF InitVars, At, goto, IInv, TypeOK
<1>2. role[p] # NoRole /\ stamp(p) \in Nat /\ ~Casting /\ DataOf(p)
  BY <1>1, Acts DEF Acting
<1>3. PlayStep(p, "sync")
  BY <1>1, <1>2 DEF InitVars, PlayStep, Acting
<1>4. UNCHANGED <<run, s>> /\ run' \in [Ids -> Nat] /\ s' \in [Ids -> Nat]
  BY DEF InitVars, IInv, TypeOK
<1>5. DataStep(p)
  BY <1>2 DEF InitVars, DataStep
<1>6. mem'[inst[p]][role[p]] = stamp(p)
  BY <1>2, PartTypes, Mine DEF InitVars, IInv
<1>7. /\ mineOf(mem, p)' = stamp(p) /\ stamp(p)' = stamp(p)
      /\ mineOf(vars_, p)' = mineOf(vars_, p) /\ mineOf(par, p)' = mineOf(par, p)
  BY <1>6 DEF InitVars, mineOf, stamp
<1>8. DataOf(p)'
  BY <1>1, <1>2, <1>7 DEF DataOf, Acting, Resting
<1>9. CASE have_cache
  <2>1. Arrives(p, "sync")
    BY <1>9 DEF InitVars, Arrives, Acting
  <2>2. waiting("sync") = inside(pc[p])
    BY <1>1, <1>9 DEF waiting, inside
  <2> QED BY <1>1, <1>3, <1>4, <1>5, <1>8, <2>1, <2>2, PlayBarrier
<1>10. CASE ~have_cache
  <2>1. UNCHANGED arrived
    BY <1>10 DEF InitVars
  <2>2. inside("sync") = inside(pc[p])
    BY <1>1, <1>10 DEF inside
  <2>3. started(p)' = started(p)
    BY <1>1, <1>7 DEF started, Acting
  <2> QED BY <1>3, <1>4, <1>5, <1>8, <2>1, <2>2, <2>3, PlayInside
<1> QED BY <1>9, <1>10

LEMMA SyncInv ==
  ASSUME IInv, NEW p \in Ids, Sync(p), UNCHANGED conf
  PROVE  IInv'
<1>1. At(p, pc[p]) /\ pc[p] = "sync" /\ pc'[p] = "code"
  BY DEF Sync, At, goto, IInv, TypeOK
<1>2. role[p] # NoRole /\ ~Casting /\ ~waits(p) /\ DataOf(p)
  BY <1>1, Acts DEF Acting
<1>3. PlayStep(p, "code")
  BY <1>1, <1>2 DEF Sync, PlayStep, Acting
<1>4. Arrives(p, "code") /\ UNCHANGED <<run, s>>
  BY DEF Sync, Arrives, Acting
<1>5. DataStep(p)
  BY <1>1, <1>2 DEF Sync, DataStep
<1>6. /\ mineOf(mem, p)' = mineOf(mem, p) /\ stamp(p)' = stamp(p)
      /\ mineOf(vars_, p)' = mineOf(vars_, p) /\ mineOf(par, p)' = mineOf(par, p)
  BY DEF Sync, mineOf, stamp
<1>7. DataOf(p)'
  BY <1>1, <1>2, <1>6 DEF DataOf, Acting, Resting
<1>8. waiting("code") = inside(pc[p])
  BY <1>1 DEF waiting, inside
<1> QED BY <1>1, <1>3, <1>4, <1>5, <1>7, <1>8, PlayBarrier

LEMMA CodeInv ==
  ASSUME IInv, NEW p \in Ids, Code(p), UNCHANGED conf
  PROVE  IInv'
<1>1. At(p, pc[p]) /\ pc[p] = "code" /\ pc'[p] = "collect"
  BY DEF Code, At, goto, IInv, TypeOK
<1>2. role[p] # NoRole /\ stamp(p) \in Nat /\ ~Casting /\ DataOf(p)
  BY <1>1, Acts DEF Acting
<1>3. PlayStep(p, "collect")
  BY <1>1, <1>2 DEF Code, PlayStep, Acting
<1>4. Arrives(p, "collect") /\ UNCHANGED <<run, s>>
  BY DEF Code, Arrives, Acting
<1>5. <<stamp(p), Never>> \in Int \X Int
  BY <1>2 DEF Never
<1>6. DataStep(p)
  BY <1>2, <1>5 DEF Code, DataStep
<1>7. log'[inst[p]][role[p]] = <<stamp(p), Never>>
  BY <1>2, PartTypes, Mine DEF Code, IInv
<1>8. tb0'[p] = next_tb'[inst[p]]
  BY DEF Code, IInv, TypeOK
<1>9. /\ mineOf(mem, p)' = mineOf(mem, p) /\ stamp(p)' = stamp(p) /\ inst' = inst
      /\ mineOf(vars_, p)' = mineOf(vars_, p) /\ mineOf(par, p)' = mineOf(par, p)
      /\ mineOf(log, p)'[1] = stamp(p)
  BY <1>7 DEF Code, mineOf, stamp
<1>10. DataOf(p)'
  BY <1>1, <1>2, <1>8, <1>9 DEF DataOf, Acting, Resting
<1>11. waiting("collect") = inside(pc[p])
  BY <1>1 DEF waiting, inside
<1> QED BY <1>1, <1>3, <1>4, <1>6, <1>10, <1>11, PlayBarrier

LEMMA CollectInv ==
  ASSUME IInv, NEW p \in Ids, Collect(p), UNCHANGED conf
  PROVE  IInv'
<1>1. At(p, pc[p]) /\ pc[p] = "collect" /\ pc'[p] = "add"
  BY DEF Collect, At, goto, IInv, TypeOK
<1>2. role[p] # NoRole /\ stamp(p) \in Nat /\ ~Casting /\ DataOf(p)
  BY <1>1, Acts DEF Acting
<1>3. PlayStep(p, "add")
  BY <1>1, <1>2 DEF Collect, PlayStep, Acting
<1>4. UNCHANGED <<run, s>> /\ run' \in [Ids -> Nat] /\ s' \in [Ids -> Nat]
  BY DEF Collect, IInv, TypeOK
<1>5. /\ mineOf(mem, p)' = mineOf(mem, p) /\ stamp(p)' = stamp(p) /\ inst' = inst
      /\ mineOf(vars_, p)' = mineOf(vars_, p) /\ mineOf(par, p)' = mineOf(par, p)
      /\ UNCHANGED <<tb0, next_tb>> /\ have_globals' = have_globals
  BY DEF Collect, mineOf, stamp, have_globals
<1>6. CASE have_globals
  <2>1. <<stamp(p), stamp(p)>> \in Int \X Int /\ log' = mine(log, p, <<stamp(p), stamp(p)>>)
    BY <1>2, <1>6 DEF Collect
  <2>2. DataStep(p)
    BY <1>2, <2>1 DEF Collect, DataStep
  <2>3. log'[inst[p]][role[p]] = <<stamp(p), stamp(p)>>
    BY <1>2, <2>1, PartTypes, Mine DEF IInv
  <2>4. mineOf(log, p)'[1] = stamp(p) /\ mineOf(log, p)'[2] = stamp(p)
    BY <2>3 DEF Collect, mineOf
  <2>5. DataOf(p)'
    BY <1>1, <1>2, <1>5, <2>4 DEF DataOf, Acting, Resting
  <2>6. Arrives(p, "add")
    BY <1>6 DEF Collect, Arrives, Acting
  <2>7. waiting("add") = inside(pc[p])
    BY <1>1, <1>6 DEF waiting, inside
  <2> QED BY <1>1, <1>3, <1>4, <2>2, <2>5, <2>6, <2>7, PlayBarrier
<1>7. CASE ~have_globals
  <2>1. DataStep(p) /\ UNCHANGED arrived
    BY <1>7 DEF Collect, DataStep
  <2>2. mineOf(log, p)' = mineOf(log, p)
    BY <1>7 DEF Collect, mineOf
  <2>3. DataOf(p)'
    BY <1>1, <1>2, <1>5, <1>7, <2>2 DEF DataOf, Acting, Resting
  <2>4. inside("add") = inside(pc[p])
    BY <1>1, <1>7 DEF inside
  <2>5. started(p)' = started(p)
    BY <1>1, <1>5 DEF started, Acting
  <2> QED BY <1>3, <1>4, <2>1, <2>3, <2>4, <2>5, PlayInside
<1> QED BY <1>6, <1>7

LEMMA HashAddInv ==
  ASSUME IInv, NEW p \in Ids, HashAdd(p), UNCHANGED conf
  PROVE  IInv'
<1>1. At(p, pc[p]) /\ pc[p] = "add" /\ pc'[p] = "choose_params"
  BY DEF HashAdd, At, goto, IInv, TypeOK
<1>2. role[p] # NoRole /\ stamp(p) \in Nat /\ ~Casting /\ ~waits(p) /\ DataOf(p)
  BY <1>1, Acts DEF Acting
<1>3. PlayStep(p, "choose_params")
  BY <1>1, <1>2 DEF HashAdd, PlayStep, Acting, IInv, TypeOK
<1>4. run' \in [Ids -> Nat] /\ s' \in [Ids -> Nat] /\ UNCHANGED arrived
  BY DEF HashAdd, IInv, TypeOK
<1>5. DataStep(p)
  BY DEF HashAdd, DataStep
<1>6. stamp(p)' = stamp(p) + 1
  <2>1. s'[p] = s[p] + 1 /\ run' = run /\ s[p] \in Nat /\ run[p] \in Nat
    BY DEF HashAdd, IInv, TypeOK
  <2>2. size \in Nat
    BY SizesAssumption
  <2>3. \A x, y, z \in Nat : x * y + (z + 1) = x * y + z + 1
    OBVIOUS
  <2> QED BY <2>1, <2>2, <2>3 DEF stamp
<1>7. /\ mineOf(log, p)' = mineOf(log, p) /\ have_globals' = have_globals
      /\ mineOf(vars_, p)' = mineOf(vars_, p) /\ mineOf(par, p)' = mineOf(par, p)
  BY DEF HashAdd, mineOf, have_globals
<1>8. DataOf(p)'
  BY <1>1, <1>2, <1>6, <1>7 DEF DataOf, Acting, Resting
<1>9. inside("choose_params") = inside(pc[p])
  BY <1>1 DEF inside
<1>10. started(p)' = started(p)
  BY <1>1, <1>6 DEF started, Acting
<1> QED BY <1>3, <1>4, <1>5, <1>8, <1>9, <1>10, PlayInside

-----------------------------------------------------------------------------
(* The barrier of all threads.                                             *)

LEMMA GlobalBarrier ==
  ASSUME TypeOK, NEW p \in Ids, p \notin arrived[gb], barrier_wait(gb, p)
  PROVE  /\ arrived' \in [Barriers -> SUBSET Ids]
         /\ \A e \in Insts : arrived'[e] = arrived[e]
         /\ \/ arrived'[gb] = {} /\ \A q \in Ids \ {p} : q \in arrived[gb]
            \/ arrived'[gb] = arrived[gb] \cup {p}
<1> DEFINE a == arrived[gb] \cup {p}
<1>1. a \in SUBSET Ids /\ gb \in Barriers /\ gb \notin Insts
  BY Sizes DEF TypeOK, Barriers
<1>2. arrived' = [arrived EXCEPT ![gb] = IF Cardinality(a) = AVAIL THEN {} ELSE a]
  BY DEF barrier_wait
<1>3. Cardinality(a) = AVAIL => a = Ids
  BY <1>1, Sizes, LastOne
<1>4. arrived' \in [Barriers -> SUBSET Ids] /\ \A e \in Insts : arrived'[e] = arrived[e]
  BY <1>1, <1>2 DEF TypeOK, Barriers
<1>5. CASE Cardinality(a) = AVAIL
  <2>1. arrived'[gb] = {}
    BY <1>1, <1>2, <1>5 DEF TypeOK
  <2> QED BY <1>3, <1>4, <1>5, <2>1
<1>6. CASE Cardinality(a) # AVAIL
  <2>1. arrived'[gb] = a
    BY <1>1, <1>2, <1>6 DEF TypeOK
  <2> QED BY <1>4, <2>1
<1> QED BY <1>5, <1>6

(* The end of a run: the threads wait until all of them are there.         *)
LEMMA ChooseInv ==
  ASSUME IInv, NEW p \in Ids, Choose(p), UNCHANGED conf
  PROVE  IInv'
<1> USE DEF IInv
<1>1. /\ pc[p] = "choose" /\ p \notin arrived[gb] /\ (\A e \in Insts : p \notin arrived[e])
      /\ run[p] < nruns
  BY DEF Choose, At, Barriers
<1>2. /\ arrived' \in [Barriers -> SUBSET Ids]
      /\ \A e \in Insts : arrived'[e] = arrived[e]
      /\ \/ arrived'[gb] = {} /\ \A q \in Ids \ {p} : q \in arrived[gb]
         \/ arrived'[gb] = arrived[gb] \cup {p}
  BY <1>1, GlobalBarrier DEF Choose
<1>3. pc' \in [Ids -> Labels] /\ pc'[p] = "set_role" /\ \A q \in Ids \ {p} : pc'[q] = pc[q]
  BY DEF Choose, goto, TypeOK, Labels
<1>4. UNCHANGED <<conf, parts, ind, inst, role, run, s, vars_, par, mem, next_tb, tb0, log>>
  BY DEF Choose, data
<1>5. gind' \in Perms(Ids)
  <2>1. gind \in Perms(Ids)
    BY DEF TypeOK
  <2> QED BY <2>1, PermPerm DEF Choose
<1>6. TypeOK'
  BY <1>2, <1>3, <1>4, <1>5 DEF TypeOK, Parts, SCANSZ, place
<1>7. ~casting(p)
  BY <1>1 DEF casting
<1>8. ~Casting /\ \A q \in Ids : ~casting(q)
  BY <1>7, Performing
<1>9. CASE arrived'[gb] = {} /\ \A q \in Ids \ {p} : q \in arrived[gb]
  <2>1. \A q \in Ids \ {p} : pc[q] = "set_role" /\ run[q] < nruns
    BY <1>8, <1>9 DEF Control, casting
  <2>2. \A q \in Ids : pc'[q] = "set_role" /\ casting(q)'
    BY <1>3, <1>9, <2>1 DEF casting
  <2>3. Casting'
    BY <2>2 DEF Casting
  <2>4. \A q \in Ids : run[q] \in Nat /\ present(q) = run[q] - 1 /\ present(q)' = run[q]
    BY <1>1, <1>4, <1>8, <2>1, <2>2 DEF present, TypeOK
  <2>5. InStep'
    <3> SUFFICES ASSUME NEW q \in Ids, NEW k \in Ids PROVE run[q] = run[k]
      BY <2>2, <2>4 DEF InStep
    <3>1. run[q] - 1 = run[k] - 1 /\ run[q] \in Nat /\ run[k] \in Nat
      BY <2>4 DEF InStep
    <3> QED BY <3>1
  <2>6. \A e \in Insts : arrived'[e] = {}
    BY <1>1, <1>2, <1>9 DEF Control, TypeOK, Barriers
  <2>7. \A q \in Ids : s[q] = 0
    BY <1>1, <2>1 DEF Control
  <2>8. Control'
    BY <1>1, <1>4, <1>9, <2>1, <2>2, <2>6, <2>7 DEF Control, Acting
  <2>9. Cast'
    BY <2>2 DEF Cast, CastOf
  <2> QED BY <1>6, <2>3, <2>5, <2>8, <2>9 DEF Complete, Together, Data
<1>10. CASE arrived'[gb] = arrived[gb] \cup {p}
  <2>1. \A q \in Ids : ~casting(q)'
    BY <1>3, <1>8, <1>10 DEF casting
  <2>2. ~Casting'
    BY <2>1, <1>8 DEF Casting
  <2>3. \A q \in Ids : present(q)' = present(q)
    BY <1>1, <1>3, <1>4, <1>8, <2>1 DEF present
  <2>4. InStep'
    BY <2>1, <2>3 DEF InStep
  <2>5. have_cache' = have_cache /\ have_globals' = have_globals
    BY <1>4 DEF have_cache, have_globals
  <2>6. Control'
    <3> SUFFICES ASSUME NEW q \in Ids
                 PROVE  /\ q \in arrived'[gb] => pc'[q] \in {"set_role", "choose_params"}
                        /\ \A e \in Insts : q \in arrived'[e] =>
                             /\ q \notin arrived'[gb] /\ inst'[q] = e /\ role'[q] # NoRole
                             /\ pc'[q] \in Acting \cup {"shuffled"}
                             /\ pc'[q] = "sync" => have_cache'
                             /\ pc'[q] = "add" => have_globals'
                        /\ casting(q)' \/ pc'[q] \in {"choose", "set_role"} => s'[q] = 0
                        /\ casting(q)' \/ q \in arrived'[gb] => run'[q] < nruns
                        /\ pc'[q] \in Acting => role'[q] # NoRole
      BY DEF Control, gb, NoRole
    <3>1. CASE q = p
      BY <3>1, <1>1, <1>2, <1>3, <1>4, <2>1 DEF Control, Acting
    <3>2. CASE q # p
      BY <3>2, <1>2, <1>3, <1>4, <1>10, <2>1, <2>5 DEF Control
    <3> QED BY <3>1, <3>2
  <2>7. Complete'
    <3>1. \A q \in Ids : CompleteOf(q)
      BY <1>8 DEF Complete
    <3>2. \A q \in Ids : CompleteOf(q)'
      BY <3>1, <1>4, Zenon DEF CompleteOf, mates, NoRole
    <3> QED BY <3>2 DEF Complete
  <2>8. \A q \in Ids : stamp(q)' = stamp(q) /\ (waits(q)' <=> waits(q)) /\ (old(q)' <=> old(q))
    <3> TAKE q \in Ids
    <3>1. stamp(q)' = stamp(q)
      BY <1>4 DEF stamp
    <3>2. waits(q)' <=> waits(q)
      BY <1>2, <1>4, InstOf DEF waits
    <3> QED BY <3>1, <3>2, <2>3 DEF old
  <2>9. Together'
    <3>1. \A k : inside(k)' = inside(k) /\ waiting(k)' = waiting(k)
      BY <2>5, Zenon DEF inside, waiting
    <3>2. ASSUME NEW q \in Ids PROVE segment(q)' = segment(q) /\ started(q)' = started(q)
      <4>1. CASE q = p
        <5>1. ~waits(p) /\ ~waits(p)'
          BY <1>1, <2>8, InstOf DEF waits
        <5>2. inside("set_role") = inside("choose")
          BY DEF inside
        <5>3. segment(p)' = segment(p)
          BY <5>1, <5>2, <3>1, <1>1, <1>3, Zenon DEF segment
        <5>4. started(p)' = started(p)
          BY <1>1, <1>3, <2>8 DEF started, Acting
        <5> QED BY <4>1, <5>3, <5>4
      <4>2. CASE q # p
        <5>1. pc'[q] = pc[q]
          BY <4>2, <1>3
        <5> QED BY <5>1, <3>1, <2>8, Zenon DEF segment, started
      <4> QED BY <4>1, <4>2
    <3> QED BY <3>2, <1>4, <1>8 DEF Together, mates, NoRole
  <2>10. Data'
    <3> SUFFICES ASSUME NEW q \in Ids, role[q] # NoRole PROVE DataOf(q)'
      BY <1>4 DEF Data, NoRole
    <3>1. DataOf(q)
      BY <1>8 DEF Data
    <3>2. /\ mineOf(vars_, q)' = mineOf(vars_, q) /\ mineOf(par, q)' = mineOf(par, q)
          /\ mineOf(mem, q)' = mineOf(mem, q) /\ mineOf(log, q)' = mineOf(log, q)
      BY <1>4 DEF mineOf
    <3>3. CASE q = p
      BY <3>1, <3>2, <3>3, <1>1, <1>3, <2>5, <2>8 DEF DataOf, Acting, Resting
    <3>4. CASE q # p
      <4>1. pc'[q] = pc[q] /\ tb0'[q] = tb0[q] /\ next_tb'[inst'[q]] = next_tb[inst[q]]
        BY <3>4, <1>3, <1>4
      <4> QED BY <3>1, <3>2, <4>1, <2>5, <2>8, Zenon DEF DataOf
    <3> QED BY <3>3, <3>4
  <2>11. Cast'
    BY <2>2 DEF Cast
  <2> QED BY <1>6, <2>4, <2>6, <2>7, <2>9, <2>10, <2>11
<1> QED BY <1>2, <1>9, <1>10

-----------------------------------------------------------------------------
(* Steps of the casting.                                                   *)

LEMMA CastFacts ==
  ASSUME IInv, NEW p \in Ids, casting(p)
  PROVE  /\ Casting
         /\ \A q \in Ids : /\ casting(q) /\ CastOf(q) /\ s[q] = 0 /\ run[q] < nruns
                           /\ pc[q] \in {"set_role", "shuffled", "choose_params"}
                           /\ (pc[q] = "choose_params" <=> q \in arrived[gb])
         /\ \A q, k \in Ids : run[q] = run[k]
<1> USE DEF IInv
<1>1. \A q \in Ids : casting(q)
  BY DEF InStep
<1>2. Casting
  BY <1>1 DEF Casting
<1>3. \A q \in Ids : present(q) = run[q]
  BY <1>1 DEF present
<1>4. \A q \in Ids : s[q] = 0 /\ run[q] < nruns
  BY <1>1, Zenon DEF Control
<1> QED BY <1>1, <1>2, <1>3, <1>4 DEF InStep, Cast, casting

(* All the threads are cast: the instances that perform are complete.      *)
CastEnd == /\ TypeOK
           /\ \A p \in Ids : run[p] < nruns
           /\ \A p, q \in Ids : run[p] = run[q]
           /\ \A p \in Ids : pc[p] = "choose_params" /\ CastOf(p)

LEMMA CastComplete == CastEnd => \A p \in Ids : CompleteOf(p)
<1> SUFFICES ASSUME CastEnd, NEW p \in Ids, role[p] # NoRole PROVE CompleteOf(p)
  BY DEF CompleteOf, mates
<1> DEFINE g(r) == IF shuffleRoles THEN ind[inst[p]][r] ELSE r
<1>1. \A q \in Ids : role[q] # NoRole => sentIn(q)
  BY DEF CastEnd, CastOf
<1>2. \A q \in Ids : sentIn(q) => sent(q) \in Insts \X Roles
  BY Sent DEF CastEnd
<1>3. \A q \in Ids : sentIn(q) => inst[q] = sent(q)[1]
  BY DEF CastEnd, CastOf
<1>4. inst[p] \in Insts /\ ind[inst[p]] \in Perms(Roles)
  BY DEF CastEnd, TypeOK
<1>5. \A q \in Ids : sentIn(q) /\ inst[q] = inst[p] => role[q] = g(sent(q)[2])
  BY DEF CastEnd, CastOf
<1>6. \A r \in Roles : g(r) \in Roles
  BY <1>4 DEF Perms
<1>7. \A r, t \in Roles : g(r) = g(t) => r = t
  BY <1>4 DEF Perms
<1>8. \A r \in Roles : \E t \in Roles : g(t) = r
  <2>1. \A r \in Roles : \E t \in Roles : ind[inst[p]][t] = r
    BY <1>4, Sizes, PermOnto
  <2> QED BY <2>1
<1> HIDE DEF g
<1>9. ASSUME NEW q \in Ids, mates(p, q), role[p] = role[q] PROVE p = q
  <2>1. sentIn(p) /\ sentIn(q) /\ inst[p] = inst[q]
    BY <1>1, <1>9 DEF mates
  <2>2. sent(p)[2] \in Roles /\ sent(q)[2] \in Roles /\ g(sent(p)[2]) = g(sent(q)[2])
    BY <1>2, <1>5, <1>9, <2>1
  <2>3. sent(p)[2] = sent(q)[2] /\ sent(p)[1] = sent(q)[1]
    BY <1>3, <1>7, <2>1, <2>2
  <2>4. sent(p) = sent(q)
    BY <1>2, <2>1, <2>3
  <2> QED BY <2>1, <2>4, Sent DEF CastEnd
<1>10. ASSUME NEW r \in Roles PROVE \E q \in Ids : mates(p, q) /\ role[q] = r
  <2>1. PICK t \in Roles : g(t) = r
    BY <1>8
  <2>2. sentIn(p) /\ inst[p] = sent(p)[1]
    BY <1>1, <1>3
  <2>3. PICK q \in Ids : sent(q) = <<sent(p)[1], t>>
    BY <2>2, Sent DEF CastEnd
  <2>4. sent(q)[1] = sent(p)[1] /\ sent(q)[2] = t
    BY <2>3
  <2>5. sentIn(q)
    BY <2>2, <2>4 DEF sentIn
  <2>6. inst[q] = inst[p] /\ role[q] = r
    BY <1>3, <1>5, <2>1, <2>2, <2>4, <2>5
  <2> QED BY <2>6, Sizes DEF mates
<1> QED BY <1>9, <1>10 DEF CompleteOf

LEMMA CastCompleteNext == CastEnd' => \A p \in Ids : CompleteOf(p)'
<1>1. (CastEnd => \A p \in Ids : CompleteOf(p))'
  BY CastComplete, PTL
<1> QED BY <1>1

(* The start of the performance.                                           *)
LEMMA PerformStartsNext ==
  ASSUME CastEnd', NEW p \in Ids, s'[p] = 0, ~waits(p)'
  PROVE  started(p)' = stamp(p)' /\ stamp(p)' = run'[p] * size /\ DataOf(p)'
<1>1. pc'[p] = "choose_params" /\ run'[p] \in Nat /\ size \in Nat
  BY SizesAssumption DEF CastEnd, TypeOK
<1>2. present(p)' = run'[p]
  BY <1>1 DEF present
<1>3. \A x, y \in Nat : x * y + 0 = x * y /\ ~(x * y > x * y)
  OBVIOUS
<1>4. stamp(p)' = run'[p] * size
  BY <1>1, <1>3 DEF stamp
<1>5. ~old(p)'
  BY <1>1, <1>2, <1>3, <1>4 DEF old
<1> QED BY <1>1, <1>4, <1>5 DEF started, Acting, DataOf

(* A thread is cast and comes to gb.                                       *)
LEMMA CastBarrier ==
  ASSUME IInv, NEW p \in Ids, casting(p), p \notin arrived[gb], \A e \in Insts : p \notin arrived[e],
         barrier_wait(gb, p), goto(p, "choose_params"), TypeOK',
         UNCHANGED <<conf, parts, gind, ind, run, s>>,
         \A q \in Ids \ {p} : inst'[q] = inst[q] /\ role'[q] = role[q],
         \A q \in Ids : CastOf(q)'
  PROVE  IInv'
<1> USE DEF IInv
<1>1. /\ \A e \in Insts : arrived'[e] = arrived[e]
      /\ \/ arrived'[gb] = {} /\ \A q \in Ids \ {p} : q \in arrived[gb]
         \/ arrived'[gb] = arrived[gb] \cup {p}
  BY GlobalBarrier
<1>2. pc'[p] = "choose_params" /\ \A q \in Ids \ {p} : pc'[q] = pc[q]
  BY DEF goto, TypeOK
<1>3. /\ \A q \in Ids : /\ casting(q) /\ s[q] = 0 /\ run[q] < nruns
                        /\ pc[q] \in {"set_role", "shuffled", "choose_params"}
                        /\ (pc[q] = "choose_params" <=> q \in arrived[gb])
      /\ \A q, k \in Ids : run[q] = run[k]
  BY CastFacts
<1>4. have_cache' = have_cache /\ have_globals' = have_globals
  BY DEF have_cache, have_globals
<1>5. \A q \in Ids : \A e \in Insts : q \in arrived'[e] =>
        /\ q # p /\ q \notin arrived[gb] /\ inst'[q] = e /\ role'[q] # NoRole
        /\ pc'[q] = "shuffled"
  <2> SUFFICES ASSUME NEW q \in Ids, NEW e \in Insts, q \in arrived[e]
               PROVE  /\ q # p /\ q \notin arrived[gb] /\ inst'[q] = e /\ role'[q] # NoRole
                      /\ pc'[q] = "shuffled"
    BY <1>1
  <2>1. q # p
    OBVIOUS
  <2>2. /\ q \notin arrived[gb] /\ inst[q] = e /\ role[q] # NoRole
        /\ pc[q] \in Acting \cup {"shuffled"}
    BY DEF Control
  <2> QED BY <1>2, <1>3, <2>1, <2>2 DEF Acting
<1>6. CASE arrived'[gb] = {} /\ \A q \in Ids \ {p} : q \in arrived[gb]
  <2>1. \A q \in Ids : pc'[q] = "choose_params" /\ ~casting(q)'
    BY <1>2, <1>3, <1>6 DEF casting
  <2>2. ~Casting'
    BY <2>1 DEF Casting
  <2>3. CastEnd'
    BY <1>3, <2>1 DEF CastEnd
  <2>4. Complete'
    BY <2>3, CastCompleteNext DEF Complete
  <2>5. \A q \in Ids : present(q)' = run[q]
    BY <2>1 DEF present
  <2>6. InStep'
    BY <1>3, <2>1, <2>5 DEF InStep
  <2>7. \A e \in Insts : arrived'[e] = {}
    BY <1>5, <2>1 DEF TypeOK, Barriers
  <2>8. Control'
    BY <1>6, <2>1, <2>7 DEF Control, Acting
  <2>9. \A q \in Ids : s'[q] = 0 /\ ~waits(q)'
    <3> TAKE q \in Ids
    <3>1. inst'[q] \in Insts
      BY DEF TypeOK
    <3> QED BY <3>1, <1>3, <2>7 DEF waits
  <2>10. Data'
    BY <2>3, <2>9, PerformStartsNext DEF Data
  <2>11. Together'
    <3>1. \A q \in Ids : started(q)' = run[q] * size
      BY <2>3, <2>9, PerformStartsNext
    <3>2. \A q \in Ids : segment(q)' = inside("choose_params")'
      BY <2>1, <2>9, Zenon DEF segment
    <3>3. \A q, k \in Ids : started(q)' = started(k)'
      BY <3>1, <1>3
    <3> QED BY <3>2, <3>3 DEF Together
  <2> QED BY <2>2, <2>4, <2>6, <2>8, <2>10, <2>11 DEF Cast
<1>7. CASE arrived'[gb] = arrived[gb] \cup {p}
  <2>1. \A q \in Ids : casting(q)'
    BY <1>2, <1>3, <1>7 DEF casting
  <2>2. Casting'
    BY <2>1 DEF Casting
  <2>3. \A q \in Ids : present(q)' = run[q]
    BY <2>1 DEF present
  <2>4. InStep'
    BY <1>3, <2>1, <2>3 DEF InStep
  <2>5. \A q \in Ids : pc'[q] \in {"set_role", "shuffled", "choose_params"}
                       /\ (q \in arrived'[gb] => pc'[q] = "choose_params")
    BY <1>2, <1>3, <1>7
  <2>6. Control'
    <3> SUFFICES ASSUME NEW q \in Ids
                 PROVE  /\ q \in arrived'[gb] => pc'[q] \in {"set_role", "choose_params"}
                        /\ \A e \in Insts : q \in arrived'[e] =>
                             /\ q \notin arrived'[gb] /\ inst'[q] = e /\ role'[q] # NoRole
                             /\ pc'[q] \in Acting \cup {"shuffled"}
                             /\ pc'[q] = "sync" => have_cache'
                             /\ pc'[q] = "add" => have_globals'
                        /\ casting(q)' \/ pc'[q] \in {"choose", "set_role"} => s'[q] = 0
                        /\ casting(q)' \/ q \in arrived'[gb] => run'[q] < nruns
                        /\ pc'[q] \in Acting => role'[q] # NoRole
      BY DEF Control, gb, NoRole
    <3> QED BY <1>3, <1>5, <1>7, <2>5 DEF Acting
  <2> QED BY <2>2, <2>4, <2>6 DEF Cast, Complete, Together, Data
<1> QED BY <1>1, <1>6, <1>7

(* Where the threads are sent does not change in the casting.              *)
LEMMA SentKept ==
  ASSUME UNCHANGED <<conf, parts, gind, run>>
  PROVE  /\ \A q : sent(q)' = sent(q) /\ (sentIn(q)' <=> sentIn(q))
         /\ shuffleRoles' <=> shuffleRoles
<1>1. place' = place /\ SCANSZ' = SCANSZ
  BY DEF place, SCANSZ
<1>2. \A q : sent(q)' = sent(q)
  BY <1>1 DEF sent, part
<1> QED BY <1>1, <1>2 DEF sentIn, shuffleRoles

(* What is known of thread q, when another one goes on.                    *)
LEMMA OthersCast ==
  ASSUME IInv, NEW p \in Ids, casting(p), NEW q \in Ids \ {p},
         UNCHANGED <<conf, parts, gind, ind, run>>,
         pc'[q] = pc[q] /\ inst'[q] = inst[q] /\ role'[q] = role[q],
         \A e \in Insts : arrived'[e] = arrived[e],
         \A k \in Ids : pc'[k] = "set_role" => pc[k] = "set_role"
  PROVE  CastOf(q)'
<1>1. CastOf(q) /\ inst[q] \in Insts
  BY CastFacts DEF IInv, TypeOK
<1>2. /\ \A k : sent(k)' = sent(k) /\ (sentIn(k)' <=> sentIn(k))
      /\ shuffleRoles' <=> shuffleRoles
  BY SentKept
<1>3. arrived'[inst'[q]] = arrived[inst[q]]
  BY <1>1
<1> QED BY <1>1, <1>2, <1>3 DEF CastOf, NoRole

LEMMA ReadRoleInv ==
  ASSUME IInv, NEW p \in Ids, ReadRole(p), UNCHANGED conf
  PROVE  IInv'
<1> USE DEF IInv
<1>1. pc[p] = "shuffled" /\ p \notin arrived[gb] /\ \A e \in Insts : p \notin arrived[e]
  BY DEF ReadRole, At, Barriers
<1>2. casting(p)
  BY <1>1 DEF casting
<1>3. CastOf(p) /\ inst[p] \in Insts /\ ind[inst[p]] \in Perms(Roles) /\ run[p] < nruns
  BY <1>2, CastFacts DEF TypeOK
<1>4. shuffleRoles /\ sentIn(p) /\ <<inst[p], role[p]>> = sent(p) /\ sent(p) \in Insts \X Roles
  BY <1>1, <1>2, <1>3, CastFacts, Sent DEF CastOf
<1>5. inst[p] = sent(p)[1] /\ role[p] = sent(p)[2] /\ role[p] \in Roles
  BY <1>4
<1>6. ind[inst[p]][role[p]] \in Roles
  BY <1>3, <1>5 DEF Perms
<1>7. /\ pc' \in [Ids -> Labels] /\ pc'[p] = "choose_params" /\ \A q \in Ids \ {p} : pc'[q] = pc[q]
      /\ role' \in [Ids -> Roles \cup {NoRole}] /\ role'[p] = ind[inst[p]][role[p]]
      /\ \A q \in Ids \ {p} : role'[q] = role[q]
  BY <1>6 DEF ReadRole, goto, TypeOK, Labels
<1>8. /\ barrier_wait(gb, p) /\ goto(p, "choose_params")
      /\ UNCHANGED <<conf, parts, gind, ind, inst, run, s, vars_, par, mem, next_tb, tb0, log>>
  BY DEF ReadRole, data
<1>9. arrived' \in [Barriers -> SUBSET Ids] /\ \A e \in Insts : arrived'[e] = arrived[e]
  BY <1>1, <1>8, GlobalBarrier
<1>10. TypeOK'
  BY <1>7, <1>8, <1>9 DEF TypeOK, Parts, SCANSZ, place
<1>11. \A k \in Ids : pc'[k] = "set_role" => pc[k] = "set_role"
  BY <1>7
<1>12. /\ \A k : sent(k)' = sent(k) /\ (sentIn(k)' <=> sentIn(k))
       /\ shuffleRoles' <=> shuffleRoles
  BY <1>8, SentKept
<1>13. CastOf(p)'
  <2>1. \A q \in Ids : sent(q)[1] = sent(p)[1] => pc[q] # "set_role"
    BY <1>1, <1>3, <1>4 DEF CastOf
  <2>2. inst'[p] = sent(p)[1] /\ role'[p] = ind'[inst'[p]][sent(p)[2]]
    BY <1>5, <1>7, <1>8
  <2> QED BY <1>4, <1>7, <1>11, <1>12, <2>1, <2>2 DEF CastOf
<1>14. ASSUME NEW q \in Ids \ {p} PROVE CastOf(q)'
  BY <1>2, <1>7, <1>8, <1>9, <1>11, OthersCast
<1>15. \A q \in Ids : CastOf(q)'
  BY <1>13, <1>14
<1> QED BY <1>1, <1>2, <1>7, <1>8, <1>10, <1>15, CastBarrier

(* set_role without a shuffle of the roles, or without a role.             *)
LEMMA SetRoleGlobal ==
  ASSUME IInv, NEW p \in Ids, SetRole(p), UNCHANGED conf, ~(sentIn(p) /\ shuffleRoles)
  PROVE  IInv'
<1> USE DEF IInv
<1>1. pc[p] = "set_role" /\ p \notin arrived[gb] /\ \A e \in Insts : p \notin arrived[e]
  BY DEF SetRole, At, Barriers
<1>2. casting(p)
  BY <1>1 DEF casting
<1>3. sentIn(p) => sent(p)[1] \in Insts /\ sent(p)[2] \in Roles
  <2>1. sentIn(p) => sent(p) \in Insts \X Roles
    BY <1>2, CastFacts, Sent
  <2> QED BY <2>1
<1>4. /\ barrier_wait(gb, p) /\ goto(p, "choose_params")
      /\ UNCHANGED <<conf, parts, gind, ind, run, s, vars_, par, mem, next_tb, tb0, log>>
      /\ IF sentIn(p) THEN inst' = [inst EXCEPT ![p] = sent(p)[1]] /\ role' = [role EXCEPT ![p] = sent(p)[2]]
         ELSE role' = [role EXCEPT ![p] = NoRole] /\ inst' = inst
  BY DEF SetRole, data, sentIn, sent
<1>5. /\ inst' \in [Ids -> Insts] /\ role' \in [Ids -> Roles \cup {NoRole}]
      /\ \A q \in Ids \ {p} : inst'[q] = inst[q] /\ role'[q] = role[q]
      /\ sentIn(p) => inst'[p] = sent(p)[1] /\ role'[p] = sent(p)[2]
      /\ ~sentIn(p) => role'[p] = NoRole
  BY <1>3, <1>4 DEF TypeOK
<1>6. pc' \in [Ids -> Labels] /\ pc'[p] = "choose_params" /\ \A q \in Ids \ {p} : pc'[q] = pc[q]
  BY <1>4 DEF goto, TypeOK, Labels
<1>7. arrived' \in [Barriers -> SUBSET Ids] /\ \A e \in Insts : arrived'[e] = arrived[e]
  BY <1>1, <1>4, GlobalBarrier
<1>8. TypeOK'
  BY <1>4, <1>5, <1>6, <1>7 DEF TypeOK, Parts, SCANSZ, place
<1>9. /\ \A k : sent(k)' = sent(k) /\ (sentIn(k)' <=> sentIn(k))
      /\ shuffleRoles' <=> shuffleRoles
  BY <1>4, SentKept
<1>10. CastOf(p)'
  BY <1>5, <1>6, <1>9 DEF CastOf, NoRole
<1>11. ASSUME NEW q \in Ids \ {p} PROVE CastOf(q)'
  BY <1>2, <1>4, <1>5, <1>6, <1>7, OthersCast
<1>12. \A q \in Ids : CastOf(q)'
  BY <1>10, <1>11
<1> QED BY <1>1, <1>2, <1>4, <1>5, <1>8, <1>12, CastBarrier

(* set_role with a shuffle: the thread that shuffles does so before its    *)
(* instance is let go, when no thread of the instance has read its role.   *)
LEMMA SetRoleShuffle ==
  ASSUME IInv, NEW p \in Ids, SetRole(p), UNCHANGED conf, sentIn(p), shuffleRoles
  PROVE  IInv'
<1> USE DEF IInv
<1>1. pc[p] = "set_role" /\ p \notin arrived[gb] /\ \A e \in Insts : p \notin arrived[e]
  BY DEF SetRole, At, Barriers
<1>2. casting(p)
  BY <1>1 DEF casting
<1>3. PICK e : e = sent(p)[1]
  OBVIOUS
<1>4. e \in Insts /\ sent(p)[2] \in Roles /\ sent(p) = <<e, sent(p)[2]>> /\ e # gb
  <2>1. sent(p) \in Insts \X Roles
    BY <1>2, CastFacts, Sent
  <2>2. gb \notin Insts
    BY Sizes
  <2> QED BY <2>1, <2>2, <1>3
<1>5. /\ barrier_wait(e, p) /\ goto(p, "shuffled")
      /\ UNCHANGED <<conf, parts, gind, run, s, vars_, par, mem, next_tb, tb0, log>>
      /\ inst' = [inst EXCEPT ![p] = e] /\ role' = [role EXCEPT ![p] = sent(p)[2]]
      /\ \/ \E f \in Perms(Roles) : ind' = [ind EXCEPT ![e] = [x \in Roles |-> ind[e][f[x]]]]
         \/ UNCHANGED ind
  <2>1. e = place[part(p)][gind[p]][1] /\ sent(p)[2] = place[part(p)][gind[p]][2]
    BY <1>3 DEF sent
  <2>2. 0 <= e /\ e < nexe
    BY <1>3 DEF sentIn
  <2>3. UNCHANGED <<conf, parts, gind, run, s, vars_, par, mem, next_tb, tb0, log>>
    BY DEF SetRole, data
  <2> DEFINE d == place[part(p)][gind[p]][1]
             k == place[part(p)][gind[p]][2]
  <2>4. /\ inst' = [inst EXCEPT ![p] = d] /\ role' = [role EXCEPT ![p] = k]
        /\ \/ \E f \in Perms(Roles) : ind' = [ind EXCEPT ![d] = [x \in Roles |-> ind[d][f[x]]]]
           \/ UNCHANGED ind
        /\ barrier_wait(d, p) /\ goto(p, "shuffled")
    BY <2>1, <2>2, Zenon DEF SetRole
  <2> HIDE DEF d, k
  <2>5. d = e /\ k = sent(p)[2]
    BY <2>1 DEF d, k
  <2> QED BY <2>3, <2>4, <2>5, Zenon
<1>6. /\ \A q \in Ids : /\ casting(q) /\ CastOf(q) /\ s[q] = 0 /\ run[q] < nruns
                        /\ pc[q] \in {"set_role", "shuffled", "choose_params"}
                        /\ (pc[q] = "choose_params" <=> q \in arrived[gb])
      /\ \A q, k \in Ids : run[q] = run[k]
  BY <1>2, CastFacts
<1>7. ind' \in [Insts -> Perms(Roles)] /\ \A d \in Insts \ {e} : ind'[d] = ind[d]
  <2>1. ind \in [Insts -> Perms(Roles)] /\ ind[e] \in Perms(Roles)
    BY <1>4 DEF TypeOK
  <2>2. CASE UNCHANGED ind
    BY <2>1, <2>2
  <2>3. ASSUME NEW f \in Perms(Roles), ind' = [ind EXCEPT ![e] = [x \in Roles |-> ind[e][f[x]]]]
        PROVE  ind' \in [Insts -> Perms(Roles)] /\ \A d \in Insts \ {e} : ind'[d] = ind[d]
    <3>1. [x \in Roles |-> ind[e][f[x]]] \in Perms(Roles)
      BY <2>1, PermPerm
    <3> QED BY <2>1, <2>3, <3>1, <1>4
  <2> QED BY <1>5, <2>2, <2>3
<1>8. /\ inst' \in [Ids -> Insts] /\ role' \in [Ids -> Roles \cup {NoRole}]
      /\ inst'[p] = e /\ role'[p] = sent(p)[2]
      /\ \A q \in Ids \ {p} : inst'[q] = inst[q] /\ role'[q] = role[q]
  BY <1>4, <1>5 DEF TypeOK
<1>9. pc' \in [Ids -> Labels] /\ pc'[p] = "shuffled" /\ \A q \in Ids \ {p} : pc'[q] = pc[q]
  BY <1>5 DEF goto, TypeOK, Labels
<1> DEFINE T == {q \in Ids : sent(q)[1] = e}
           a == arrived[e] \cup {p}
<1>10. \A q \in arrived[e] : q \in Ids /\ q # p /\ pc[q] = "shuffled" /\ sent(q)[1] = e
  <2> SUFFICES ASSUME NEW q \in arrived[e] PROVE q \in Ids /\ q # p /\ pc[q] = "shuffled" /\ sent(q)[1] = e
    OBVIOUS
  <2>1. q \in Ids /\ q # p
    BY <1>1, <1>4 DEF TypeOK, Barriers
  <2>2. inst[q] = e /\ pc[q] \in Acting \cup {"shuffled"}
    BY <1>4, <2>1 DEF Control
  <2>3. pc[q] = "shuffled"
    BY <1>6, <2>1, <2>2 DEF Acting
  <2>4. <<inst[q], role[q]>> = sent(q)
    BY <1>6, <2>1, <2>3 DEF CastOf
  <2>5. sent(q)[1] = inst[q]
    BY <2>4
  <2> QED BY <2>1, <2>2, <2>3, <2>5
<1>11. a \in SUBSET T
  BY <1>3, <1>10
<1>12. IsFiniteSet(T) /\ Cardinality(T) = N
  BY <1>3, <1>6, SentSize
<1>13. Cardinality(a) = N => a = T
  BY <1>11, <1>12, LastOne
<1>14. /\ arrived' \in [Barriers -> SUBSET Ids] /\ arrived'[gb] = arrived[gb]
       /\ \A d \in Insts \ {e} : arrived'[d] = arrived[d]
       /\ (arrived'[e] = {} /\ a = T) \/ arrived'[e] = a
  BY <1>4, <1>5, <1>13 DEF barrier_wait, TypeOK, Barriers
<1>15. TypeOK'
  BY <1>5, <1>7, <1>8, <1>9, <1>14 DEF TypeOK, Parts, SCANSZ, place
<1>16. \A q \in Ids : casting(q)'
  BY <1>1, <1>6, <1>9, <1>14 DEF casting
<1>17. Casting'
  BY <1>16 DEF Casting
<1>18. InStep'
  <2>1. \A q \in Ids : present(q)' = run[q]
    BY <1>5, <1>16 DEF present
  <2> QED BY <1>6, <1>16, <2>1 DEF InStep
<1>19. Control'
  <2> SUFFICES ASSUME NEW q \in Ids
               PROVE  /\ q \in arrived'[gb] => pc'[q] \in {"set_role", "choose_params"}
                      /\ \A d \in Insts : q \in arrived'[d] =>
                           /\ q \notin arrived'[gb] /\ inst'[q] = d /\ role'[q] # NoRole
                           /\ pc'[q] \in Acting \cup {"shuffled"}
                           /\ pc'[q] = "sync" => have_cache'
                           /\ pc'[q] = "add" => have_globals'
                      /\ casting(q)' \/ pc'[q] \in {"choose", "set_role"} => s'[q] = 0
                      /\ casting(q)' \/ q \in arrived'[gb] => run'[q] < nruns
                      /\ pc'[q] \in Acting => role'[q] # NoRole
    BY DEF Control, gb, NoRole
  <2>1. pc'[q] \in {"set_role", "shuffled", "choose_params"} /\ s'[q] = 0 /\ run'[q] < nruns
    BY <1>5, <1>6, <1>9
  <2>2. q \in arrived'[gb] => pc'[q] = "choose_params"
    BY <1>1, <1>6, <1>9, <1>14
  <2>3. ASSUME NEW d \in Insts, q \in arrived'[d]
        PROVE  /\ q \notin arrived'[gb] /\ inst'[q] = d /\ role'[q] # NoRole
               /\ pc'[q] \in Acting \cup {"shuffled"}
    <3>1. CASE q = p
      <4>1. d = e
        BY <1>1, <1>14, <2>3, <3>1
      <4> QED BY <1>1, <1>4, <1>8, <1>9, <1>14, <3>1, <4>1, Sizes
    <3>2. CASE q # p
      <4>1. q \in arrived[d]
        BY <1>14, <2>3, <3>2
      <4> QED BY <1>8, <1>9, <1>14, <3>2, <4>1 DEF Control
    <3> QED BY <3>1, <3>2
  <2> QED BY <2>1, <2>2, <2>3 DEF Acting
<1>20. /\ \A k : sent(k)' = sent(k) /\ (sentIn(k)' <=> sentIn(k))
       /\ shuffleRoles' <=> shuffleRoles
  BY <1>5, SentKept
<1>21. arrived'[e] # a => \A k \in Ids : sent(k)[1] = e => pc'[k] # "set_role"
  <2> SUFFICES ASSUME a = T, NEW k \in Ids, sent(k)[1] = e PROVE pc'[k] = "shuffled"
    BY <1>14
  <2>1. k = p \/ k \in arrived[e]
    OBVIOUS
  <2> QED BY <1>9, <1>10, <2>1
<1>22. \A k \in Ids : pc'[k] = "set_role" => pc[k] = "set_role"
  BY <1>9
<1>23. Cast'
  <2> SUFFICES ASSUME NEW q \in Ids PROVE CastOf(q)'
    BY DEF Cast
  <2>1. CASE q = p
    <3>1. <<inst'[p], role'[p]>> = sent(p)
      BY <1>4, <1>8
    <3>2. p \notin arrived'[inst'[p]] => \A k \in Ids : sent(k)[1] = sent(p)[1] => pc'[k] # "set_role"
      BY <1>3, <1>8, <1>21
    <3> QED BY <1>9, <1>20, <2>1, <3>1, <3>2 DEF CastOf
  <2>2. CASE q # p
    <3>1. pc'[q] = pc[q] /\ inst'[q] = inst[q] /\ role'[q] = role[q] /\ CastOf(q) /\ inst[q] \in Insts
      BY <1>6, <1>8, <1>9, <2>2 DEF TypeOK
    <3>2. pc[q] = "choose_params" /\ sentIn(q) => inst[q] = sent(q)[1] /\ inst[q] # e
      BY <1>1, <1>3, <3>1 DEF CastOf
    <3>3. pc[q] = "choose_params" /\ sentIn(q) => role'[q] = ind'[inst'[q]][sent(q)[2]]
      BY <1>7, <3>1, <3>2 DEF CastOf
    <3>4. pc[q] = "shuffled" => sent(q)[1] = inst[q]
      <4> SUFFICES ASSUME pc[q] = "shuffled" PROVE sent(q)[1] = inst[q]
        OBVIOUS
      <4>1. sent(q) = <<inst[q], role[q]>>
        BY <3>1 DEF CastOf
      <4> QED BY <4>1
    <3>5. sentIn(q) /\ (pc[q] = "choose_params" \/ (pc[q] = "shuffled" /\ q \notin arrived'[inst[q]]))
            => \A k \in Ids : sent(k)[1] = sent(q)[1] => pc'[k] # "set_role"
      <4> SUFFICES ASSUME sentIn(q), NEW k \in Ids, sent(k)[1] = sent(q)[1],
                          pc[q] = "choose_params" \/ (pc[q] = "shuffled" /\ q \notin arrived'[inst[q]])
                   PROVE  pc'[k] # "set_role"
        OBVIOUS
      <4>1. CASE pc[q] = "choose_params" \/ (pc[q] = "shuffled" /\ q \notin arrived[inst[q]])
        BY <4>1, <3>1, <1>22 DEF CastOf
      <4>2. CASE pc[q] = "shuffled" /\ q \in arrived[inst[q]] /\ q \notin arrived'[inst[q]]
        <5>1. inst[q] = e /\ arrived'[e] # a
          BY <4>2, <3>1, <1>14
        <5> QED BY <5>1, <4>2, <3>4, <1>21
      <4> QED BY <4>1, <4>2
    <3>6. pc[q] = "shuffled" => <<inst'[q], role'[q]>> = sent(q) /\ sentIn(q)
      BY <3>1 DEF CastOf
    <3>7. pc[q] = "choose_params" /\ ~sentIn(q) => role'[q] = NoRole
      BY <3>1 DEF CastOf
    <3> QED BY <1>20, <3>1, <3>2, <3>3, <3>5, <3>6, <3>7 DEF CastOf, NoRole
  <2> QED BY <2>1, <2>2
<1> QED BY <1>15, <1>17, <1>18, <1>19, <1>23 DEF Complete, Together, Data

-----------------------------------------------------------------------------

LEMMA InitInv == Init => IInv
<1> SUFFICES ASSUME Init PROVE IInv
  OBVIOUS
<1>1. TypeOK
  <2>1. ind \in [Insts -> Perms(Roles)] /\ gind \in Perms(Ids)
    BY DEF Init, Perms
  <2>2. pc \in [Ids -> Labels]
    BY DEF Init, Labels
  <2>3. inst \in [Ids -> Insts]
    BY SizesAssumption DEF Init, Insts
  <2>4. log \in [Insts -> [Roles -> Int \X Int]]
    BY DEF Init, Never
  <2> QED BY <2>1, <2>2, <2>3, <2>4 DEF Init, TypeOK, Never
<1>2. \A p \in Ids : /\ pc[p] = "choose" /\ role[p] = NoRole /\ run[p] = 0 /\ s[p] = 0
                     /\ \A x \in Barriers : p \notin arrived[x]
  BY DEF Init
<1>3. \A p \in Ids : ~casting(p) /\ p \notin arrived[gb] /\ \A e \in Insts : p \notin arrived[e]
  BY <1>2 DEF casting, Barriers
<1>4. ~Casting
  BY <1>3, Sizes DEF Casting
<1>5. InStep
  BY <1>2, <1>3 DEF InStep, present
<1>6. Control
  BY <1>2, <1>3 DEF Control, Acting
<1>7. Complete /\ Together /\ Data
  BY <1>2 DEF Complete, CompleteOf, Together, Data, mates
<1> QED BY <1>1, <1>4, <1>5, <1>6, <1>7 DEF IInv, Cast

LEMMA StutterInv == IInv /\ UNCHANGED vars => IInv'
<1> SUFFICES ASSUME IInv, UNCHANGED vars PROVE IInv'
  OBVIOUS
<1> USE DEF IInv
<1>1. /\ UNCHANGED <<conf, arrived, parts, gind, ind, pc, inst, role, run, s>>
      /\ UNCHANGED <<vars_, par, mem, next_tb, tb0, log>>
  BY DEF vars, thread, data
<1>2. place' = place /\ have_cache' = have_cache /\ have_globals' = have_globals
  BY <1>1 DEF place, have_cache, have_globals
<1>3. Parts' = Parts
  BY <1>2 DEF Parts, SCANSZ
<1>4. TypeOK'
  BY <1>1, <1>3, Zenon DEF TypeOK
<1>5. \A p : /\ casting(p)' <=> casting(p)
             /\ present(p)' = present(p) /\ stamp(p)' = stamp(p)
  BY <1>1, Zenon DEF casting, present, stamp
<1>6. InStep' /\ (Casting' <=> Casting)
  BY <1>5, Zenon DEF InStep, Casting
<1>7. Control'
  BY <1>1, <1>2, <1>5, Zenon DEF Control
<1>8. /\ \A k : sent(k)' = sent(k) /\ (sentIn(k)' <=> sentIn(k))
      /\ shuffleRoles' <=> shuffleRoles
  BY <1>1, SentKept
<1>9. \A p \in Ids : CastOf(p) => CastOf(p)'
  BY <1>1, <1>8, Zenon DEF CastOf
<1>10. Cast'
  BY <1>6, <1>9, Zenon DEF Cast
<1>11. \A p, q : mates(p, q)' <=> mates(p, q)
  BY <1>1, Zenon DEF mates
<1>12. Complete'
  <2>1. \A p \in Ids : CompleteOf(p) => CompleteOf(p)'
    BY <1>1, <1>11, Zenon DEF CompleteOf
  <2> QED BY <1>6, <2>1, Zenon DEF Complete
<1>13. Together'
  <2>1. \A l : inside(l)' = inside(l)
    BY <1>2, Zenon DEF inside
  <2>2. \A p : segment(p)' = segment(p) /\ started(p)' = started(p)
    BY <1>1, <1>5, <2>1, Zenon DEF segment, started, waits
  <2> QED BY <1>6, <1>11, <2>2, Zenon DEF Together
<1>14. Data'
  <2>1. \A p : old(p)' <=> old(p)
    BY <1>5, Zenon DEF old
  <2>2. \A p \in Ids : DataOf(p) => DataOf(p)'
    BY <1>1, <1>2, <1>5, <2>1, Zenon DEF DataOf, mineOf
  <2> QED BY <1>1, <1>6, <2>2, Zenon DEF Data
<1> QED BY <1>4, <1>6, <1>7, <1>10, <1>12, <1>13, <1>14

(* The casting of a run and its performance, by all the threads.           *)
THEOREM PresiInvariant == Spec => []IInv
<1>1. IInv /\ [Next]_vars => IInv'
  <2> SUFFICES ASSUME IInv, [Next]_vars PROVE IInv'
    OBVIOUS
  <2>1. CASE UNCHANGED vars
    BY <2>1, StutterInv
  <2>2. ASSUME NEW p \in Ids, choose(p), UNCHANGED conf PROVE IInv'
    <3>1. CASE SetRole(p)
      BY <3>1, <2>2, SetRoleGlobal, SetRoleShuffle
    <3>2. CASE Choose(p) \/ ReadRole(p) \/ NextRun(p) \/ NextIteration(p)
      BY <3>2, <2>2, ChooseInv, ReadRoleInv, NextRunInv, NextIterationInv
    <3>3. CASE PlaceVars(p) \/ EnterRun(p) \/ InitVars(p) \/ Sync(p)
      BY <3>3, <2>2, PlaceVarsInv, EnterRunInv, InitVarsInv, SyncInv
    <3>4. CASE Code(p) \/ Collect(p) \/ HashAdd(p)
      BY <3>4, <2>2, CodeInv, CollectInv, HashAddInv
    <3> QED BY <2>2, <3>1, <3>2, <3>3, <3>4 DEF choose
  <2> QED BY <2>1, <2>2 DEF Next
<1> QED BY <1>1, InitInv, PTL DEF Spec


-----------------------------------------------------------------------------
(* What follows from the invariant.                                        *)

(* In the casting, a role that is already known is known to one thread.    *)
LEMMA CastOnce ==
  ASSUME IInv, NEW p \in Ids, NEW q \in Ids, casting(p),
         pc[p] = "choose_params", pc[q] = "choose_params",
         role[p] # NoRole, role[q] # NoRole, inst[p] = inst[q], role[p] = role[q]
  PROVE  p = q
<1>1. /\ TypeOK /\ CastOf(p) /\ CastOf(q)
      /\ \A k \in Ids : run[k] < nruns
      /\ \A k, m \in Ids : run[k] = run[m]
  BY CastFacts DEF IInv
<1>2. sentIn(p) /\ sentIn(q)
  BY <1>1 DEF CastOf
<1>3. sent(p) \in Insts \X Roles /\ sent(q) \in Insts \X Roles
  BY <1>1, <1>2, Sent
<1>4. sent(p)[2] \in Roles /\ sent(q)[2] \in Roles
  BY <1>3
<1>5. sent(p)[1] = inst[p] /\ sent(q)[1] = inst[p]
  BY <1>1, <1>2 DEF CastOf
<1>6. ind[inst[p]] \in Perms(Roles)
  BY <1>1 DEF TypeOK
<1>7. sent(p)[2] = sent(q)[2]
  <2>1. CASE shuffleRoles
    <3>1. ind[inst[p]][sent(p)[2]] = ind[inst[p]][sent(q)[2]]
      BY <1>1, <1>2, <2>1 DEF CastOf
    <3> QED BY <3>1, <1>4, <1>6 DEF Perms
  <2>2. CASE ~shuffleRoles
    BY <1>1, <1>2, <2>2 DEF CastOf
  <2> QED BY <2>1, <2>2
<1>8. sent(p) = sent(q)
  BY <1>3, <1>5, <1>7
<1> QED BY <1>1, <1>2, <1>8, Sent

(* In an instance, two threads never play the same role, whatever the      *)
(* topologies and the shuffles of threads and roles that choose and        *)
(* set_role make without locks.                                            *)
THEOREM RolesCastOnce == Spec => []OneThreadPerRole
<1>1. IInv => OneThreadPerRole
  <2> SUFFICES ASSUME IInv, NEW p \in Playing, NEW q \in Playing,
                      inst[p] = inst[q], role[p] = role[q]
               PROVE  p = q
    BY DEF OneThreadPerRole
  <2>1. /\ p \in Ids /\ q \in Ids /\ role[p] # NoRole /\ role[q] # NoRole
        /\ pc[p] \notin {"choose", "set_role", "shuffled"}
        /\ pc[q] \notin {"choose", "set_role", "shuffled"}
    BY DEF Playing
  <2>2. CASE casting(p)
    <3>1. pc[p] = "choose_params" /\ pc[q] = "choose_params"
      BY <2>1, <2>2, CastFacts
    <3> QED BY <2>1, <2>2, <3>1, CastOnce
  <2>3. CASE ~casting(p)
    <3>1. CompleteOf(p)
      BY <2>1, <2>3, Performing DEF IInv, Complete
    <3> QED BY <2>1, <3>1 DEF CompleteOf, mates
  <2> QED BY <2>2, <2>3
<1> QED BY <1>1, PresiInvariant, PTL

Running == {"init", "sync", "code", "collect", "add"}

(* While p runs the test, a thread of its instance either runs it too, in  *)
(* the same iteration, or has just finished that iteration.                *)
LEMMA MateOf ==
  ASSUME IInv, NEW p \in Ids, NEW q \in Ids, mates(p, q),
         pc[p] \in Running, pc[p] = "init" => ~waits(p)
  PROVE  /\ DataOf(q)
         /\ segment(p) = segment(q)
         /\ \/ pc[q] \in Running /\ (pc[q] = "init" => ~waits(q)) /\ stamp(q) = stamp(p)
            \/ pc[q] \in Resting /\ stamp(q) = stamp(p) + 1 /\ old(q) /\ segment(p) = 1
<1> USE DEF IInv
<1>1. ~casting(p)
  <2>1. p \in arrived[gb] => pc[p] \in {"set_role", "choose_params"}
    BY DEF Control
  <2> QED BY <2>1 DEF Running, casting
<1>2. ~Casting /\ \A k \in Ids : ~casting(k)
  BY <1>1, Performing
<1>3. DataOf(q)
  BY <1>2 DEF Data, mates
<1>4. segment(p) = segment(q) /\ started(p) = started(q)
  BY <1>2 DEF Together
<1>5. /\ pc[p] \in Labels /\ pc[q] \in Labels
      /\ inst[p] \in Insts /\ inst[q] \in Insts
  BY DEF TypeOK
<1>6. pc[q] # "shuffled"
  <2>1. q \in arrived[gb] => pc[q] \in {"set_role", "choose_params"}
    BY DEF Control
  <2> QED BY <1>2, <2>1 DEF casting
<1>7. waits(q) => /\ pc[q] \in Acting
                  /\ pc[q] = "sync" => have_cache
                  /\ pc[q] = "add" => have_globals
  BY <1>5, <1>6 DEF Control, waits
<1>8. waits(p) => /\ pc[p] \in Acting
                  /\ pc[p] = "sync" => have_cache
                  /\ pc[p] = "add" => have_globals
  BY <1>5 DEF Control, waits, Running
<1>9. segment(p) \in {1, 4, 5, 6, 7}
  BY <1>8 DEF segment, inside, waiting, Running
<1>10. \/ pc[q] \in Running /\ (pc[q] = "init" => ~waits(q))
       \/ /\ pc[q] \in Resting /\ (pc[q] = "place" => waits(q)) /\ segment(p) = 1
  <2>1. CASE waits(q)
    <3>1. pc[q] \in Acting /\ waiting(pc[q]) \in {1, 4, 5, 6, 7} /\ segment(p) = waiting(pc[q])
      BY <1>4, <1>7, <1>9, <2>1 DEF segment
    <3> QED BY <2>1, <3>1 DEF Acting, waiting, Running, Resting
  <2>2. CASE ~waits(q)
    <3>1. inside(pc[q]) \in {1, 4, 5, 6, 7} /\ segment(p) = inside(pc[q])
      BY <1>4, <1>9, <2>2 DEF segment
    <3> QED BY <1>5, <1>6, <2>2, <3>1 DEF Labels, Acting, inside, Running, Resting
  <2> QED BY <2>1, <2>2
<1>11. stamp(p) \in Nat /\ stamp(q) \in Nat
  BY StampNat
<1>12. started(p) = stamp(p) + 1
  BY DEF started, Running, Acting
<1>13. CASE pc[q] \in Running /\ (pc[q] = "init" => ~waits(q))
  <2>1. started(q) = stamp(q) + 1
    BY <1>13 DEF started, Running, Acting
  <2>2. stamp(q) = stamp(p)
    <3>1. \A x, y \in Nat : x + 1 = y + 1 => x = y
      OBVIOUS
    <3>2. stamp(q) + 1 = stamp(p) + 1
      BY <1>4, <1>12, <2>1
    <3> QED BY <1>11, <3>1, <3>2
  <2> QED BY <1>3, <1>4, <1>13, <2>2, Zenon
<1>14. CASE pc[q] \in Resting /\ (pc[q] = "place" => waits(q)) /\ segment(p) = 1
  <2>1. started(q) = stamp(q)
    BY <1>14 DEF started, Resting, Acting
  <2>2. stamp(q) = stamp(p) + 1
    BY <1>4, <1>11, <1>12, <2>1
  <2>3. present(q) = run[p]
    BY <1>1 DEF InStep, present, Running
  <2>4. run[p] \in Nat /\ s[p] \in Nat /\ size \in Nat
    BY SizesAssumption DEF TypeOK
  <2>5. \A x, y, z \in Nat : (x * y + z) + 1 > x * y
    OBVIOUS
  <2>6. old(q)
    BY <2>2, <2>3, <2>4, <2>5 DEF old, stamp
  <2> QED BY <1>3, <1>4, <1>14, <2>2, <2>6
<1> QED BY <1>10, <1>13, <1>14

(* Role r of the instance of p has a thread.                               *)
LEMMA PlayerOf ==
  ASSUME IInv, NEW p \in Ids, pc[p] \in Running, NEW r \in Roles
  PROVE  \E q \in Ids : mates(p, q) /\ role[q] = r
<1> USE DEF IInv
<1>1. ~casting(p)
  <2>1. p \in arrived[gb] => pc[p] \in {"set_role", "choose_params"}
    BY DEF Control
  <2> QED BY <2>1 DEF Running, casting
<1>2. CompleteOf(p)
  BY <1>1, Performing DEF Complete
<1>3. role[p] # NoRole
  BY DEF Control, Running, Acting
<1> QED BY <1>2, <1>3 DEF CompleteOf

LEMMA AtWaits == ASSUME IInv, NEW p \in Ids, NEW l, At(p, l) PROVE pc[p] = l /\ ~waits(p)
BY InstOf DEF IInv, At, waits

(* A thread of a presi test uses the variables and the parameters of its   *)
(* instance only as they were made for the iteration it is in: the         *)
(* barriers of do_run suffice, for any number of roles and iterations,     *)
(* with and without cache instructions and final values of variables.      *)
THEOREM VariablesFresh == Spec => []FreshVariables
<1>1. IInv => FreshVariables
  <2> SUFFICES ASSUME IInv, NEW p \in Ids, NEW r \in Roles
               PROVE  /\ \/ At(p, "init")
                         \/ pc[p] \in {"sync", "code", "collect"}
                         \/ At(p, "add") /\ role[p] = 0
                         => vars_[inst[p]][r] = stamp(p) /\ par[inst[p]][r] = stamp(p)
                      /\ At(p, "code") \/ (have_cache /\ At(p, "sync")) => mem[inst[p]][r] = stamp(p)
    BY DEF FreshVariables
  <2>1. ASSUME pc[p] \in Running, pc[p] = "init" => ~waits(p)
        PROVE  vars_[inst[p]][r] = stamp(p) /\ par[inst[p]][r] = stamp(p)
    <3>1. PICK q \in Ids : mates(p, q) /\ role[q] = r
      BY <2>1, PlayerOf
    <3>2. /\ DataOf(q)
          /\ \/ pc[q] \in Running /\ stamp(q) = stamp(p)
             \/ pc[q] \in Resting /\ stamp(q) = stamp(p) + 1 /\ old(q)
      BY <2>1, <3>1, MateOf
    <3>3. mineOf(vars_, q) = vars_[inst[p]][r] /\ mineOf(par, q) = par[inst[p]][r]
      BY <3>1 DEF mineOf, mates
    <3>4. CASE pc[q] \in Running /\ stamp(q) = stamp(p)
      BY <3>2, <3>3, <3>4 DEF DataOf, Running, Acting
    <3>5. CASE pc[q] \in Resting /\ stamp(q) = stamp(p) + 1 /\ old(q)
      <4>1. mineOf(vars_, q) = stamp(q) - 1 /\ mineOf(par, q) = stamp(q) - 1
        BY <3>2, <3>5 DEF DataOf
      <4>2. stamp(p) \in Nat
        BY StampNat DEF IInv
      <4> QED BY <3>3, <3>5, <4>1, <4>2
    <3> QED BY <3>2, <3>4, <3>5
  <2>2. ASSUME At(p, "code") \/ (have_cache /\ At(p, "sync"))
        PROVE  mem[inst[p]][r] = stamp(p)
    <3>1. pc[p] \in {"sync", "code"} /\ ~waits(p)
      BY <2>2, AtWaits
    <3>2. pc[p] \in Running /\ pc[p] # "init"
      BY <3>1 DEF Running
    <3>3. segment(p) \in {5, 6}
      BY <3>1 DEF segment, inside
    <3>4. PICK q \in Ids : mates(p, q) /\ role[q] = r
      BY <3>2, PlayerOf
    <3>5. /\ DataOf(q) /\ segment(q) = segment(p) /\ stamp(q) = stamp(p)
          /\ pc[q] \in Running /\ (pc[q] = "init" => ~waits(q))
      BY <3>2, <3>3, <3>4, MateOf
    <3>6. pc[q] # "init"
      <4>1. pc[p] = "sync" => have_cache
        BY <2>2, AtWaits
      <4>2. pc[q] = "init" => segment(q) = IF have_cache THEN 4 ELSE 5
        BY <3>5 DEF segment, inside
      <4>3. pc[p] = "code" => segment(p) = 6
        BY <3>1 DEF segment, inside
      <4>4. CASE have_cache
        BY <3>3, <3>5, <4>2, <4>4
      <4>5. CASE ~have_cache
        BY <3>1, <3>5, <4>1, <4>2, <4>3, <4>5
      <4> QED BY <4>4, <4>5
    <3>7. mineOf(mem, q) = mem[inst[p]][r]
      BY <3>4 DEF mineOf, mates
    <3> QED BY <3>5, <3>6, <3>7 DEF DataOf, Running
  <2>3. At(p, "init") => pc[p] \in Running /\ ~waits(p)
    BY AtWaits DEF Running
  <2>4. pc[p] \in {"sync", "code", "collect"} \/ At(p, "add") => pc[p] \in Running /\ pc[p] # "init"
    BY AtWaits DEF Running
  <2> QED BY <2>1, <2>2, <2>3, <2>4
<1> QED BY <1>1, PresiInvariant, PTL

(* The threads of an instance start from the same time base, though each   *)
(* of them has written it and the last one to write wins.                  *)
THEOREM TimeBaseShared == Spec => []SameTimeBase
<1>1. IInv => SameTimeBase
  <2> SUFFICES ASSUME IInv, NEW p \in Playing, NEW q \in Playing,
                      pc[p] \in {"collect", "add"}, pc[q] \in {"collect", "add"}, inst[p] = inst[q]
               PROVE  tb0[p] = tb0[q]
    BY DEF SameTimeBase
  <2>1. p \in Ids /\ q \in Ids /\ role[p] # NoRole /\ role[q] # NoRole
    BY DEF Playing
  <2>2. ~casting(p)
    <3>1. p \in arrived[gb] => pc[p] \in {"set_role", "choose_params"}
      BY <2>1 DEF IInv, Control
    <3> QED BY <3>1 DEF casting
  <2>3. DataOf(p) /\ DataOf(q)
    BY <2>1, <2>2, Performing DEF IInv, Data
  <2> QED BY <2>3 DEF DataOf
<1> QED BY <1>1, PresiInvariant, PTL

(* An outcome that role 0 adds to the table of its instance has a part of  *)
(* every role, all of them of the iteration that role 0 is in.             *)
THEOREM OneIterationLogged == Spec => []OutcomeOfOneIteration
<1>1. IInv => OutcomeOfOneIteration
  <2> SUFFICES ASSUME IInv, NEW p \in Ids, At(p, "add"), NEW r \in Roles
               PROVE  /\ log[inst[p]][r][1] = stamp(p)
                      /\ have_globals => log[inst[p]][r][2] = stamp(p)
    BY DEF OutcomeOfOneIteration
  <2>1. pc[p] = "add" /\ ~waits(p)
    BY AtWaits
  <2>2. pc[p] \in Running /\ pc[p] # "init" /\ segment(p) = 1
    BY <2>1 DEF Running, segment, inside
  <2>3. PICK q \in Ids : mates(p, q) /\ role[q] = r
    BY <2>2, PlayerOf
  <2>4. /\ DataOf(q) /\ segment(q) = 1
        /\ \/ pc[q] \in Running /\ (pc[q] = "init" => ~waits(q)) /\ stamp(q) = stamp(p)
           \/ pc[q] \in Resting /\ stamp(q) = stamp(p) + 1 /\ old(q)
    BY <2>2, <2>3, MateOf
  <2>5. mineOf(log, q) = log[inst[p]][r]
    BY <2>3 DEF mineOf, mates
  <2>6. CASE pc[q] \in Running /\ (pc[q] = "init" => ~waits(q)) /\ stamp(q) = stamp(p)
    <3>1. pc[q] = "add" \/ (pc[q] = "collect" /\ ~have_globals)
      BY <2>4, <2>6 DEF Running, segment, inside, waiting
    <3> QED BY <2>4, <2>5, <2>6, <3>1 DEF DataOf
  <2>7. CASE pc[q] \in Resting /\ stamp(q) = stamp(p) + 1 /\ old(q)
    <3>1. /\ mineOf(log, q)[1] = stamp(q) - 1
          /\ have_globals => mineOf(log, q)[2] = stamp(q) - 1
      BY <2>4, <2>7 DEF DataOf
    <3>2. stamp(p) \in Nat
      BY StampNat DEF IInv
    <3> QED BY <2>5, <2>7, <3>1, <3>2
  <2> QED BY <2>4, <2>6, <2>7
<1> QED BY <1>1, PresiInvariant, PTL

=============================================================================
