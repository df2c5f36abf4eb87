------------------------------- MODULE Presi -------------------------------
(***************************************************************************)
(* The run of a "presi" test: AVAIL threads, one per processor, are cast   *)
(* again for each run as the roles of NExe instances of the test, and each *)
(* instance iterates the test Size times.  set_role is in                  *)
(* litmus/libdir/_instance.c, choose, choose_params and do_run are emitted *)
(* by litmus/preSi.ml.                                                     *)
(*                                                                         *)
(* Everything is shared without locks: the permutation of the threads, the *)
(* permutation of the roles of an instance, its parameters, its variables, *)
(* the time base it starts from and the outcome it logs.  Only the sense   *)
(* barriers order the accesses: gb, of all the threads, and the barrier b  *)
(* of each instance.                                                       *)
(*                                                                         *)
(* A barrier is modelled by what SenseBarrier shows of it: arrived[x] are  *)
(* the threads that wait in x; the last one to arrive lets them all go.    *)
(* An action is what a thread does between two barriers.  The data is      *)
(* stamped with the iteration that wrote it.                               *)
(***************************************************************************)
EXTENDS Integers, FiniteSets

CONSTANTS AVAIL,    \* number of threads
          N,        \* number of roles, the threads of the test
          NEXE,     \* number of instances the arrays are made for
          nexe,     \* number of instances that run, g->nexe
          nruns, size,
          fix,      \* g->fix: no shuffling
          Tests     \* the test and its target, see conf

VARIABLE conf       \* what the code of the test is emitted with

(* The arrays inst and role of each topology (one only without topology     *)
(* information), cache instructions of the target (cache.c), and final     *)
(* values of variables in the outcome.                                     *)
place == conf.place    \* [part -> [processor -> <<inst, role>>]]
have_cache == conf.have_cache
have_globals == conf.have_globals
SCANSZ == Cardinality(DOMAIN place)

ASSUME SizesAssumption ==
  /\ N \in Nat \ {0} /\ NEXE \in Nat \ {0} /\ nexe \in 1..NEXE
  /\ AVAIL \in Nat /\ AVAIL >= N * NEXE
  /\ nruns \in Nat /\ size \in Nat /\ fix \in BOOLEAN

Ids == 0..(AVAIL-1)
Roles == 0..(N-1)
Insts == 0..(NEXE-1)
Parts == 0..(SCANSZ-1)
NoRole == -1

(* Role r of instance e has a processor in topology t.                     *)
Placed(t, e, r) == \E x \in Ids : place[t][x] = <<e, r>>

(* See alloc_instances and mk_t in litmus/topology.ml: a processor has at  *)
(* most one role, and an instance for which the allocation fails has no    *)
(* processor at all.                                                       *)
ASSUME TestsAssumption == \A g \in Tests :
  LET Topos == 0..(Cardinality(DOMAIN g.place) - 1)
      RolesOf(t, e) == {r \in Roles : \E x \in Ids : g.place[t][x] = <<e, r>>}
  IN  /\ g.have_cache \in BOOLEAN /\ g.have_globals \in BOOLEAN
      /\ g.place \in [Topos -> [Ids -> (Insts \X Roles) \cup {<<NoRole, NoRole>>}]]
      /\ \A t \in Topos : \A x, y \in Ids :
           g.place[t][x] = g.place[t][y] => x = y \/ g.place[t][x][1] = NoRole
      /\ \A t \in Topos : \A e \in Insts : RolesOf(t, e) \in {{}, Roles}

VARIABLES arrived,          \* threads that wait, for gb and each instance
          parts,            \* the sequence of topologies, see choose
          gind, ind,        \* g->ind and, for each instance, ctx->ind
          pc, inst, role,   \* control, instance and role of each thread
          run, s,           \* loop indices of each thread
          vars_, par, mem,  \* per instance and role: placement of variables, other
                            \* parameters, and values of variables
          next_tb, tb0,     \* the time base, shared and as read by each thread
          log,              \* per instance and role: its part of the outcome
          logged            \* per instance: outcomes added to the table

thread == <<pc, inst, role, run, s>>
data == <<vars_, par, mem, next_tb, tb0, log, logged>>
vars == <<conf, arrived, parts, gind, ind, thread, data>>

Perms(S) == {f \in [S -> S] : \A x, y \in S : f[x] = f[y] => x = y}

(* The iteration a thread is in.                                           *)
stamp(p) == run[p] * size + s[p]
Never == -1

gb == -1
Barriers == {gb} \cup Insts

Init == /\ conf \in Tests
        /\ arrived = [x \in Barriers |-> {}]
        /\ parts \in [0..(nruns-1) -> Parts]
        /\ gind = [x \in Ids |-> x]
        /\ ind = [e \in Insts |-> [r \in Roles |-> r]]
        /\ pc = [p \in Ids |-> "choose"]
        /\ inst = [p \in Ids |-> 0]
        /\ role = [p \in Ids |-> NoRole]
        /\ run = [p \in Ids |-> 0]
        /\ s = [p \in Ids |-> 0]
        /\ vars_ = [e \in Insts |-> [r \in Roles |-> Never]]
        /\ par = [e \in Insts |-> [r \in Roles |-> Never]]
        /\ mem = [e \in Insts |-> [r \in Roles |-> Never]]
        /\ next_tb = [e \in Insts |-> <<Never, NoRole>>]
        /\ tb0 = [p \in Ids |-> <<Never, NoRole>>]
        /\ log = [e \in Insts |-> [r \in Roles |-> <<Never, Never>>]]
        /\ logged = [e \in Insts |-> 0]

(* barrier_wait(x) by p: wait, or let everyone go.                         *)
barrier_wait(x, p) ==
  LET a == arrived[x] \cup {p}
      n == IF x = gb THEN AVAIL ELSE N
  IN  arrived' = [arrived EXCEPT ![x] = IF Cardinality(a) = n THEN {} ELSE a]

(* p is at l and waits in no barrier.                                      *)
At(p, l) == pc[p] = l /\ \A x \in Barriers : p \notin arrived[x]

goto(p, l) == pc' = [pc EXCEPT ![p] = l]

-----------------------------------------------------------------------------
(* choose and set_role.                                                    *)

shuffleRoles == SCANSZ > 1 /\ ~fix

\* set_role does not wait for the shuffle of the threads
Choose_NoBarrier(p) ==
  /\ At(p, "choose")
  /\ run[p] < nruns
  /\ IF SCANSZ <= 1 /\ ~fix /\ p = 0
     THEN \E f \in Perms(Ids) : gind' = [x \in Ids |-> gind[f[x]]]
     ELSE UNCHANGED gind
  /\ goto(p, "set_role")
  /\ UNCHANGED <<arrived, parts, ind, inst, role, run, s, data>>

(* Start of a run: thread 0 shuffles all threads in absence of topology.   *)
Choose(p) == /\ At(p, "choose")
             /\ run[p] < nruns
             /\ IF SCANSZ <= 1 /\ ~fix /\ p = 0
                THEN \E f \in Perms(Ids) : gind' = [x \in Ids |-> gind[f[x]]]
                ELSE UNCHANGED gind
             /\ barrier_wait(gb, p)
             /\ goto(p, "set_role")
             /\ UNCHANGED <<parts, ind, inst, role, run, s, data>>

(* All the threads draw from the same seed, hence draw the same topology.  *)
part(p) == parts[run[p]]

(* The processor gind[p] tells the instance and the role.  If there are    *)
(* several topologies, role 0 shuffles the roles of its instance.          *)
SetRole(p) ==
  LET e == place[part(p)][gind[p]][1]
      r == place[part(p)][gind[p]][2]
  IN  /\ At(p, "set_role")
      /\ IF 0 <= e /\ e < nexe
         THEN /\ inst' = [inst EXCEPT ![p] = e]
              /\ role' = [role EXCEPT ![p] = r]
              /\ IF shuffleRoles
                 THEN /\ IF r = 0
                         THEN \E f \in Perms(Roles) :
                                ind' = [ind EXCEPT ![e] = [x \in Roles |-> ind[e][f[x]]]]
                         ELSE UNCHANGED ind
                      /\ barrier_wait(e, p)
                      /\ goto(p, "shuffled")
                 ELSE /\ barrier_wait(gb, p)
                      /\ goto(p, "choose_params")
                      /\ UNCHANGED ind
         ELSE /\ role' = [role EXCEPT ![p] = NoRole]
              /\ barrier_wait(gb, p)
              /\ goto(p, "choose_params")
              /\ UNCHANGED <<inst, ind>>
      /\ UNCHANGED <<parts, gind, run, s, data>>

(* The shuffled role.                                                      *)
ReadRole(p) == /\ At(p, "shuffled")
               /\ role' = [role EXCEPT ![p] = ind[inst[p]][role[p]]]
               /\ barrier_wait(gb, p)
               /\ goto(p, "choose_params")
               /\ UNCHANGED <<parts, gind, ind, inst, run, s, data>>

-----------------------------------------------------------------------------
(* choose_params and do_run.                                               *)

mine(f, p, v) == [f EXCEPT ![inst[p]][role[p]] = v]

(* End of a run.                                                           *)
NextRun(p) == /\ At(p, "choose_params")
              /\ role[p] = NoRole \/ s[p] = size
              /\ run' = [run EXCEPT ![p] = @ + 1]
              /\ s' = [s EXCEPT ![p] = 0]
              /\ goto(p, "choose")
              /\ UNCHANGED <<arrived, parts, gind, ind, inst, role, data>>

\* no barrier separates the iterations
NextIteration_NoBarrier(p) == /\ At(p, "choose_params")
                              /\ role[p] # NoRole
                              /\ s[p] < size
                              /\ goto(p, "place")
                              /\ UNCHANGED <<arrived, parts, gind, ind, inst, role, run, s, data>>

(* The barrier at the top of each iteration.                               *)
NextIteration(p) == /\ At(p, "choose_params")
                    /\ role[p] # NoRole
                    /\ s[p] < size
                    /\ barrier_wait(inst[p], p)
                    /\ goto(p, "place")
                    /\ UNCHANGED <<parts, gind, ind, inst, role, run, s, data>>

(* Each role places the variables that it owns.                            *)
PlaceVars(p) == /\ At(p, "place")
                /\ vars_' = mine(vars_, p, stamp(p))
                /\ barrier_wait(inst[p], p)
                /\ goto(p, "do_run")
                /\ UNCHANGED <<parts, gind, ind, inst, role, run, s,
                               par, mem, next_tb, tb0, log, logged>>

(* It chooses its other parameters and enters do_run.                      *)
EnterRun(p) == /\ At(p, "do_run")
               /\ par' = mine(par, p, stamp(p))
               /\ barrier_wait(inst[p], p)
               /\ goto(p, "init")
               /\ UNCHANGED <<parts, gind, ind, inst, role, run, s,
                              vars_, mem, next_tb, tb0, log, logged>>

(* It initialises its variables; the others touch or flush them, as the    *)
(* parameters say, once they are initialised.                              *)
InitVars(p) == /\ At(p, "init")
               /\ mem' = mine(mem, p, stamp(p))
               /\ IF have_cache THEN barrier_wait(inst[p], p) ELSE UNCHANGED arrived
               /\ goto(p, "sync")
               /\ UNCHANGED <<parts, gind, ind, inst, role, run, s,
                              vars_, par, next_tb, tb0, log, logged>>

\* the threads start without waiting for the others
Sync_NoBarrier(p) ==
  /\ At(p, "sync")
  /\ next_tb' = [next_tb EXCEPT ![inst[p]] = <<stamp(p), role[p]>>]
  /\ goto(p, "code")
  /\ UNCHANGED <<arrived, parts, gind, ind, inst, role, run, s,
                 vars_, par, mem, tb0, log, logged>>

(* Each thread writes the time base to start from, the last one wins.      *)
Sync(p) == /\ At(p, "sync")
           /\ next_tb' = [next_tb EXCEPT ![inst[p]] = <<stamp(p), role[p]>>]
           /\ barrier_wait(inst[p], p)
           /\ goto(p, "code")
           /\ UNCHANGED <<parts, gind, ind, inst, role, run, s,
                          vars_, par, mem, tb0, log, logged>>

(* It reads the time base, waits for its delay and runs the code of its    *)
(* role, whose registers go to the log.                                    *)
Code(p) == /\ At(p, "code")
           /\ tb0' = [tb0 EXCEPT ![p] = next_tb[inst[p]]]
           /\ log' = mine(log, p, <<stamp(p), Never>>)
           /\ barrier_wait(inst[p], p)
           /\ goto(p, "collect")
           /\ UNCHANGED <<parts, gind, ind, inst, role, run, s,
                          vars_, par, mem, next_tb, logged>>

\* role 0 does not wait for the others to collect
Collect_NoBarrier(p) ==
  /\ At(p, "collect")
  /\ log' = IF have_globals THEN mine(log, p, <<stamp(p), stamp(p)>>) ELSE log
  /\ goto(p, "add")
  /\ UNCHANGED <<arrived, parts, gind, ind, inst, role, run, s,
                 vars_, par, mem, next_tb, tb0, logged>>

(* It adds the final values of its variables to the log, if they show in   *)
(* the outcome.                                                            *)
Collect(p) == /\ At(p, "collect")
              /\ IF have_globals
                 THEN /\ log' = mine(log, p, <<stamp(p), stamp(p)>>)
                      /\ barrier_wait(inst[p], p)
                 ELSE UNCHANGED <<log, arrived>>
              /\ goto(p, "add")
              /\ UNCHANGED <<parts, gind, ind, inst, role, run, s,
                             vars_, par, mem, next_tb, tb0, logged>>

\* every role adds the outcome
HashAdd_All(p) ==
  /\ At(p, "add")
  /\ logged' = [logged EXCEPT ![inst[p]] = @ + 1]
  /\ s' = [s EXCEPT ![p] = @ + 1]
  /\ goto(p, "choose_params")
  /\ UNCHANGED <<arrived, parts, gind, ind, inst, role, run,
                 vars_, par, mem, next_tb, tb0, log>>

(* Role 0 adds the outcome to the table of the instance.                   *)
HashAdd(p) == /\ At(p, "add")
              /\ logged' = IF role[p] = 0
                           THEN [logged EXCEPT ![inst[p]] = @ + 1] ELSE logged
              /\ s' = [s EXCEPT ![p] = @ + 1]
              /\ goto(p, "choose_params")
              /\ UNCHANGED <<arrived, parts, gind, ind, inst, role, run,
                             vars_, par, mem, next_tb, tb0, log>>

(* All the threads have been joined.                                       *)
Finished == \A p \in Ids : At(p, "choose") /\ run[p] = nruns

choose(p) == \/ Choose(p) \/ SetRole(p) \/ ReadRole(p)
             \/ NextRun(p) \/ NextIteration(p) \/ PlaceVars(p) \/ EnterRun(p)
             \/ InitVars(p) \/ Sync(p) \/ Code(p) \/ Collect(p) \/ HashAdd(p)

Next == \/ \E p \in Ids : choose(p) /\ UNCHANGED conf
        \/ Finished /\ UNCHANGED vars

Spec == Init /\ [][Next]_vars

(* Every thread has its own processor.                                     *)
FairSpec == Spec /\ \A p \in Ids : WF_vars(choose(p) /\ UNCHANGED conf)

-----------------------------------------------------------------------------

(* Threads that have a role in the present run.                             *)
Playing == {p \in Ids : /\ pc[p] \notin {"choose", "set_role", "shuffled"}
                        /\ role[p] # NoRole}

(* Two threads never play the same role of the same instance.              *)
OneThreadPerRole == \A p, q \in Playing :
  inst[p] = inst[q] /\ role[p] = role[q] => p = q

(* From its first store until it has collected the outcome, a thread finds *)
(* all the variables of its instance placed, and all the parameters drawn, *)
(* for the iteration it is in; so does role 0 while it adds the outcome,   *)
(* where idx_addr turns pointers into names of variables.  A thread runs   *)
(* its code once all the variables are initialised for that iteration.     *)
FreshVariables == \A p \in Ids : \A r \in Roles :
  /\ \/ At(p, "init")
     \/ pc[p] \in {"sync", "code", "collect"}
     \/ At(p, "add") /\ role[p] = 0
     => vars_[inst[p]][r] = stamp(p) /\ par[inst[p]][r] = stamp(p)
  /\ At(p, "code") \/ (have_cache /\ At(p, "sync")) => mem[inst[p]][r] = stamp(p)

(* The threads of an instance wait for their delays from the same origin.  *)
SameTimeBase == \A p, q \in Playing :
  /\ pc[p] \in {"collect", "add"} /\ pc[q] \in {"collect", "add"}
  /\ inst[p] = inst[q]
  => tb0[p] = tb0[q]

(* An outcome that is added to the table comes from one iteration, the     *)
(* present one: no part of it is old, and no fast thread has overwritten   *)
(* its part yet.                                                           *)
OutcomeOfOneIteration == \A p \in Ids : At(p, "add") /\ role[p] = 0 =>
  \A r \in Roles : /\ log[inst[p]][r][1] = stamp(p)
                   /\ have_globals => log[inst[p]][r][2] = stamp(p)

(* The program ends, and each instance that runs has added one outcome for *)
(* each iteration of the runs whose topology places it.                    *)
AllOutcomesLogged == <>(
  /\ Finished
  /\ \A e \in 0..(nexe-1) :
       logged[e] = size * Cardinality({n \in 0..(nruns-1) : Placed(parts[n], e, 0)}))

=============================================================================
