----------------------------- MODULE Stabilize -----------------------------
(***************************************************************************)
(* check_globals and stabilize_globals of a generated test (litmus/skel.ml)*)
(* with the or-flag po_t that they use (litmus/libdir/_utils.c).           *)
(*                                                                         *)
(* In safer mode, each thread of a test                                    *)
(*   - checks that the globals have their initial values, pb_wait's,       *)
(*   - runs the test,                                                      *)
(*   - pb_wait's again, and then repeats: copy the globals as it sees      *)
(*     them, po_reinit, compare its copy with its neighbour's, po_wait,    *)
(*     until no thread has found a difference.                             *)
(* The final state is collected only then, because a processor may know of *)
(* the stores of another one late.                                         *)
(*                                                                         *)
(* The memory is external.  The stores of the test to the global that is   *)
(* looked at are numbered in coherence order.  A processor knows its own   *)
(* stores, learns of the others one by one, in any order, and sees the     *)
(* value of the last one in coherence order that it knows.                 *)
(*                                                                         *)
(* A thread that sleeps in po_reinit or po_wait leaves when it finds turn  *)
(* changed; the loop on pc_wait is the one of pb_wait, see PthreadBarrier. *)
(***************************************************************************)
EXTENDS Integers, FiniteSets

CONSTANTS N,        \* number of threads of the test
          Writes,   \* number of stores of the test to the global
          Values,   \* values of the global
          Initial   \* its initial value

ASSUME NAssumption == N \in Nat \ {0}
ASSUME WritesAssumption == Writes \in Nat
ASSUME InitialAssumption == Initial \in Values

VARIABLES writer, value,          \* who makes each store, and its value
          known,                  \* stores that each thread knows of
          fstRound, fstInside,    \* fst_barrier, a pb_t
          count, turn, val,       \* s_or, a po_t
          pc, t,                  \* control of each thread, local copy of turn
          cpy, found              \* what each thread saw, and concluded

mem == <<writer, value>>
fst == <<fstRound, fstInside>>
s_or == <<count, turn, val>>
vars == <<mem, known, fst, s_or, pc, t, cpy, found>>

Threads == 0..(N-1)
Stores == 1..Writes

fst_barrier == INSTANCE Barrier
  WITH Procs <- Threads, Rounds <- 2, round <- fstRound, inside <- fstInside

(* The last store in coherence order among S, 0 if there is none, and the  *)
(* value it leaves.                                                        *)
last(S) == IF S = {} THEN 0 ELSE CHOOSE w \in S : \A x \in S : x <= w
valueOf(S) == IF S = {} THEN Initial ELSE value[last(S)]

(* The stores that have been made.                                         *)
Made == UNION {known[p] : p \in Threads}

(* What p sees, and what everyone sees in the end.                         *)
Sees(p) == valueOf(known[p])
FinalValue == valueOf(Stores)

po_create == /\ count = N
             /\ turn = 0
             /\ val = FALSE

Init == /\ writer \in [Stores -> Threads]
        /\ value \in [Stores -> Values]
        /\ known = [p \in Threads |-> {}]
        /\ fst_barrier!Init
        /\ po_create
        /\ pc = [p \in Threads |-> "check"]
        /\ t = [p \in Threads |-> 0]
        /\ cpy = [p \in Threads |-> Initial]
        /\ found = [p \in Threads |-> FALSE]

goto(p, l) == pc' = [pc EXCEPT ![p] = l]

(* A store becomes visible to p.                                           *)
Propagate(p) == /\ \E w \in Made \ known[p] :
                      known' = [known EXCEPT ![p] = @ \cup {w}]
                /\ UNCHANGED <<mem, fst, s_or, pc, t, cpy, found>>

-----------------------------------------------------------------------------

\* the check is not followed by a barrier
check_globals_NoBarrier(p) ==
  /\ pc[p] = "check"
  /\ goto(p, "test")
  /\ fstRound' = [fstRound EXCEPT ![p] = 1]
  /\ UNCHANGED <<mem, known, fstInside, s_or, t, cpy, found>>

(* check_globals: look at the globals and call pb_wait(fst_barrier).  What *)
(* is seen is the subject of ChecksPass below.                             *)
check_globals(p) == /\ pc[p] = "check"
                    /\ fst_barrier!Arrive(p)
                    /\ goto(p, "sync1")
                    /\ UNCHANGED <<mem, known, s_or, t, cpy, found>>

(* The test itself, and the call of pb_wait(fst_barrier) that starts       *)
(* stabilize_globals.                                                      *)
RunTest(p) == /\ pc[p] = "test"
              /\ known' = [known EXCEPT ![p] = @ \cup {w \in Stores : writer[w] = p}]
              /\ fst_barrier!Arrive(p)
              /\ goto(p, "sync2")
              /\ UNCHANGED <<mem, s_or, t, cpy, found>>

(* pb_wait(fst_barrier) returns.                                           *)
LeaveFst(p) == /\ pc[p] \in {"sync1", "sync2"}
               /\ fst_barrier!Leave(p)
               /\ goto(p, IF pc[p] = "sync1" THEN "test" ELSE "copy")
               /\ UNCHANGED <<mem, known, s_or, t, cpy, found>>

(* cpy_x[_id][_i] = x                                                      *)
Copy(p) == /\ pc[p] = "copy"
           /\ cpy' = [cpy EXCEPT ![p] = Sees(p)]
           /\ goto(p, "reinit")
           /\ UNCHANGED <<mem, known, fst, s_or, t, found>>

-----------------------------------------------------------------------------

(* The part that po_reinit and po_wait share: count down, and either sleep *)
(* at l or, for the last one, start a new turn and go on at next.          *)
CountDown(p, l, next) ==
  /\ t' = [t EXCEPT ![p] = turn]
  /\ \/ /\ count # 1
        /\ count' = count - 1
        /\ turn' = turn
        /\ goto(p, l)
     \/ /\ count = 1
        /\ count' = N
        /\ turn' = 1 - turn
        /\ goto(p, next)

\* the flag is cleared by whoever comes, not by the last one
po_reinit_Early(p) == /\ pc[p] = "reinit"
                      /\ CountDown(p, "reinit_sleep", "compare")
                      /\ val' = FALSE
                      /\ UNCHANGED <<mem, known, fst, cpy, found>>

\* the flag is not cleared
po_reinit_NoClear(p) == /\ pc[p] = "reinit"
                        /\ CountDown(p, "reinit_sleep", "compare")
                        /\ UNCHANGED <<mem, known, fst, val, cpy, found>>

(* po_reinit: the last one clears the flag.                                *)
po_reinit(p) == /\ pc[p] = "reinit"
                /\ CountDown(p, "reinit_sleep", "compare")
                /\ val' = IF count = 1 THEN FALSE ELSE val
                /\ UNCHANGED <<mem, known, fst, cpy, found>>

WakeReinit(p) == /\ pc[p] = "reinit_sleep"
                 /\ turn # t[p]
                 /\ goto(p, "compare")
                 /\ UNCHANGED <<mem, known, fst, s_or, t, cpy, found>>

(* if (cpy_x[_id][_i] != cpy_x[_nxt_id][_i]) { _found = 1; }               *)
Compare(p) == /\ pc[p] = "compare"
              /\ found' = [found EXCEPT ![p] = cpy[p] # cpy[(p + 1) % N]]
              /\ goto(p, "wait")
              /\ UNCHANGED <<mem, known, fst, s_or, t, cpy>>

(* if (!po_wait(_a->s_or,_found)) return, when po_wait returns r.          *)
decision(r) == IF r THEN "copy" ELSE "returned"

\* the last argument wins
po_wait_NoOr(p) == /\ pc[p] = "wait"
                   /\ val' = found[p]
                   /\ CountDown(p, "wait_sleep", decision(val'))
                   /\ UNCHANGED <<mem, known, fst, cpy, found>>

po_wait(p) == /\ pc[p] = "wait"
              /\ val' = (val \/ found[p])
              /\ CountDown(p, "wait_sleep", decision(val'))
              /\ UNCHANGED <<mem, known, fst, cpy, found>>

WakeWait(p) == /\ pc[p] = "wait_sleep"
               /\ turn # t[p]
               /\ goto(p, decision(val))
               /\ UNCHANGED <<mem, known, fst, s_or, t, cpy, found>>

Thread(p) == \/ check_globals(p) \/ RunTest(p) \/ LeaveFst(p)
             \/ Copy(p) \/ po_reinit(p) \/ WakeReinit(p)
             \/ Compare(p) \/ po_wait(p) \/ WakeWait(p)

Next == \E p \in Threads : Thread(p) \/ Propagate(p)

Spec == Init /\ [][Next]_vars

(* Threads keep running, and every store reaches every processor.          *)
FairSpec == /\ Spec
            /\ \A p \in Threads : WF_vars(Thread(p)) /\ WF_vars(Propagate(p))

-----------------------------------------------------------------------------

(* check_globals does not fail: a thread that looks at the globals sees    *)
(* their initial values, however fast the others are.                      *)
ChecksPass == \A p \in Threads : pc[p] = "check" => known[p] = {}

(* po_wait returns 'the "or" of the v arguments of all participants', also *)
(* to a thread that is slow to wake up.                                    *)
OrOfAll == \A p \in Threads :
  pc[p] = "wait_sleep" /\ turn # t[p] => val = \E q \in Threads : found[q]

(* A thread leaves stabilize_globals only when all have seen the value     *)
(* that the location will keep, although stores may still be on their way. *)
StableIsFinal == (\E p \in Threads : pc[p] = "returned") =>
                   \A q \in Threads : cpy[q] = FinalValue

(* All threads leave stabilize_globals: they take the same decision, and   *)
(* the comparison succeeds in the end.                                     *)
AllReturn == <>(\A p \in Threads : pc[p] = "returned")

=============================================================================
