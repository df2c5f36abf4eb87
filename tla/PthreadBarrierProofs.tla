------------------------ MODULE PthreadBarrierProofs ------------------------
(***************************************************************************)
(* For any finite set of threads, any number of calls and any spurious     *)
(* wake ups, pb_wait keeps its inductive invariant and implements the      *)
(* abstract barrier.                                                       *)
(***************************************************************************)
EXTENDS PthreadBarrier, FiniteSetTheorems, TLAPS

(* The number of participants is a positive natural number.                *)
LEMMA NumberOfProcs == nprocs \in Nat /\ nprocs > 0
  BY ProcsAssumption, FS_CardinalityType, FS_EmptySet DEF nprocs

(* At most nprocs threads wait, and if that many do, all do.               *)
LEMMA CountSubset ==
  ASSUME NEW S \in SUBSET Procs
  PROVE  /\ IsFiniteSet(S)
         /\ Cardinality(S) \in 0..nprocs
         /\ Cardinality(S) = nprocs => S = Procs
  <1>1. /\ IsFiniteSet(S)
        /\ Cardinality(S) <= nprocs
        /\ Cardinality(S) = nprocs => S = Procs
    BY ProcsAssumption, FS_Subset DEF nprocs
  <1>2. Cardinality(S) \in Nat
    BY <1>1, FS_CardinalityType
  <1> QED
    BY <1>1, <1>2, NumberOfProcs

(* When the last thread arrives, all the others are waiting.               *)
LEMMA LastArrives ==
  ASSUME PbInv, NEW p \in Procs, pc[p] = "out", count = 1
  PROVE  Waiting = Procs \ {p}
  <1>1. Waiting \in SUBSET Procs /\ p \notin Waiting
    BY DEF Waiting, Inside
  <1>2. Cardinality(Waiting) = nprocs - 1
    BY <1>1, CountSubset, NumberOfProcs DEF PbInv, CountRemaining
  <1>3. Cardinality(Waiting \cup {p}) = nprocs
    BY <1>1, <1>2, CountSubset, FS_AddElement, NumberOfProcs
  <1>4. Waiting \cup {p} = Procs
    BY <1>1, <1>3, CountSubset
  <1> QED
    BY <1>1, <1>4

-----------------------------------------------------------------------------

(* Initially nobody is in the barrier.                                     *)
LEMMA InitInv == Init => PbInv
  <1> SUFFICES ASSUME Init PROVE PbInv
    OBVIOUS
  <1>1. Inside = {} /\ Waiting = {} /\ Released = {}
    BY DEF Init, Inside, Waiting, Released
  <1>2. TypeOK
    BY NumberOfProcs, RoundsAssumption DEF Init, pb_create, TypeOK
  <1>3. CountRemaining
    BY <1>1, FS_EmptySet, NumberOfProcs DEF CountRemaining, Init, pb_create
  <1> QED
    BY <1>1, <1>2, <1>3
    DEF PbInv, Init, SameEpisode, episode, WithinLoop, NoLostWakeup

(* A thread arrives and goes to sleep: one more waits.                     *)
LEMMA ArriveInv ==
  ASSUME PbInv, NEW p \in Procs, Arrive(p)
  PROVE  PbInv'
  <1> USE DEF PbInv
  <1>1. p \notin Inside /\ p \notin Waiting /\ p \notin Released
    BY DEF Arrive, Inside, Waiting, Released
  <1>2. /\ pc' = [pc EXCEPT ![p] = "blocked"]
        /\ t' = [t EXCEPT ![p] = turn]
        /\ count' = count - 1
        /\ turn' = turn
        /\ round' = round
    BY DEF Arrive
  <1>3. /\ Inside' = Inside \cup {p}
        /\ Waiting' = Waiting \cup {p}
        /\ Released' = Released
    BY <1>1, <1>2 DEF Inside, Waiting, Released, TypeOK
  <1>4. TypeOK'
    BY <1>2, NumberOfProcs DEF TypeOK, Arrive
  <1>5. CountRemaining'
    <2>1. Waiting \in SUBSET Procs
      BY DEF Waiting, Inside
    <2>2. Cardinality(Waiting \cup {p}) = Cardinality(Waiting) + 1
      BY <2>1, <1>1, CountSubset, FS_AddElement
    <2>3. Cardinality(Waiting) \in Nat
      BY <2>1, CountSubset
    <2> QED
      BY <2>2, <2>3, <1>2, <1>3, NumberOfProcs DEF CountRemaining, nprocs
  <1>6. SameEpisode'
    BY <1>2, <1>3 DEF SameEpisode, episode
  <1>7. WithinLoop'
    BY <1>2, <1>3 DEF WithinLoop, Arrive
  <1>8. NoLostWakeup'
    BY <1>2, <1>3 DEF NoLostWakeup, TypeOK
  <1> QED
    BY <1>4, <1>5, <1>6, <1>7, <1>8

(* The last thread to arrive releases all the others.                      *)
LEMMA ArriveLastInv ==
  ASSUME PbInv, NEW p \in Procs, ArriveLast(p)
  PROVE  PbInv'
  <1> USE DEF PbInv
  <1>1. pc[p] = "out" /\ round[p] < Rounds /\ Waiting = Procs \ {p}
    BY LastArrives DEF ArriveLast
  <1>2. /\ \A q \in Procs : t[q] = turn \/ q = p
        /\ Inside = Procs \ {p}
        /\ Released = {}
    BY <1>1 DEF Waiting, Inside, Released
  <1>3. \A q \in Procs \ {p} : pc[q] \in {"blocked", "woken"}
    BY <1>1, <1>2 DEF NoLostWakeup, TypeOK, Inside
  <1>4. /\ pc' = [q \in Procs |-> IF q = p THEN "last" ELSE "woken"]
        /\ t' = [t EXCEPT ![p] = turn]
        /\ count' = nprocs
        /\ turn' = 1 - turn
        /\ round' = round
    BY <1>3 DEF ArriveLast, pc_broadcast
  <1>5. turn' # turn /\ \A q \in Procs : t'[q] = turn
    BY <1>2, <1>4 DEF TypeOK
  <1>6. Inside' = Procs /\ Waiting' = {} /\ Released' = Procs
    BY <1>4, <1>5 DEF Inside, Waiting, Released, TypeOK
  <1>7. TypeOK'
    BY <1>4, NumberOfProcs DEF TypeOK
  <1>8. CountRemaining'
    BY <1>4, <1>6, FS_EmptySet, NumberOfProcs DEF CountRemaining, nprocs
  <1>9. SameEpisode'
    BY <1>2, <1>4, <1>6 DEF SameEpisode, episode
  <1>10. WithinLoop'
    BY <1>1, <1>2, <1>4, <1>6 DEF WithinLoop
  <1>11. NoLostWakeup'
    BY <1>4, <1>6 DEF NoLostWakeup
  <1> QED
    BY <1>7, <1>8, <1>9, <1>10, <1>11

(* Falling asleep or waking up changes nothing else.                       *)
LEMMA SleepInv ==
  ASSUME PbInv, NEW p \in Procs, SpuriousWakeup(p) \/ SleepAgain(p)
  PROVE  PbInv'
  <1> USE DEF PbInv
  <1>1. /\ pc[p] \in {"blocked", "woken"}
        /\ pc'[p] \in {"blocked", "woken"}
        /\ pc' = [pc EXCEPT ![p] = pc'[p]]
        /\ UNCHANGED <<count, turn, t, round>>
    BY DEF SpuriousWakeup, SleepAgain, TypeOK
  <1>2. Inside' = Inside /\ Waiting' = Waiting /\ Released' = Released
    BY <1>1 DEF Inside, Waiting, Released, TypeOK
  <1>3. TypeOK'
    BY <1>1 DEF TypeOK
  <1>4. NoLostWakeup'
    BY <1>1, <1>2 DEF NoLostWakeup, SpuriousWakeup, SleepAgain, Waiting, Inside, TypeOK
  <1> QED
    BY <1>1, <1>2, <1>3, <1>4
    DEF CountRemaining, SameEpisode, episode, WithinLoop, nprocs

(* A thread that returns has noticed that its episode is over.             *)
LEMMA ReturnInv ==
  ASSUME PbInv, NEW p \in Procs, Return(p) \/ ReturnLast(p)
  PROVE  PbInv'
  <1> USE DEF PbInv
  <1>1. p \in Released /\ p \in Inside /\ p \notin Waiting
    BY DEF Return, ReturnLast, NoLostWakeup, Released, Waiting, Inside
  <1>2. /\ pc' = [pc EXCEPT ![p] = "out"]
        /\ round' = [round EXCEPT ![p] = @ + 1]
        /\ UNCHANGED <<count, turn, t>>
    BY DEF Return, ReturnLast
  <1>3. /\ Inside' = Inside \ {p}
        /\ Waiting' = Waiting
        /\ Released' = Released \ {p}
    BY <1>1, <1>2 DEF Inside, Waiting, Released, TypeOK
  <1>4. TypeOK'
    BY <1>1, <1>2, RoundsAssumption DEF TypeOK, WithinLoop
  <1>5. CountRemaining'
    BY <1>2, <1>3 DEF CountRemaining, nprocs
  <1>6. SameEpisode'
    BY <1>1, <1>2, <1>3 DEF SameEpisode, episode, TypeOK
  <1>7. WithinLoop'
    BY <1>2, <1>3 DEF WithinLoop, TypeOK, Inside
  <1>8. NoLostWakeup'
    BY <1>2, <1>3 DEF NoLostWakeup, TypeOK
  <1> QED
    BY <1>4, <1>5, <1>6, <1>7, <1>8

(* PbInv is inductive.                                                     *)
LEMMA NextInv == PbInv /\ [Next]_vars => PbInv'
  <1> SUFFICES ASSUME PbInv, [Next]_vars PROVE PbInv'
    OBVIOUS
  <1>1. ASSUME NEW p \in Procs, pb_wait(p) \/ SpuriousWakeup(p) PROVE PbInv'
    BY <1>1, ArriveInv, ArriveLastInv, SleepInv, ReturnInv DEF pb_wait
  <1>2. CASE UNCHANGED vars
    BY <1>2
    DEF vars, PbInv, TypeOK, CountRemaining, SameEpisode, episode, WithinLoop,
        NoLostWakeup, Inside, Waiting, Released, nprocs
  <1> QED
    BY <1>1, <1>2 DEF Next

(* The invariant of pb_wait, for every number of threads and of calls: no  *)
(* thread sleeps through the end of its episode, and the single bit turn   *)
(* is enough to tell the episodes apart.                                   *)
THEOREM PthreadBarrierInvariant == Spec => []PbInv
  BY InitInv, NextInv, PTL DEF Spec

-----------------------------------------------------------------------------

(* Arriving, as the last one or not.                                       *)
LEMMA Arrives ==
  ASSUME PbInv, NEW p \in Procs, Arrive(p) \/ ArriveLast(p)
  PROVE  Abstract!Arrive(p)
  <1> USE DEF PbInv
  <1>1. p \notin Inside /\ round[p] < Rounds /\ round' = round
    BY DEF Arrive, ArriveLast, Inside
  <1>2. pc'[p] # "out" /\ \A q \in Procs \ {p} : pc'[q] = "out" <=> pc[q] = "out"
    BY DEF Arrive, ArriveLast, pc_broadcast, TypeOK
  <1>3. Inside' = Inside \cup {p}
    BY <1>2 DEF Inside
  <1> QED
    BY <1>1, <1>3 DEF Abstract!Arrive

(* Returning: everyone is in the same episode, or ahead.                   *)
LEMMA Leaves ==
  ASSUME PbInv, NEW p \in Procs, Return(p) \/ ReturnLast(p)
  PROVE  Abstract!Leave(p)
  <1> USE DEF PbInv
  <1>1. p \in Released /\ p \in Inside
    BY DEF Return, ReturnLast, NoLostWakeup, Released, Waiting, Inside
  <1>2. ASSUME NEW q \in Procs PROVE Abstract!HasArrived(q, p)
    <2>1. episode(q) = round[p] + 1
      BY <1>1 DEF SameEpisode, episode
    <2>2. CASE q \in Released
      BY <2>1, <2>2 DEF episode, TypeOK, Abstract!HasArrived, Released
    <2>3. CASE q \notin Released
      BY <2>1, <2>3 DEF episode, TypeOK, Abstract!HasArrived
    <2> QED
      BY <2>2, <2>3
  <1>3. Inside' = Inside \ {p} /\ round' = [round EXCEPT ![p] = @ + 1]
    BY DEF Return, ReturnLast, Inside, TypeOK
  <1> QED
    BY <1>1, <1>2, <1>3 DEF Abstract!Leave

(* Every step is a step of the abstract barrier or leaves it unchanged.    *)
LEMMA StepRefines == PbInv /\ [Next]_vars => [Abstract!Next]_(Abstract!bvars)
  <1> SUFFICES ASSUME PbInv, [Next]_vars
               PROVE  [Abstract!Next]_(Abstract!bvars)
    OBVIOUS
  <1>1. ASSUME NEW p \in Procs, SleepAgain(p) \/ SpuriousWakeup(p)
        PROVE  UNCHANGED Abstract!bvars
    BY <1>1 DEF PbInv, SleepAgain, SpuriousWakeup, Inside, TypeOK, Abstract!bvars
  <1>2. CASE UNCHANGED vars
    BY <1>2 DEF vars, Inside, Abstract!bvars
  <1>3. ASSUME NEW p \in Procs, pb_wait(p) \/ SpuriousWakeup(p)
        PROVE  [Abstract!Next]_(Abstract!bvars)
    BY <1>1, <1>3, Arrives, Leaves DEF pb_wait, Abstract!Next
  <1> QED
    BY <1>2, <1>3 DEF Next

(* pb_wait is a barrier for every number of threads and of calls, however  *)
(* often the condition variable wakes a thread up without reason.          *)
THEOREM PthreadBarrierCorrect == Spec => ImplementsBarrier
  <1>1. Init => Abstract!Init
    BY DEF Init, Abstract!Init, Inside
  <1> QED
    BY <1>1, StepRefines, PthreadBarrierInvariant, PTL
    DEF Spec, ImplementsBarrier, Abstract!Spec

=============================================================================
