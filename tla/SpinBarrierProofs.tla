------------------------- MODULE SpinBarrierProofs -------------------------
(***************************************************************************)
(* The barriers on which the threads of a test spin, for any number of     *)
(* threads and of iterations.                                              *)
(*                                                                         *)
(* The sense barrier keeps its inductive invariant and implements the      *)
(* abstract barrier.                                                       *)
(*                                                                         *)
(* The soft barriers user and user2 keep the threads together: nobody runs *)
(* an index before its leader (user with any stride, user2 without         *)
(* strides), and without strides no thread is N indices ahead of another   *)
(* one.  The flags of user are raised once, by the leader.  A flag of      *)
(* user2 is reversed at each use: a thread looks at a flag only once its   *)
(* previous use is over, because it has itself passed the index of that    *)
(* use, where it had to wait for the same leader.                          *)
(***************************************************************************)
EXTENDS SenseBarrier, UserBarrier, FiniteSetTheorems, TLAPS

(* The number of participants is a positive natural number.                *)
LEMMA NumberOfProcs == n \in Nat /\ n > 0
  BY ProcsAssumption, FS_CardinalityType, FS_EmptySet DEF n

(* Counting waiting threads stays within 0..n, and n of them are all.      *)
LEMMA CountSubset ==
  ASSUME NEW S \in SUBSET Procs
  PROVE  /\ IsFiniteSet(S)
         /\ Cardinality(S) \in 0..n
         /\ Cardinality(S) = n => S = Procs
  <1>1. IsFiniteSet(S) /\ Cardinality(S) <= n /\ (Cardinality(S) = n => S = Procs)
    BY ProcsAssumption, FS_Subset DEF n
  <1>2. Cardinality(S) \in Nat
    BY <1>1, FS_CardinalityType
  <1> QED
    BY <1>1, <1>2, NumberOfProcs

(* Adding one more waiting thread.                                         *)
LEMMA CountAdd ==
  ASSUME NEW S \in SUBSET Procs, NEW p \in Procs, p \notin S
  PROVE  Cardinality(S \cup {p}) = Cardinality(S) + 1
  BY CountSubset, FS_AddElement

(* Each text of barrier_wait reverses a sense, whatever its values: back   *)
(* and forth between two of them, of which 0 is one.                       *)
LEMMA ReverseSense ==
  ASSUME text \in Texts
  PROVE  /\ 0 \in Senses
         /\ \A x \in Senses : text.reverse[x] \in Senses /\ text.reverse[x] # x
  <1> USE DEF Senses
  <1>1. CASE text \in {AArch64, MIPS, RISCV, Linux}
    BY <1>1 DEF AArch64, MIPS, RISCV, Linux
  <1>2. CASE text = X86
    BY <1>2 DEF X86
  <1>3. CASE text \in {ARM, PPC}
    BY <1>3 DEF ARM, PPC
  <1> QED
    BY <1>1, <1>2, <1>3 DEF Texts

(* Both tests for the last thread amount to a comparison with zero.        *)
LEMMA LastTest ==
  ASSUME text \in Texts, NEW k \in Nat
  PROVE  isLast(k) <=> k = 0
  BY DEF isLast

-----------------------------------------------------------------------------

(* Initially nobody is in the barrier.                                     *)
LEMMA InitInv == Init => BarrierInv
  <1> SUFFICES ASSUME Init PROVE BarrierInv
    OBVIOUS
  <1>1. TypeOK
    BY NumberOfProcs, ReverseSense DEF Init, barrier_init, TypeOK, Labels
  <1>2. Waiting = {}
    BY DEF Init, Waiting, Inside
  <1>3. CountRemaining
    BY <1>2, FS_EmptySet, NumberOfProcs DEF CountRemaining, Init, barrier_init
  <1> QED
    BY <1>1, <1>2, <1>3
    DEF BarrierInv, Init, FreshSense, ResetAlone, SameEpisode, episode,
        Released, Inside, WithinLoop

(* int sense = p->sense;                                                   *)
LEMMA ReadSenseInv ==
  ASSUME BarrierInv, NEW p \in Procs, ReadSense(p)
  PROVE  BarrierInv'
  <1> USE DEF BarrierInv
  <1>1. TypeOK'
    BY NumberOfProcs DEF TypeOK, Labels, Senses, ReadSense, goto
  <1>2. Inside' = Inside /\ Waiting' = Waiting /\ Released' = Released
    BY DEF ReadSense, goto, Inside, Waiting, Released, TypeOK
  <1>3. FreshSense'
    BY DEF FreshSense, ReadSense, goto, TypeOK
  <1>4. ResetAlone'
    BY <1>2 DEF ResetAlone, ReadSense, goto, TypeOK, Waiting, Inside
  <1>5. CountRemaining'
    BY <1>2 DEF CountRemaining, ReadSense, goto, TypeOK
  <1>6. SameEpisode'
    BY <1>2 DEF SameEpisode, episode, ReadSense
  <1>7. WithinLoop'
    BY DEF WithinLoop, ReadSense, goto, TypeOK
  <1> QED
    BY <1>1, <1>3, <1>4, <1>5, <1>6, <1>7

(* The atomic decrement: one more thread waits, and the one that finds the *)
(* counter at zero has everyone with it.                                   *)
LEMMA DecrementInv ==
  ASSUME BarrierInv, NEW p \in Procs, Decrement(p)
  PROVE  BarrierInv'
  <1> USE DEF BarrierInv
  <1> DEFINE last == isLast(c - 1)
  <1>1. p \notin Inside /\ p \notin Waiting /\ ms[p] = sense
    BY DEF Decrement, Inside, Waiting, FreshSense
  <1>2. \A q \in Procs : pc[q] \notin {"reset", "flip"}
    BY <1>1 DEF ResetAlone
  <1>3. pc' = [pc EXCEPT ![p] = IF last THEN "reset" ELSE "spin"]
    BY DEF Decrement, goto
  <1>4. Inside' = Inside \cup {p} /\ Waiting' = Waiting \cup {p} /\ Released' = Released
    BY <1>1, <1>3 DEF Decrement, Inside, Waiting, Released, TypeOK
  <1>5. Waiting \in SUBSET Procs /\ Waiting' \in SUBSET Procs
    BY <1>4 DEF Waiting, Inside
  <1>6. Cardinality(Waiting') = Cardinality(Waiting) + 1
    BY <1>1, <1>4, <1>5, CountAdd
  <1>7. c = n - Cardinality(Waiting) /\ c' = n - Cardinality(Waiting')
    <2>1. c = n - Cardinality(Waiting)
      BY <1>2 DEF CountRemaining
    <2>2. Cardinality(Waiting) \in Nat
      BY <1>5, CountSubset
    <2> QED
      BY <2>1, <2>2, <1>6, NumberOfProcs DEF Decrement
  <1>8. Cardinality(Waiting') \in 0..n /\ (Cardinality(Waiting') = n => Waiting' = Procs)
    BY <1>5, CountSubset
  <1>9. last => Waiting' = Procs
    <2>1. c - 1 = n - Cardinality(Waiting')
      BY <1>7 DEF Decrement
    <2>2. n - Cardinality(Waiting') \in Nat
      BY <1>8, NumberOfProcs
    <2>3. last => n - Cardinality(Waiting') = 0
      BY <2>1, <2>2, LastTest DEF TypeOK
    <2> QED
      BY <2>3, <1>8, NumberOfProcs
  <1>10. TypeOK'
    BY <1>3, <1>7, <1>8, NumberOfProcs DEF Decrement, TypeOK, Labels, Senses
  <1>11. FreshSense'
    BY <1>3 DEF FreshSense, Decrement, TypeOK
  <1>12. ResetAlone'
    <2> SUFFICES ASSUME NEW r \in Procs, pc'[r] \in {"reset", "flip"}
                 PROVE  Waiting' = Procs /\ \A q \in Procs \ {r} : pc'[q] = "spin"
      BY DEF ResetAlone
    <2>1. r = p /\ last
      BY <1>2, <1>3 DEF TypeOK
    <2>2. \A q \in Procs : q \in Inside'
      BY <2>1, <1>9 DEF Waiting
    <2> QED
      BY <2>1, <2>2, <1>2, <1>3, <1>9 DEF Inside, TypeOK
  <1>13. CountRemaining'
    BY <1>2, <1>3, <1>7 DEF CountRemaining, TypeOK
  <1>14. SameEpisode'
    BY <1>4 DEF SameEpisode, episode, Decrement
  <1>15. WithinLoop'
    BY <1>3 DEF WithinLoop, Decrement, TypeOK
  <1> QED
    BY <1>10, <1>11, <1>12, <1>13, <1>14, <1>15

(* A released thread reads the new sense and returns.                      *)
LEMMA SpinExitInv ==
  ASSUME BarrierInv, NEW p \in Procs, SpinExit(p)
  PROVE  BarrierInv'
  <1> USE DEF BarrierInv
  <1>1. p \in Released /\ p \notin Waiting
    BY DEF SpinExit, Released, Waiting, Inside
  <1>2. \A q \in Procs : pc[q] \notin {"reset", "flip"}
    BY <1>1 DEF ResetAlone
  <1>3. pc' = [pc EXCEPT ![p] = "body"] /\ round' = [round EXCEPT ![p] = @ + 1]
    BY DEF SpinExit, return, goto
  <1>4. Waiting' = Waiting /\ Released' = Released \ {p}
    BY <1>1, <1>3 DEF SpinExit, Inside, Waiting, Released, TypeOK
  <1>5. TypeOK'
    BY <1>3 DEF SpinExit, TypeOK, Labels, Senses
  <1>6. FreshSense'
    BY <1>3 DEF FreshSense, SpinExit, TypeOK
  <1>7. ResetAlone'
    BY <1>2, <1>3 DEF ResetAlone, TypeOK
  <1>8. CountRemaining'
    BY <1>2, <1>3, <1>4 DEF CountRemaining, SpinExit, TypeOK
  <1>9. SameEpisode'
    BY <1>1, <1>3, <1>4 DEF SameEpisode, episode, TypeOK
  <1>10. WithinLoop'
    BY <1>3 DEF WithinLoop, TypeOK
  <1> QED
    BY <1>5, <1>6, <1>7, <1>8, <1>9, <1>10

(* The last thread makes the counter ready for the next episode.           *)
LEMMA ResetCountInv ==
  ASSUME BarrierInv, NEW p \in Procs, ResetCount(p)
  PROVE  BarrierInv'
  <1> USE DEF BarrierInv
  <1>1. Waiting = Procs /\ \A q \in Procs \ {p} : pc[q] = "spin"
    BY DEF ResetCount, ResetAlone
  <1>2. pc' = [pc EXCEPT ![p] = "flip"]
    BY DEF ResetCount, goto
  <1>3. Waiting' = Waiting /\ Released' = Released
    BY <1>2 DEF ResetCount, Inside, Waiting, Released, TypeOK
  <1>4. TypeOK'
    BY <1>2, NumberOfProcs DEF ResetCount, TypeOK, Labels, Senses
  <1>5. FreshSense'
    BY <1>1, <1>2 DEF FreshSense, TypeOK
  <1>6. ResetAlone'
    BY <1>1, <1>2, <1>3 DEF ResetAlone, TypeOK
  <1>7. CountRemaining'
    BY <1>2 DEF CountRemaining, ResetCount, TypeOK
  <1>8. SameEpisode'
    BY <1>3 DEF SameEpisode, episode, ResetCount
  <1>9. WithinLoop'
    BY <1>2 DEF WithinLoop, ResetCount, TypeOK
  <1> QED
    BY <1>4, <1>5, <1>6, <1>7, <1>8, <1>9

(* The last thread reverses the sense: all the others are released.        *)
LEMMA FlipSenseInv ==
  ASSUME BarrierInv, NEW p \in Procs, FlipSense(p)
  PROVE  BarrierInv'
  <1> USE DEF BarrierInv
  <1>1. Waiting = Procs /\ \A q \in Procs \ {p} : pc[q] = "spin"
    BY DEF FlipSense, ResetAlone
  <1>2. pc' = [pc EXCEPT ![p] = "body"] /\ round' = [round EXCEPT ![p] = @ + 1]
    BY DEF FlipSense, return, goto
  <1>3. sense' \in Senses /\ sense' # sense /\ \A q \in Procs : ms[q] = sense
    <2>1. \A q \in Procs : ms[q] = sense
      BY <1>1 DEF Waiting
    <2> QED
      BY <2>1, ReverseSense DEF FlipSense, TypeOK
  <1>4. Waiting' = {} /\ Released' = Procs \ {p} /\ Released = {}
    BY <1>1, <1>2, <1>3 DEF FlipSense, Inside, Waiting, Released, TypeOK
  <1>5. TypeOK'
    BY <1>2, <1>3 DEF FlipSense, TypeOK, Labels, Senses
  <1>6. FreshSense'
    BY <1>1, <1>2 DEF FreshSense, TypeOK
  <1>7. ResetAlone'
    BY <1>1, <1>2 DEF ResetAlone, TypeOK
  <1>8. CountRemaining'
    <2>1. c' = n
      BY DEF FlipSense, CountRemaining
    <2>2. ~ \E q \in Procs : pc'[q] = "flip"
      BY <1>1, <1>2 DEF TypeOK
    <2> QED
      BY <2>1, <2>2, <1>4, FS_EmptySet, NumberOfProcs DEF CountRemaining
  <1>9. SameEpisode'
    BY <1>2, <1>4 DEF SameEpisode, episode, TypeOK
  <1>10. WithinLoop'
    BY <1>2 DEF WithinLoop, TypeOK
  <1> QED
    BY <1>5, <1>6, <1>7, <1>8, <1>9, <1>10

(* BarrierInv is inductive.                                                *)
LEMMA NextInv == BarrierInv /\ [Next]_vars => BarrierInv'
  <1> SUFFICES ASSUME BarrierInv, [Next]_vars PROVE BarrierInv'
    OBVIOUS
  <1>1. ASSUME NEW p \in Procs, barrier_wait(p) PROVE BarrierInv'
    BY <1>1, ReadSenseInv, DecrementInv, SpinExitInv, ResetCountInv, FlipSenseInv
    DEF barrier_wait
  <1>2. CASE UNCHANGED vars
    BY <1>2
    DEF vars, BarrierInv, TypeOK, Senses, FreshSense, ResetAlone, CountRemaining,
        SameEpisode, WithinLoop, episode, Inside, Waiting, Released
  <1> QED
    BY <1>1, <1>2 DEF Next

(* The invariant of the sense barrier holds for every number of threads    *)
(* and of iterations: in particular the counter never leaves 0..n, and     *)
(* only one thread at a time resets the barrier, with everyone inside.     *)
THEOREM SenseBarrierInvariant == Spec => []BarrierInv
  BY InitInv, NextInv, PTL DEF Spec

-----------------------------------------------------------------------------

(* Arriving is decrementing the counter.                                   *)
LEMMA DecrementArrives ==
  ASSUME BarrierInv, NEW p \in Procs, Decrement(p)
  PROVE  Abstract!Arrive(p)
  <1>1. p \notin Inside /\ round[p] < Rounds
    BY DEF BarrierInv, Decrement, Inside, WithinLoop
  <1>2. pc'[p] \in {"spin", "reset"} /\ \A q \in Procs \ {p} : pc'[q] = pc[q]
    BY DEF BarrierInv, Decrement, goto, TypeOK
  <1>3. Inside' = Inside \cup {p}
    BY <1>1, <1>2 DEF Inside
  <1> QED
    BY <1>1, <1>3 DEF Abstract!Arrive, Decrement

(* A released thread has everyone with it in its episode, or ahead of it.  *)
LEMMA SpinExitLeaves ==
  ASSUME BarrierInv, NEW p \in Procs, SpinExit(p)
  PROVE  Abstract!Leave(p)
  <1> USE DEF BarrierInv
  <1>1. p \in Released /\ p \in Inside
    BY DEF SpinExit, Released, Waiting, Inside
  <1>2. ASSUME NEW q \in Procs PROVE Abstract!HasArrived(q, p)
    <2>1. episode(q) = round[p] + 1
      BY <1>1 DEF SameEpisode, episode
    <2>2. CASE q \in Released
      BY <2>1, <2>2 DEF episode, TypeOK, Abstract!HasArrived, Released
    <2>3. CASE q \notin Released
      BY <2>1, <2>3 DEF episode, TypeOK, Abstract!HasArrived
    <2> QED
      BY <2>2, <2>3
  <1>3. Inside' = Inside \ {p} /\ round' = [round EXCEPT ![p] = @ + 1]
    BY DEF SpinExit, return, goto, Inside, TypeOK
  <1> QED
    BY <1>1, <1>2, <1>3 DEF Abstract!Leave

(* The last thread leaves with everyone inside, in the same episode.       *)
LEMMA FlipSenseLeaves ==
  ASSUME BarrierInv, NEW p \in Procs, FlipSense(p)
  PROVE  Abstract!Leave(p)
  <1> USE DEF BarrierInv
  <1>1. Waiting = Procs
    BY DEF FlipSense, ResetAlone
  <1>2. Inside = Procs /\ Released = {}
    BY <1>1 DEF Waiting, Released, Inside
  <1>3. ASSUME NEW q \in Procs PROVE Abstract!HasArrived(q, p)
    BY <1>2 DEF SameEpisode, episode, Abstract!HasArrived
  <1>4. Inside' = Inside \ {p} /\ round' = [round EXCEPT ![p] = @ + 1]
    BY DEF FlipSense, return, goto, Inside, TypeOK
  <1> QED
    BY <1>2, <1>3, <1>4 DEF Abstract!Leave

(* Every step of the code is a step of the abstract barrier, or changes    *)
(* nothing that its callers can observe.                                   *)
LEMMA StepRefines ==
  BarrierInv /\ [Next]_vars => [Abstract!Next]_(Abstract!bvars)
  <1> SUFFICES ASSUME BarrierInv, [Next]_vars
               PROVE  [Abstract!Next]_(Abstract!bvars)
    OBVIOUS
  <1>1. ASSUME NEW p \in Procs, ReadSense(p) \/ ResetCount(p)
        PROVE  UNCHANGED Abstract!bvars
    BY <1>1 DEF BarrierInv, ReadSense, ResetCount, goto, Inside, TypeOK, Abstract!bvars
  <1>2. CASE UNCHANGED vars
    BY <1>2 DEF vars, Inside, Abstract!bvars
  <1>3. ASSUME NEW p \in Procs, barrier_wait(p)
        PROVE  [Abstract!Next]_(Abstract!bvars)
    BY <1>1, <1>3, DecrementArrives, SpinExitLeaves, FlipSenseLeaves
    DEF barrier_wait, Abstract!Next
  <1> QED
    BY <1>2, <1>3 DEF Next

(* barrier_wait is a barrier for every number of threads and iterations: a *)
(* thread returns from its k-th call only after all made their k-th call.  *)
THEOREM SenseBarrierCorrect == Spec => ImplementsBarrier
  <1>1. Init => Abstract!Init
    BY DEF Init, Abstract!Init, Inside
  <1> QED
    BY <1>1, StepRefines, SenseBarrierInvariant, PTL
    DEF Spec, ImplementsBarrier, Abstract!Spec

-----------------------------------------------------------------------------
(* The soft barriers.                                                      *)

UserTypeOK ==
  /\ mode \in Modes
  /\ b \in [IF Compact THEN Threads ELSE Indices -> {0, 1}]
  /\ i \in [Threads -> Indices \cup {Done}]
  /\ at \in [Threads -> {"barrier", "code"}]
  /\ \A p \in Threads : at[p] = "code" => i[p] \in Indices

(* The flag of an index tells that the leader has passed it.               *)
Raised == ~Compact => \A k \in Indices : b[k] = 1 => HasPassed(leader(k), k)

(* k is the next index at which thread o reverses its flag.                *)
NextUse(o, k) == /\ leader(k) = o
                 /\ ~HasPassed(o, k)
                 /\ k + N >= Size \/ HasPassed(o, k + N)

Reversed == Compact /\ Stride = 1 =>
  \A o \in Threads, k \in Indices : NextUse(o, k) => b[o] # free(k)

(* The leader is the first one to pass an index, also when those that came *)
(* after it have gone on.                                                  *)
Order == Stride = 1 =>
  \A p \in Threads, k \in Indices : HasPassed(p, k) => HasPassed(leader(k), k)

(* user2 is not made for strides.                                          *)
Works == Compact => Stride = 1

(* The inductive invariant of the soft barriers.                           *)
UserInv == UserTypeOK /\ Raised /\ Reversed /\ Order /\ (Works => LeaderFirst)

-----------------------------------------------------------------------------

(* Division with remainder, and that it is unique.                         *)
LEMMA DivMod ==
  ASSUME NEW a \in Int, NEW m \in Nat \ {0}
  PROVE  a % m \in 0..(m-1) /\ a \div m \in Int /\ a = m * (a \div m) + (a % m)
  OBVIOUS

LEMMA Multiple ==
  ASSUME NEW m \in Nat \ {0}, NEW x \in Int, NEW y \in Int,
         NEW r \in 0..(m-1), NEW s \in 0..(m-1), m * x + r = m * y + s
  PROVE  x = y /\ r = s
  <1>1. \A u, v \in Int : u + 1 <= v => m * u + m <= m * v
    <2> SUFFICES ASSUME NEW u \in Int, NEW v \in Int, u + 1 <= v
                 PROVE  m * u + m <= m * v
      OBVIOUS
    <2>1. m * (v - u - 1) >= 0
      OBVIOUS
    <2>2. m * (v - u - 1) = m * v - m * u - m
      OBVIOUS
    <2> QED
      BY <2>1, <2>2
  <1>2. ~(x + 1 <= y) /\ ~(y + 1 <= x)
    BY <1>1
  <1>3. x = y
    BY <1>2
  <1> QED
    BY <1>3

LEMMA ModOf ==
  ASSUME NEW m \in Nat \ {0}, NEW x \in Int, NEW r \in 0..(m-1)
  PROVE  (m * x + r) % m = r
  <1> DEFINE a == m * x + r
  <1>1. a \in Int
    OBVIOUS
  <1>2. a % m \in 0..(m-1) /\ a \div m \in Int /\ a = m * (a \div m) + (a % m)
    BY <1>1, DivMod
  <1> HIDE DEF a
  <1>3. PICK y \in Int, s \in 0..(m-1) : s = a % m /\ m * y + s = m * x + r
    BY <1>2 DEF a
  <1>4. r = s
    BY <1>3, Multiple
  <1> QED
    BY <1>3, <1>4 DEF a

LEMMA ByN ==
  ASSUME NEW k \in Int
  PROVE  \E m \in Int, r \in 0..(N-1) : k = N * m + r /\ r = k % N
  <1>1. k % N \in 0..(N-1) /\ k \div N \in Int /\ k = N * (k \div N) + (k % N)
    BY NAssumption, DivMod
  <1>2. \E r \in 0..(N-1) : k = N * (k \div N) + r /\ r = k % N
    BY Zenon, <1>1
  <1> QED
    BY Zenon, <1>1, <1>2

(* The parity of the use of a flag is the parity of the quotient by N.     *)
LEMMA Half ==
  ASSUME NEW m \in Int, NEW r \in 0..(N-1)
  PROVE  (N * m + r) % (2 * N) < N <=> m % 2 = 0
  <1>1. N \in Nat \ {0} /\ 2 * N \in Nat \ {0}
    BY NAssumption
  <1>2. PICK h \in Int, e \in 0..1 : m = 2 * h + e /\ e = m % 2
    BY DivMod
  <1>3. N * m = (2 * N) * h + N * e
    BY <1>1, <1>2
  <1>4. N * e + r \in 0..(2 * N - 1) /\ (N * e + r < N <=> e = 0)
    <2>1. CASE e = 0
      BY <1>1, <2>1
    <2>2. CASE e = 1
      BY <1>1, <2>2
    <2> QED
      BY <1>2, <2>1, <2>2
  <1>5. N * m + r = (2 * N) * h + (N * e + r)
    BY <1>1, <1>2, <1>3
  <1>6. ((2 * N) * h + (N * e + r)) % (2 * N) = N * e + r
    BY <1>1, <1>2, <1>4, ModOf
  <1> QED
    BY <1>2, <1>4, <1>5, <1>6

(* Two uses of a flag in a row wait for different values, and the leader   *)
(* is the same one.                                                        *)
LEMMA NextFree ==
  ASSUME NEW k \in Nat, Compact
  PROVE  free(k + N) # free(k) /\ leader(k + N) = leader(k)
  <1>1. N \in Nat \ {0} /\ k \in Int
    BY NAssumption
  <1>2. PICK m \in Int, r \in 0..(N-1) : k = N * m + r /\ r = k % N
    BY <1>1, ByN
  <1>3. k + N = N * (m + 1) + r /\ m + 1 \in Int
    BY <1>1, <1>2
  <1>4. leader(k + N) = leader(k)
    <2>1. (N * (m + 1) + r) % N = r
      BY <1>1, <1>3, ModOf
    <2> QED
      BY <1>2, <1>3, <2>1 DEF leader
  <1>5. (m + 1) % 2 = 0 <=> m % 2 # 0
    OBVIOUS
  <1>6. (k % (2 * N) < N) <=> m % 2 = 0
    <2>1. (N * m + r) % (2 * N) < N <=> m % 2 = 0
      BY Half
    <2> QED
      BY <1>2, <2>1
  <1>7. ((k + N) % (2 * N) < N) <=> (m + 1) % 2 = 0
    <2>1. (N * (m + 1) + r) % (2 * N) < N <=> (m + 1) % 2 = 0
      BY <1>3, Half
    <2> QED
      BY <1>3, <2>1
  <1> QED
    BY <1>4, <1>5, <1>6, <1>7 DEF free

(* Indices with the same leader are N apart.                               *)
LEMMA Apart ==
  ASSUME NEW k \in Nat, NEW x \in Nat, k < x, leader(k) = leader(x)
  PROVE  k + N <= x
  <1>1. N \in Nat \ {0}
    BY NAssumption
  <1>2. PICK m \in Int, r \in 0..(N-1) : k = N * m + r /\ r = k % N
    BY ByN
  <1>3. PICK l \in Int, s \in 0..(N-1) : x = N * l + s /\ s = x % N
    BY ByN
  <1>4. r = s
    BY <1>2, <1>3 DEF leader
  <1>5. x - k = N * (l - m)
    BY <1>1, <1>2, <1>3, <1>4
  <1>6. l - m >= 1
    <2>1. \A u \in Int : u <= 0 => N * u <= 0
      BY <1>1
    <2> QED
      BY <1>5, <2>1
  <1>7. \A u \in Int : u >= 1 => N * u >= N
    BY <1>1
  <1> QED
    BY <1>1, <1>5, <1>6, <1>7

-----------------------------------------------------------------------------
(* The scan.                                                               *)

LEMMA StrideType ==
  ASSUME mode \in Modes
  PROVE  Stride \in 1..Size /\ Compact \in BOOLEAN
  BY ModesAssumption DEF Stride, Compact

LEMMA SegmentType ==
  ASSUME mode \in Modes, NEW k \in Indices
  PROVE  segment(k) \in 1..Stride
  <1>1. Stride \in Nat \ {0} /\ Size - k - 1 \in Int
    BY StrideType, SizeAssumption DEF Indices
  <1>2. (Size - k - 1) % Stride \in 0..(Stride - 1)
    BY <1>1, DivMod
  <1> QED
    BY <1>1, <1>2 DEF segment

(* An index is followed by one that is scanned after it, or by the end.    *)
LEMMA Succ ==
  ASSUME mode \in Modes, NEW k \in Indices
  PROVE  succ(k) = Done \/ (succ(k) \in Indices /\ before(k, succ(k)))
  <1>1. /\ Stride \in 1..Size /\ Stride \in Nat \ {0}
        /\ Size \in Nat \ {0} /\ k \in 0..(Size-1)
    BY StrideType, SizeAssumption DEF Indices
  <1>2. segment(k) \in 1..Stride
    BY SegmentType
  <1>3. CASE k - Stride >= 0
    <2>1. PICK m \in Int, r \in 0..(Stride-1) :
            /\ Size - k - 1 = Stride * m + r
            /\ r = (Size - k - 1) % Stride
      <3> DEFINE a == Size - k - 1
      <3>1. a \in Int
        BY <1>1
      <3> HIDE DEF a
      <3>2. a % Stride \in 0..(Stride-1) /\ a \div Stride \in Int
            /\ a = Stride * (a \div Stride) + (a % Stride)
        BY <3>1, <1>1, DivMod
      <3>3. \E r \in 0..(Stride-1) : a = Stride * (a \div Stride) + r /\ r = a % Stride
        BY Zenon, <3>2
      <3>4. \E m \in Int, r \in 0..(Stride-1) : a = Stride * m + r /\ r = a % Stride
        BY Zenon, <3>2, <3>3
      <3> QED
        BY Zenon, <3>4 DEF a
    <2>2. Size - (k - Stride) - 1 = Stride * (m + 1) + r /\ m + 1 \in Int
      BY <1>1, <2>1
    <2>3. (Stride * (m + 1) + r) % Stride = r
      BY <1>1, <2>2, ModOf
    <2>4. segment(k - Stride) = segment(k)
      BY <2>1, <2>2, <2>3 DEF segment
    <2> QED
      BY <1>1, <1>2, <1>3, <2>4 DEF succ, before, Indices
  <1>4. CASE k - Stride < 0 /\ segment(k) > 1
    <2> DEFINE l == Size - (segment(k) - 1)
    <2>1. succ(k) = l
      BY <1>1, <1>4 DEF succ
    <2>2. l \in Indices /\ Size - l - 1 = segment(k) - 2
      BY <1>1, <1>2, <1>4 DEF Indices
    <2>3. segment(k) - 2 \in 0..(Stride-1)
      BY <1>1, <1>2, <1>4
    <2>4. (Stride * 0 + (segment(k) - 2)) % Stride = segment(k) - 2
      BY <1>1, <2>3, ModOf
    <2>5. Stride * 0 + (segment(k) - 2) = segment(k) - 2
      BY <1>1, <1>2
    <2>6. segment(l) = segment(k) - 1
      <3> HIDE DEF l
      <3>1. segment(l) = ((segment(k) - 2) % Stride) + 1
        BY <2>2 DEF segment
      <3> QED
        BY <3>1, <2>4, <2>5, <1>2
    <2> QED
      BY <1>2, <2>1, <2>2, <2>6 DEF before
  <1>5. CASE k - Stride < 0 /\ ~(segment(k) > 1)
    BY <1>1, <1>5 DEF succ
  <1> QED
    BY <1>1, <1>2, <1>3, <1>4, <1>5

LEMMA BeforeTransitive ==
  ASSUME mode \in Modes, NEW j \in Indices, NEW k \in Indices, NEW l \in Indices,
         before(j, k), before(k, l)
  PROVE  before(j, l)
  <1>1. segment(j) \in Int /\ segment(k) \in Int /\ segment(l) \in Int
    BY SegmentType, StrideType
  <1> QED
    BY <1>1, SizeAssumption DEF before, Indices

(* Without strides there is a single segment, scanned downwards.           *)
LEMMA OneSegment ==
  ASSUME mode \in Modes, Stride = 1, NEW k \in Indices
  PROVE  segment(k) = 1 /\ succ(k) = k - 1
  <1>1. segment(k) = 1
    BY SegmentType
  <1> QED
    BY <1>1, SizeAssumption DEF succ, Indices, Done

LEMMA PassedOne ==
  ASSUME UserTypeOK, Stride = 1, NEW q \in Threads, NEW k \in Indices
  PROVE  HasPassed(q, k) <=> (i[q] < k \/ (i[q] = k /\ at[q] = "code"))
  <1>1. mode \in Modes /\ i[q] \in Indices \cup {Done} /\ segment(k) = 1
    BY OneSegment DEF UserTypeOK
  <1>2. CASE i[q] = Done
    BY <1>2, SizeAssumption DEF HasPassed, Indices, Done
  <1>3. CASE i[q] \in Indices
    <2>1. segment(i[q]) = 1
      BY <1>1, <1>3, OneSegment
    <2> QED
      BY <1>1, <1>3, <2>1, SizeAssumption DEF HasPassed, before, Indices, Done
  <1> QED
    BY <1>1, <1>2, <1>3

LEMMA LeaderType ==
  ASSUME NEW k \in Int
  PROVE  leader(k) \in Threads
  BY NAssumption, DivMod DEF leader, Threads

-----------------------------------------------------------------------------
(* What a step does to the indices passed.                                 *)

LEMMA StepType ==
  ASSUME UserTypeOK, NEW p \in Threads, Lead(p) \/ Follow(p) \/ Code(p)
  PROVE  UserTypeOK' /\ mode' = mode /\ i[p] \in Indices
  <1>1. mode' = mode /\ i[p] \in Indices
    BY DEF UserTypeOK, Lead, Follow, Code
  <1>2. CASE Lead(p)
    <2>1. /\ free(i[p]) \in {0, 1}
          /\ i' = i
          /\ b' = [b EXCEPT ![cell(i[p])] = free(i[p])]
          /\ at' = [at EXCEPT ![p] = "code"]
      BY <1>2 DEF Lead, free
    <2>2. b' \in [IF Compact THEN Threads ELSE Indices -> {0, 1}]
      BY <2>1 DEF UserTypeOK
    <2> QED
      BY <1>1, <2>1, <2>2 DEF UserTypeOK, Compact
  <1>3. CASE Follow(p)
    BY <1>1, <1>3 DEF UserTypeOK, Follow, Compact
  <1>4. CASE Code(p)
    <2>1. succ(i[p]) \in Indices \cup {Done}
      BY <1>1, Succ DEF UserTypeOK
    <2>2. /\ i' = [i EXCEPT ![p] = succ(i[p])]
          /\ at' = [at EXCEPT ![p] = "barrier"]
          /\ b' = b
      BY <1>4 DEF Code
    <2> QED
      BY <1>1, <2>1, <2>2 DEF UserTypeOK, Compact
  <1> QED
    BY <1>1, <1>2, <1>3, <1>4

(* An index once passed stays passed.                                      *)
LEMMA StaysPassed ==
  ASSUME UserTypeOK, NEW p \in Threads, Lead(p) \/ Follow(p) \/ Code(p),
         NEW q \in Threads, NEW k \in Indices, HasPassed(q, k)
  PROVE  HasPassed(q, k)'
  <1>1. mode \in Modes /\ mode' = mode /\ i[p] \in Indices
    BY StepType DEF UserTypeOK
  <1>2. \A l : before(k, l)' <=> before(k, l)
    BY <1>1 DEF before, segment, Stride
  <1>3. CASE Lead(p) \/ Follow(p)
    <2>1. i' = i /\ at' = [at EXCEPT ![p] = "code"]
      BY <1>3 DEF Lead, Follow
    <2>2. before(k, i[q])' <=> before(k, i[q])
      BY <1>1, <2>1 DEF before, segment, Stride
    <2> QED
      BY <2>1, <2>2 DEF HasPassed, UserTypeOK
  <1>4. CASE Code(p)
    <2>1. /\ i' = [i EXCEPT ![p] = succ(i[p])]
          /\ at' = [at EXCEPT ![p] = "barrier"]
          /\ at[p] = "code"
      BY <1>4 DEF Code
    <2>2. CASE q = p
      <3>1. i'[q] = succ(i[p])
        BY <2>1, <2>2 DEF UserTypeOK
      <3>2. succ(i[p]) = Done \/ (succ(i[p]) \in Indices /\ before(i[p], succ(i[p])))
        BY <1>1, Succ
      <3>3. before(k, i[p]) \/ k = i[p]
        BY <1>1, <2>2, SizeAssumption DEF HasPassed, Indices, Done
      <3>4. succ(i[p]) = Done \/ before(k, succ(i[p]))
        BY <1>1, <3>2, <3>3, BeforeTransitive
      <3>5. before(k, i[q])' <=> before(k, succ(i[p]))
        BY <1>1, <3>1 DEF before, segment, Stride
      <3> QED
        BY <3>1, <3>4, <3>5 DEF HasPassed
    <2>3. CASE q # p
      <3>1. i'[q] = i[q] /\ at'[q] = at[q]
        BY <2>1, <2>3 DEF UserTypeOK
      <3>2. before(k, i[q])' <=> before(k, i[q])
        BY <1>1, <3>1 DEF before, segment, Stride
      <3> QED
        BY <3>1, <3>2 DEF HasPassed
    <2> QED
      BY <2>2, <2>3
  <1> QED
    BY <1>3, <1>4

PassedAt == \A q \in Threads, k \in Indices :
  HasPassed(q, k) <=> (i[q] < k \/ (i[q] = k /\ at[q] = "code"))

LEMMA PassedOneAll == UserTypeOK /\ Stride = 1 => PassedAt
  BY PassedOne DEF PassedAt

LEMMA PassedOneNext ==
  ASSUME UserTypeOK', Stride' = 1, NEW q \in Threads, NEW k \in Indices
  PROVE  HasPassed(q, k)' <=> (i'[q] < k \/ (i'[q] = k /\ at'[q] = "code"))
  <1>1. (UserTypeOK /\ Stride = 1 => PassedAt)'
    BY PassedOneAll, PTL
  <1> QED
    BY <1>1 DEF PassedAt

(* A thread passes an index at the barrier ...                             *)
LEMMA PassStep ==
  ASSUME UserTypeOK, Stride = 1, NEW p \in Threads, Lead(p) \/ Follow(p),
         NEW q \in Threads, NEW k \in Indices
  PROVE  HasPassed(q, k)' <=> (HasPassed(q, k) \/ (q = p /\ k = i[p]))
  <1>1. UserTypeOK' /\ mode' = mode /\ i[p] \in Indices
    BY StepType
  <1>2. Stride' = 1
    BY <1>1 DEF Stride
  <1>3. HasPassed(q, k)' <=> (i'[q] < k \/ (i'[q] = k /\ at'[q] = "code"))
    BY <1>1, <1>2, PassedOneNext
  <1>4. HasPassed(q, k) <=> (i[q] < k \/ (i[q] = k /\ at[q] = "code"))
    BY PassedOne
  <1>5. i' = i /\ at' = [at EXCEPT ![p] = "code"] /\ at[p] = "barrier"
    BY DEF Lead, Follow
  <1> QED
    BY <1>3, <1>4, <1>5 DEF UserTypeOK

(* ... and not when it goes to the next one.                               *)
LEMMA CodeStep ==
  ASSUME UserTypeOK, Stride = 1, NEW p \in Threads, Code(p),
         NEW q \in Threads, NEW k \in Indices
  PROVE  HasPassed(q, k)' <=> HasPassed(q, k)
  <1>1. UserTypeOK' /\ mode' = mode /\ i[p] \in Indices
    BY StepType
  <1>2. Stride' = 1
    BY <1>1 DEF Stride
  <1>3. HasPassed(q, k)' <=> (i'[q] < k \/ (i'[q] = k /\ at'[q] = "code"))
    BY <1>1, <1>2, PassedOneNext
  <1>4. HasPassed(q, k) <=> (i[q] < k \/ (i[q] = k /\ at[q] = "code"))
    BY PassedOne
  <1>5. succ(i[p]) = i[p] - 1
    BY <1>1, OneSegment DEF UserTypeOK
  <1>6. /\ i' = [i EXCEPT ![p] = i[p] - 1]
        /\ at' = [at EXCEPT ![p] = "barrier"]
        /\ at[p] = "code"
    BY <1>5 DEF Code
  <1>7. CASE q = p
    BY <1>1, <1>3, <1>4, <1>6, <1>7, SizeAssumption DEF UserTypeOK, Indices
  <1>8. CASE q # p
    BY <1>3, <1>4, <1>6, <1>8 DEF UserTypeOK
  <1> QED
    BY <1>7, <1>8

-----------------------------------------------------------------------------
(* The inductive invariant.                                                *)

LEMMA UserInitInv == UserInit => UserInv
  <1> SUFFICES ASSUME UserInit PROVE UserInv
    OBVIOUS
  <1>1. mode \in Modes /\ Stride \in 1..Size /\ Size \in Nat \ {0} /\ N \in Nat \ {0}
    BY StrideType, SizeAssumption, NAssumption DEF UserInit
  <1>2. UserTypeOK
    BY <1>1 DEF UserTypeOK, UserInit, reinit, first, Indices, Done
  <1>3. Raised
    BY DEF Raised, UserInit, reinit
  <1>4. ASSUME Stride = 1, NEW q \in Threads, NEW k \in Indices
        PROVE  ~HasPassed(q, k)
    BY <1>1, <1>2, <1>4, PassedOne DEF UserInit, first, Indices
  <1>5. Reversed
    <2> SUFFICES ASSUME Compact, Stride = 1, NEW o \in Threads, NEW k \in Indices,
                        NextUse(o, k)
                 PROVE  b[o] # free(k)
      BY DEF Reversed
    <2>1. leader(k) = o /\ k \in 0..(Size-1)
      BY DEF NextUse, Indices
    <2>2. k + N >= Size
      <3>1. CASE k + N \in Indices
        BY <3>1, <1>4 DEF NextUse
      <3>2. CASE k + N \notin Indices
        BY <1>1, <2>1, <3>2 DEF Indices
      <3> QED
        BY <3>1, <3>2
    <2>3. PICK m \in Int, r \in 0..(N-1) : k = N * m + r /\ r = k % N
      BY <2>1, ByN
    <2>4. r = o
      BY <2>1, <2>3 DEF leader
    <2>5. PICK d \in 0..(N-1) : d = Size - 1 - k
      BY <1>1, <2>1, <2>2
    <2>6. Size - o - 1 = N * m + d
      BY <1>1, <2>1, <2>3, <2>4, <2>5
    <2>7. (N * m + d) % (2 * N) < N <=> m % 2 = 0
      BY Half
    <2>8. (N * m + r) % (2 * N) < N <=> m % 2 = 0
      BY Half
    <2>9. (Size - o - 1) % (2 * N) < N <=> k % (2 * N) < N
      BY <2>3, <2>6, <2>7, <2>8
    <2> QED
      BY <2>9 DEF UserInit, reinit, free
  <1>6. Order
    BY <1>4 DEF Order
  <1>7. LeaderFirst
    BY DEF UserInit, LeaderFirst
  <1> QED
    BY <1>2, <1>3, <1>5, <1>6, <1>7 DEF UserInv

(* A follower sees the flag of its index raised only by the leader of that *)
(* index: in user2, if the leader had not come yet, the flag would still   *)
(* be as the previous use left it, since the follower has itself passed    *)
(* the index of that use, after the same leader.                           *)
LEMMA FlagSeen ==
  ASSUME UserInv, Works, NEW p \in Threads, Follow(p)
  PROVE  HasPassed(leader(i[p]), i[p])
  <1> DEFINE x == i[p]
  <1>1. /\ UserTypeOK /\ x \in Indices /\ at[p] = "barrier"
        /\ b[cell(x)] = free(x)
    BY StepType DEF UserInv, Follow
  <1>2. x \in Int /\ x \in Nat /\ leader(x) \in Threads /\ N \in Nat \ {0}
    BY <1>1, LeaderType, SizeAssumption, NAssumption DEF Indices
  <1>3. CASE ~Compact
    BY <1>1, <1>3 DEF UserInv, Raised, cell, free
  <1>4. CASE Compact
    <2>1. Stride = 1 /\ b[leader(x)] = free(x)
      BY <1>1, <1>4 DEF Works, cell, leader
    <2>2. ~NextUse(leader(x), x)
      BY <1>1, <1>2, <1>4, <2>1 DEF UserInv, Reversed
    <2>3. ASSUME ~(x + N >= Size) PROVE HasPassed(leader(x), x + N)
      <3>1. x + N \in Indices /\ x < x + N
        BY <1>1, <1>2, <2>3, SizeAssumption DEF Indices
      <3>2. HasPassed(p, x + N)
        BY <1>1, <2>1, <3>1, PassedOne
      <3>3. HasPassed(leader(x + N), x + N)
        BY <2>1, <3>1, <3>2 DEF UserInv, Order
      <3> QED
        BY <1>2, <1>4, <3>3, NextFree
    <2> QED
      BY <2>2, <2>3 DEF NextUse
  <1> QED
    BY <1>3, <1>4

(* The next use of the flag of another thread is not affected by a step,   *)
(* nor is that of a follower.                                              *)
LEMMA NextUseKept ==
  ASSUME UserTypeOK, Compact, Stride = 1,
         NEW p \in Threads, Lead(p) \/ Follow(p) \/ Code(p),
         NEW o \in Threads, NEW k \in Indices, NextUse(o, k)',
         o # p \/ Follow(p) \/ Code(p)
  PROVE  NextUse(o, k)
  <1>1. /\ leader(k) = o /\ ~HasPassed(o, k)'
        /\ k + N >= Size \/ HasPassed(o, k + N)'
        /\ i[p] \in Indices
    BY StepType DEF NextUse, leader
  <1>2. ~HasPassed(o, k)
    BY <1>1, StaysPassed
  <1>3. ASSUME ~(k + N >= Size), HasPassed(o, k + N)'
        PROVE  HasPassed(o, k + N)
    <2>1. k + N \in Indices /\ k \in Nat
      BY <1>3, NAssumption, SizeAssumption DEF Indices
    <2>2. CASE Code(p)
      BY <1>3, <2>1, <2>2, CodeStep
    <2>3. CASE Lead(p) \/ Follow(p)
      <3>1. leader(k + N) = o
        BY <1>1, <2>1, NextFree
      <3>2. ~(o = p /\ k + N = i[p])
        BY <3>1, <2>3 DEF Follow, Lead, Code
      <3> QED
        BY <1>3, <2>1, <2>3, <3>2, PassStep
    <2> QED
      BY <2>2, <2>3
  <1> QED
    BY <1>1, <1>2, <1>3 DEF NextUse

LEMMA ReversedStep ==
  ASSUME UserInv, NEW p \in Threads, Lead(p) \/ Follow(p) \/ Code(p)
  PROVE  Reversed'
  <1>1. UserTypeOK /\ UserTypeOK' /\ mode' = mode /\ i[p] \in Indices
    BY StepType DEF UserInv
  <1> SUFFICES ASSUME Compact, Stride = 1, NEW o \in Threads, NEW k \in Indices,
                      NextUse(o, k)'
               PROVE  b'[o] # free(k)
    BY <1>1 DEF Reversed, Compact, Stride, free
  <1>2. CASE Follow(p) \/ Code(p)
    <2>1. NextUse(o, k)
      BY <1>1, <1>2, NextUseKept
    <2> QED
      BY <1>2, <2>1 DEF UserInv, Reversed, Follow, Code
  <1>3. CASE Lead(p) /\ o # p
    <2>1. NextUse(o, k)
      BY <1>1, <1>3, NextUseKept
    <2>2. b' = [b EXCEPT ![p] = free(i[p])]
      BY <1>3 DEF Lead, cell, leader
    <2>3. b'[o] = b[o]
      BY <1>1, <1>3, <2>2 DEF UserTypeOK
    <2> QED
      BY <2>1, <2>3 DEF UserInv, Reversed
  <1>4. CASE Lead(p) /\ o = p
    <2> DEFINE x == i[p]
    <2>1. b' = [b EXCEPT ![p] = free(x)] /\ leader(x) = p /\ at[p] = "barrier"
      BY <1>4 DEF Lead, cell, leader
    <2>2. b'[o] = free(x)
      BY <1>1, <1>4, <2>1 DEF UserTypeOK
    <2>3. k \in Nat /\ x \in Nat /\ N \in Nat \ {0} /\ Size \in Nat /\ k < Size /\ x < Size
      BY <1>1, NAssumption, SizeAssumption DEF Indices
    <2>4. /\ leader(k) = p /\ ~HasPassed(p, k)'
          /\ k + N >= Size \/ HasPassed(p, k + N)'
      BY <1>4 DEF NextUse, leader
    <2>5. \A l \in Indices : HasPassed(p, l)' <=> x <= l
      <3> SUFFICES ASSUME NEW l \in Indices PROVE HasPassed(p, l)' <=> x <= l
        OBVIOUS
      <3>1. HasPassed(p, l)' <=> (HasPassed(p, l) \/ l = x)
        BY <1>1, <1>4, PassStep
      <3>2. HasPassed(p, l) <=> x < l
        BY <1>1, <2>1, PassedOne
      <3>3. l \in Int /\ x \in Int
        BY <1>1, SizeAssumption DEF Indices
      <3> QED
        BY <3>1, <3>2, <3>3
    <2>6. k < x
      BY <2>3, <2>4, <2>5
    <2>7. k + N <= x
      BY <2>1, <2>3, <2>4, <2>6, Apart
    <2>8. k + N \in Indices
      BY <2>3, <2>7 DEF Indices
    <2>9. x = k + N
      BY <2>3, <2>4, <2>5, <2>7, <2>8 DEF Indices
    <2> QED
      BY <2>2, <2>3, <2>9, NextFree
  <1> QED
    BY <1>2, <1>3, <1>4

LEMMA UserNextInv == UserInv /\ [UserNext]_uvars => UserInv'
  <1> SUFFICES ASSUME UserInv, [UserNext]_uvars PROVE UserInv'
    OBVIOUS
  <1>1. ASSUME NEW p \in Threads, Lead(p) \/ Follow(p) \/ Code(p) PROVE UserInv'
    <2>1. UserTypeOK /\ UserTypeOK' /\ mode' = mode /\ i[p] \in Indices
      BY <1>1, StepType DEF UserInv
    <2>2. Compact' = Compact /\ Stride' = Stride /\ Works' = Works
      BY <2>1 DEF Compact, Stride, Works
    <2>3. ASSUME NEW q \in Threads, NEW k \in Indices, HasPassed(q, k)
          PROVE  HasPassed(q, k)'
      BY <1>1, <2>1, <2>3, StaysPassed
    <2>4. ASSUME Lead(p) \/ (Follow(p) /\ Works)
          PROVE  HasPassed(leader(i[p]), i[p])' /\ i' = i
      <3>1. i' = i /\ at'[p] = "code"
        BY <2>1, <2>4 DEF Lead, Follow, UserTypeOK
      <3>2. CASE Lead(p)
        BY <3>1, <3>2 DEF Lead, HasPassed, leader
      <3>3. CASE Follow(p) /\ Works
        <4>1. HasPassed(leader(i[p]), i[p])
          BY <3>3, FlagSeen
        <4>2. PICK k \in Indices : k = i[p]
          BY <2>1
        <4>3. leader(k) \in Threads
          BY LeaderType, SizeAssumption DEF Indices
        <4>4. HasPassed(leader(k), k)'
          BY <4>1, <4>2, <4>3, <2>3
        <4>5. k = i'[p]
          BY <3>1, <4>2
        <4> QED
          BY <3>1, <4>4, <4>5
      <3> QED
        BY <2>4, <3>2, <3>3
    <2>5. Raised'
      <3> SUFFICES ASSUME ~Compact, NEW k \in Indices, b'[k] = 1
                   PROVE  HasPassed(leader(k), k)'
        BY <2>2 DEF Raised, leader
      <3>1. leader(k) \in Threads
        BY LeaderType, SizeAssumption DEF Indices
      <3>2. CASE b[k] = 1
        BY <3>1, <3>2, <2>3 DEF UserInv, Raised
      <3>3. CASE b[k] # 1
        <4>1. Lead(p) /\ i[p] = k
          BY <1>1, <2>1, <3>3 DEF Lead, Follow, Code, cell, UserTypeOK
        <4> QED
          BY <4>1, <2>4
      <3> QED
        BY <3>2, <3>3
    <2>6. Reversed'
      BY <1>1, ReversedStep
    <2>7. Order'
      <3> SUFFICES ASSUME Stride = 1, NEW q \in Threads, NEW k \in Indices,
                          HasPassed(q, k)'
                   PROVE  HasPassed(leader(k), k)'
        BY <2>2 DEF Order, leader
      <3>1. leader(k) \in Threads
        BY LeaderType, SizeAssumption DEF Indices
      <3>2. CASE HasPassed(q, k)
        BY <3>1, <3>2, <2>3 DEF UserInv, Order
      <3>3. CASE ~HasPassed(q, k)
        <4>1. ~Code(p)
          BY <2>1, <3>3, CodeStep
        <4>2. q = p /\ k = i[p]
          BY <1>1, <2>1, <3>3, <4>1, PassStep
        <4> QED
          BY <1>1, <2>4, <4>1, <4>2 DEF Works
      <3> QED
        BY <3>2, <3>3
    <2>8. Works => LeaderFirst'
      <3> SUFFICES ASSUME Works, NEW q \in Threads, at'[q] = "code"
                   PROVE  HasPassed(leader(i[q]), i[q])'
        BY DEF LeaderFirst
      <3>1. CASE q = p
        <4>1. ~Code(p)
          BY <2>1, <3>1 DEF Code, UserTypeOK
        <4> QED
          BY <1>1, <2>4, <3>1, <4>1
      <3>2. CASE q # p
        <4>1. i'[q] = i[q] /\ at[q] = "code"
          BY <1>1, <2>1, <3>2 DEF Lead, Follow, Code, UserTypeOK
        <4>2. PICK k \in Indices : k = i[q]
          BY <2>1, <4>1 DEF UserTypeOK
        <4>3. leader(k) \in Threads
          BY LeaderType, SizeAssumption DEF Indices
        <4>4. HasPassed(leader(k), k)'
          BY <2>3, <4>1, <4>2, <4>3 DEF UserInv, LeaderFirst
        <4> QED
          BY <4>1, <4>2, <4>4
      <3> QED
        BY <3>1, <3>2
    <2> QED
      BY <2>1, <2>2, <2>5, <2>6, <2>7, <2>8 DEF UserInv
  <1>2. CASE UNCHANGED uvars
    BY <1>2 DEF uvars, UserInv, UserTypeOK, Raised, Reversed, Order, Works, LeaderFirst,
       NextUse, HasPassed, before, segment, Compact, Stride, free, leader
  <1> QED
    BY <1>1, <1>2 DEF UserNext

(* The leader of an index has passed it when anyone has, and a flag of     *)
(* user2 is always opposite to what its next use waits for.                *)
THEOREM UserBarrierInvariant == UserSpec => []UserInv
  BY UserInitInv, UserNextInv, PTL DEF UserSpec

(* No thread runs the code of an index before its leader has reached it:   *)
(* in user for any stride, in user2 for a scan without strides.            *)
THEOREM LeadersFirst ==
  ASSUME \A m \in Modes : m.compact => m.stride = 1
  PROVE  UserSpec => []LeaderFirst
  <1>1. UserInv => LeaderFirst
    BY DEF UserInv, UserTypeOK, Works, Compact, Stride
  <1> QED
    BY <1>1, UserBarrierInvariant, PTL

(* Nobody runs away: when a thread runs an index of a scan without         *)
(* strides, every thread has passed the indices N or more before, because  *)
(* one of the N indices in between was led by it.                          *)
THEOREM SkewBounded == UserSpec => []BoundedSkew
  <1>1. UserInv => BoundedSkew
    <2> SUFFICES ASSUME UserInv, Stride = 1, NEW p \in Threads, NEW q \in Threads,
                        NEW k \in Indices, at[p] = "code", i[p] + N <= k
                 PROVE  HasPassed(q, k)
      BY DEF BoundedSkew
    <2>1. UserTypeOK /\ i[p] \in Indices
      BY DEF UserInv, UserTypeOK
    <2>2. PICK x \in Int : x = i[p] /\ x >= 0
      BY <2>1, SizeAssumption DEF Indices
    <2>3. N \in Nat \ {0} /\ q \in 0..(N-1) /\ k \in Nat /\ Size \in Nat /\ k < Size
      BY NAssumption, SizeAssumption DEF Threads, Indices
    <2>4. PICK d \in Int, r \in 0..(N-1) : q - x - 1 = N * d + r
      <3>1. q - x - 1 \in Int
        BY <2>3
      <3> QED
        BY <3>1, ByN
    <2>5. PICK y \in Int : y = x + 1 + r
      BY <2>3
    <2>6. x < y /\ y <= x + N /\ y <= k /\ y \in Indices
      BY <2>2, <2>3, <2>5 DEF Indices
    <2>7. leader(y) = q
      <3>1. y = N * (-d) + q /\ -d \in Int
        BY <2>3, <2>4, <2>5
      <3>2. (N * (-d) + q) % N = q
        BY <2>3, <3>1, ModOf
      <3> QED
        BY <3>1, <3>2 DEF leader
    <2>8. HasPassed(p, y)
      BY <2>1, <2>2, <2>6, PassedOne
    <2>9. HasPassed(q, y)
      BY <2>6, <2>7, <2>8 DEF UserInv, Order
    <2>10. i[q] < y \/ (i[q] = y /\ at[q] = "code")
      BY <2>1, <2>6, <2>9, PassedOne
    <2>11. i[q] \in Int
      BY <2>1, SizeAssumption DEF UserTypeOK, Indices, Done
    <2>12. i[q] < k \/ (i[q] = k /\ at[q] = "code")
      BY <2>3, <2>6, <2>10, <2>11
    <2> QED
      BY <2>1, <2>12, PassedOne
  <1> QED
    BY <1>1, UserBarrierInvariant, PTL

=============================================================================
