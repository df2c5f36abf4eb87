-------------------------- MODULE StabilizeProofs --------------------------
(***************************************************************************)
(* For any number of threads and of stores: check_globals sees the initial *)
(* values, po_wait gives all its callers the or of their arguments, and    *)
(* stabilize_globals returns only when all have copied the final value.    *)
(***************************************************************************)
EXTENDS Stabilize, FiniteSetTheorems, WellFoundedInduction, TLAPS

TypeOK == /\ writer \in [Stores -> Threads] /\ value \in [Stores -> Values]
          /\ known \in [Threads -> SUBSET Stores]
          /\ fstRound \in [Threads -> 0..2] /\ fstInside \subseteq Threads
          /\ count \in Int /\ turn \in {0, 1} /\ val \in BOOLEAN
          /\ pc \in [Threads -> {"check", "sync1", "test", "sync2", "copy", "reinit",
                                 "reinit_sleep", "compare", "wait", "wait_sleep",
                                 "returned"}]
          /\ t \in [Threads -> {0, 1}]
          /\ cpy \in [Threads -> Values]
          /\ found \in [Threads -> BOOLEAN]

-----------------------------------------------------------------------------
(* The two calls of pb_wait(fst_barrier).                                  *)

Checking == {"check", "sync1"}
Testing == {"test", "sync2"}

(* The calls that a thread has completed, and whether it is in one.        *)
FstControl == \A p \in Threads :
  /\ fstRound[p] = IF pc[p] \in Checking THEN 0
                   ELSE IF pc[p] \in Testing THEN 1 ELSE 2
  /\ p \in fstInside <=> pc[p] \in {"sync1", "sync2"}

(* A thread that has passed a call has left nobody before it.              *)
FstPassed == \A p, q \in Threads :
  /\ pc[p] \notin Checking => pc[q] # "check"
  /\ pc[p] \notin Checking \cup Testing => pc[q] \notin Checking \cup {"test"}

(* Stores are made once all have checked, each by its writer.              *)
Knowledge == \A p \in Threads :
  /\ known[p] # {} => \A q \in Threads : pc[q] # "check"
  /\ pc[p] \notin Checking \cup {"test"} => {w \in Stores : writer[w] = p} \subseteq known[p]

FstInv == FstControl /\ FstPassed /\ Knowledge

-----------------------------------------------------------------------------
(* The two calls of the loop of stabilize_globals on the or-flag.          *)

sleeping(p) == pc[p] \in {"reinit_sleep", "wait_sleep"} /\ t[p] = turn
Sleeping == {p \in Threads : sleeping(p)}
Disagree(p) == cpy[p] # cpy[(p + 1) % N]

(* All come to po_reinit, some of them still from the last po_wait.        *)
Collecting == \A p \in Threads :
  /\ pc[p] \in Checking \cup Testing \cup {"copy", "reinit", "reinit_sleep", "wait_sleep"}
  /\ pc[p] = "reinit_sleep" => t[p] = turn
  /\ pc[p] = "wait_sleep" => t[p] # turn /\ val /\ \E q \in Threads : found[q]

(* All come to po_wait, some of them still from po_reinit.                 *)
Comparing ==
  /\ \A p \in Threads :
       /\ pc[p] \in {"reinit_sleep", "compare", "wait", "wait_sleep"}
       /\ pc[p] = "reinit_sleep" => t[p] # turn
       /\ pc[p] = "wait_sleep" => t[p] = turn
       /\ pc[p] \in {"wait", "wait_sleep"} => (found[p] <=> Disagree(p))
  /\ val <=> \E q \in Threads : pc[q] = "wait_sleep" /\ found[q]

(* All leave.                                                              *)
Leaving == /\ ~val
           /\ \A p \in Threads : /\ pc[p] \in {"wait_sleep", "returned"}
                                 /\ pc[p] = "wait_sleep" => t[p] # turn
                                 /\ ~found[p] /\ ~Disagree(p)

(* The writer of the last store has copied its value.                      *)
WriterCopy == \A p \in Threads :
  /\ pc[p] \notin Checking \cup Testing \cup {"copy"}
  /\ Stores = {} \/ writer[Writes] = p
  => cpy[p] = FinalValue

OrInv == /\ count = N - Cardinality(Sleeping)
         /\ Collecting \/ Comparing \/ Leaving
         /\ WriterCopy

(* The inductive invariant.                                                *)
IInv == TypeOK /\ FstInv /\ OrInv

-----------------------------------------------------------------------------

LEMMA InitFst == Init => TypeOK /\ FstInv
  <1> SUFFICES ASSUME Init PROVE TypeOK /\ FstInv
    OBVIOUS
  <1> USE NAssumption, InitialAssumption DEF Init, po_create, fst_barrier!Init
  <1>1. val \in BOOLEAN /\ found \in [Threads -> BOOLEAN]
    BY Zenon
  <1>2. TypeOK
    BY <1>1 DEF TypeOK
  <1>3. FstInv
    BY DEF FstInv, FstControl, FstPassed, Knowledge, Checking, Testing
  <1> QED
    BY <1>2, <1>3

(* The steps that neither call pb_wait nor learn of a store.               *)
LEMMA LoopFst ==
  ASSUME TypeOK, FstInv, NEW p \in Threads, NEW l,
         pc[p] \notin Checking \cup Testing, l \notin Checking \cup Testing,
         pc' = [pc EXCEPT ![p] = l], UNCHANGED <<mem, known, fst>>
  PROVE  FstInv'
  <1> USE DEF TypeOK, FstInv, mem, fst, Checking, Testing
  <1>1. FstControl'
    BY DEF FstControl
  <1>2. FstPassed'
    BY DEF FstPassed
  <1>3. Knowledge'
    BY DEF Knowledge
  <1> QED
    BY <1>1, <1>2, <1>3

LEMMA PropagateInv ==
  ASSUME TypeOK, FstInv, NEW p \in Threads, Propagate(p)
  PROVE  TypeOK' /\ FstInv'
  <1> USE DEF TypeOK, FstInv, mem, fst, s_or
  <1>1. PICK w \in Made \ known[p] : known' = [known EXCEPT ![p] = known[p] \cup {w}]
    BY DEF Propagate
  <1>2. UNCHANGED <<mem, fst, s_or, pc, t, cpy, found>>
    BY DEF Propagate
  <1>3. PICK q \in Threads : w \in known[q]
    BY <1>1 DEF Made
  <1>4. TypeOK'
    BY <1>1, <1>2, <1>3
  <1>5. FstControl' /\ FstPassed'
    BY <1>2 DEF FstControl, FstPassed
  <1>6. Knowledge'
    BY <1>1, <1>2, <1>3 DEF Knowledge
  <1> QED
    BY <1>4, <1>5, <1>6

LEMMA CheckFst ==
  ASSUME TypeOK, FstInv, NEW p \in Threads, check_globals(p)
  PROVE  FstInv'
  <1> USE DEF TypeOK, FstInv, mem, Checking, Testing
  <1>1. /\ pc[p] = "check" /\ pc' = [pc EXCEPT ![p] = "sync1"]
        /\ fstInside' = fstInside \cup {p} /\ UNCHANGED <<fstRound, mem, known>>
    BY DEF check_globals, fst_barrier!Arrive, goto
  <1>2. FstControl'
    BY <1>1 DEF FstControl
  <1>3. FstPassed'
    BY <1>1 DEF FstPassed
  <1>4. Knowledge'
    BY <1>1 DEF Knowledge
  <1> QED
    BY <1>2, <1>3, <1>4

LEMMA RunTestFst ==
  ASSUME TypeOK, FstInv, NEW p \in Threads, RunTest(p)
  PROVE  FstInv' /\ known' \in [Threads -> SUBSET Stores]
  <1> USE DEF TypeOK, FstInv, mem, Checking, Testing
  <1>1. /\ pc[p] = "test" /\ pc' = [pc EXCEPT ![p] = "sync2"]
        /\ known' = [known EXCEPT ![p] = known[p] \cup {w \in Stores : writer[w] = p}]
        /\ fstInside' = fstInside \cup {p} /\ UNCHANGED <<fstRound, mem>>
    BY DEF RunTest, fst_barrier!Arrive, goto
  <1>2. FstControl'
    BY <1>1 DEF FstControl
  <1>3. FstPassed'
    BY <1>1 DEF FstPassed
  <1>4. Knowledge'
    BY <1>1 DEF Knowledge, FstPassed
  <1> QED
    BY <1>1, <1>2, <1>3, <1>4

LEMMA LeaveFstFst ==
  ASSUME TypeOK, FstInv, NEW p \in Threads, LeaveFst(p)
  PROVE  FstInv' /\ fstRound' \in [Threads -> 0..2] /\ fstInside' \subseteq Threads
  <1> USE DEF TypeOK, FstInv, mem, Checking, Testing
  <1>1. /\ pc[p] \in {"sync1", "sync2"}
        /\ pc' = [pc EXCEPT ![p] = IF pc[p] = "sync1" THEN "test" ELSE "copy"]
        /\ fstInside' = fstInside \ {p} /\ UNCHANGED <<mem, known>>
        /\ fstRound' = [fstRound EXCEPT ![p] = fstRound[p] + 1]
        /\ \A q \in Threads : \/ fstRound[q] > fstRound[p]
                              \/ fstRound[q] = fstRound[p] /\ q \in fstInside
    BY DEF LeaveFst, fst_barrier!Leave, fst_barrier!HasArrived, goto
  <1>2. FstControl' /\ fstRound' \in [Threads -> 0..2] /\ fstInside' \subseteq Threads
    BY <1>1 DEF FstControl
  <1>3. FstPassed'
    BY <1>1 DEF FstPassed, FstControl
  <1>4. Knowledge'
    BY <1>1 DEF Knowledge
  <1> QED
    BY <1>2, <1>3, <1>4

-----------------------------------------------------------------------------

(* The sets of threads are counted.                                        *)
LEMMA CountThreads ==
  ASSUME NEW S \in SUBSET Threads
  PROVE  /\ IsFiniteSet(S) /\ Cardinality(S) \in Nat
         /\ Cardinality(Threads) = N
         /\ Cardinality(S) = N => S = Threads
  <1>1. IsFiniteSet(Threads) /\ Cardinality(Threads) = N
    BY NAssumption, FS_Interval DEF Threads
  <1>2. IsFiniteSet(S) /\ (Cardinality(S) = Cardinality(Threads) => S = Threads)
    BY <1>1, FS_Subset
  <1> QED
    BY <1>1, <1>2, FS_CardinalityType

(* p counts down: it sleeps, or all the others sleep and are released.     *)
LEMMA CountDownEffect ==
  ASSUME TypeOK, count = N - Cardinality(Sleeping), NEW p \in Threads,
         pc[p] \in {"reinit", "wait"}, NEW l \in {"reinit_sleep", "wait_sleep"}, NEW next,
         next \notin {"reinit_sleep", "wait_sleep"}, CountDown(p, l, next)
  PROVE  /\ count' = N - Cardinality(Sleeping')
         /\ count' \in Int /\ turn' \in {0, 1} /\ t' \in [Threads -> {0, 1}]
         /\ \A q \in Threads : q # p => t'[q] = t[q]
         /\ \/ /\ count # 1 /\ turn' = turn /\ t'[p] = turn
               /\ pc' = [pc EXCEPT ![p] = l]
            \/ /\ count = 1 /\ turn' # turn
               /\ pc' = [pc EXCEPT ![p] = next]
               /\ \A q \in Threads : q # p => sleeping(q) /\ t'[q] # turn'
  <1> USE DEF TypeOK
  <1>1. p \notin Sleeping /\ Sleeping \in SUBSET Threads
    BY DEF Sleeping, sleeping
  <1>2. Cardinality(Sleeping \cup {p}) = Cardinality(Sleeping) + 1
    BY <1>1, CountThreads, FS_AddElement
  <1>3. N \in Nat /\ Cardinality(Sleeping) \in Nat
    BY <1>1, CountThreads, NAssumption
  <1>4. t' = [t EXCEPT ![p] = turn]
    BY DEF CountDown
  <1>5. t' \in [Threads -> {0, 1}] /\ t'[p] = turn /\ \A q \in Threads : q # p => t'[q] = t[q]
    BY <1>4
  <1>6. CASE /\ count # 1 /\ count' = count - 1 /\ turn' = turn
             /\ pc' = [pc EXCEPT ![p] = l]
    <2>1. Sleeping' = Sleeping \cup {p}
      BY <1>5, <1>6 DEF Sleeping, sleeping
    <2>2. count' = N - Cardinality(Sleeping')
      BY <1>2, <1>3, <1>6, <2>1
    <2> QED
      BY <1>5, <1>6, <2>2
  <1>7. CASE /\ count = 1 /\ count' = N /\ turn' = 1 - turn
             /\ pc' = [pc EXCEPT ![p] = next]
    <2>1. Sleeping \cup {p} = Threads
      <3>1. Cardinality(Sleeping \cup {p}) = N
        BY <1>2, <1>3, <1>7
      <3> QED
        BY <1>1, <3>1, CountThreads
    <2>2. \A q \in Threads : q # p => sleeping(q)
      BY <2>1 DEF Sleeping
    <2>3. turn' # turn /\ turn' \in {0, 1}
      BY <1>7
    <2>4. \A q \in Threads : q # p => sleeping(q) /\ t'[q] # turn'
      BY <1>5, <2>2, <2>3 DEF sleeping
    <2>5. Sleeping' = {}
      BY <1>7, <2>4 DEF Sleeping, sleeping
    <2>6. count' = N - Cardinality(Sleeping')
      BY <1>3, <1>7, <2>5, FS_EmptySet
    <2> QED
      BY <1>3, <1>5, <1>7, <2>3, <2>4, <2>6
  <1> QED
    BY <1>6, <1>7 DEF CountDown, goto

(* A thread that does not sleep moves on: the count is right.              *)
LEMMA SameSleepers ==
  ASSUME TypeOK, NEW p \in Threads, ~sleeping(p), NEW l,
         l \notin {"reinit_sleep", "wait_sleep"},
         pc' = [pc EXCEPT ![p] = l], UNCHANGED <<count, turn, t>>,
         count = N - Cardinality(Sleeping)
  PROVE  count' = N - Cardinality(Sleeping')
  <1>1. Sleeping' = Sleeping
    BY DEF TypeOK, Sleeping, sleeping
  <1> QED
    BY <1>1

(* A set of natural numbers has a least element.                           *)
LEMMA LeastNat ==
  ASSUME NEW S \in SUBSET Nat, S # {}
  PROVE  \E m \in S : \A x \in S : m <= x
  <1>1. PICK m \in S : \A y \in S : <<y, m>> \notin OpToRel(<, Nat)
    BY WFMin, NatLessThanWellFounded, Zenon
  <1>2. \A y \in S : y < m => <<y, m>> \in OpToRel(<, Nat)
    BY SMT DEF OpToRel
  <1>3. \A y \in S : ~(y < m)
    BY <1>1, <1>2, Zenon
  <1> QED
    BY <1>3

(* last is the greatest element of a set of stores.                        *)
LEMMA LastStore ==
  ASSUME NEW S \in SUBSET Stores, S # {}
  PROVE  last(S) \in S /\ \A x \in S : x <= last(S)
  <1> DEFINE T == {n \in Nat : \E x \in S : n = Writes - x}
  <1>1. PICK x \in S : TRUE
    OBVIOUS
  <1>2. Writes - x \in T
    BY WritesAssumption DEF Stores
  <1>3. PICK m \in T : \A n \in T : m <= n
    <2>1. T \in SUBSET Nat /\ T # {}
      BY <1>2
    <2> HIDE DEF T
    <2> QED
      BY <2>1, LeastNat
  <1>4. PICK w \in S : m = Writes - w
    OBVIOUS
  <1>5. ASSUME NEW y \in S PROVE y <= w
    <2>1. Writes - y \in T /\ y \in Int /\ w \in Int /\ Writes \in Int
      BY WritesAssumption DEF Stores
    <2>2. Writes - w <= Writes - y
      BY <1>3, <1>4, <2>1
    <2> QED
      BY <2>1, <2>2
  <1> QED
    BY <1>5 DEF last

(* What a thread that knows the last store sees.                           *)
LEMMA SeesFinal ==
  ASSUME NEW S \in SUBSET Stores, Stores = {} \/ Writes \in S
  PROVE  valueOf(S) = FinalValue
  <1>1. CASE Stores = {}
    BY <1>1 DEF FinalValue
  <1>2. CASE Stores # {}
    <2>1. Writes \in S /\ Writes \in Stores
      BY <1>2
    <2>2. \A w \in Stores : w \in Int /\ w <= Writes
      BY WritesAssumption DEF Stores
    <2>3. last(S) \in S /\ Writes <= last(S) /\ last(Stores) \in Stores /\ Writes <= last(Stores)
      BY <2>1, LastStore
    <2>4. last(S) = Writes /\ last(Stores) = Writes
      BY <2>2, <2>3
    <2> QED
      BY <2>1, <2>4 DEF FinalValue, valueOf
  <1> QED
    BY <1>1, <1>2

LEMMA SeesValue ==
  ASSUME TypeOK, NEW p \in Threads
  PROVE  Sees(p) \in Values
  <1>1. known[p] \in SUBSET Stores
    BY DEF TypeOK
  <1>2. CASE known[p] = {}
    BY <1>2, InitialAssumption DEF Sees, valueOf
  <1>3. CASE known[p] # {}
    <2>1. last(known[p]) \in Stores
      BY <1>1, <1>3, LastStore
    <2> QED
      BY <1>3, <2>1 DEF Sees, valueOf, TypeOK
  <1> QED
    BY <1>2, <1>3

-----------------------------------------------------------------------------

LEMMA InitOr == Init => OrInv
  <1> SUFFICES ASSUME Init PROVE OrInv
    OBVIOUS
  <1> USE DEF Init, po_create
  <1>1. Sleeping = {}
    BY DEF Sleeping, sleeping
  <1>2. count = N - Cardinality(Sleeping)
    BY <1>1, FS_EmptySet, NAssumption
  <1>3. Collecting
    BY DEF Collecting, Checking, Testing
  <1>4. WriterCopy
    BY DEF WriterCopy, Checking
  <1> QED
    BY <1>2, <1>3, <1>4 DEF OrInv

(* Outside the loop the flag is not used.                                  *)
LEMMA SyncOr ==
  ASSUME IInv, NEW p \in Threads, NEW l \in Checking \cup Testing \cup {"copy"},
         pc[p] \in Checking \cup Testing, pc' = [pc EXCEPT ![p] = l],
         UNCHANGED <<mem, s_or, t, cpy, found>>
  PROVE  OrInv'
  <1> USE DEF IInv, TypeOK, OrInv, s_or, mem
  <1>1. Collecting
    BY DEF Comparing, Leaving, Checking, Testing
  <1>2. count' = N - Cardinality(Sleeping')
    BY SameSleepers DEF sleeping, Checking, Testing
  <1>3. Collecting'
    BY <1>1 DEF Collecting, Checking, Testing
  <1>4. WriterCopy'
    BY DEF WriterCopy, FinalValue, valueOf, Checking, Testing
  <1> QED
    BY <1>2, <1>3, <1>4

LEMMA CopyOr ==
  ASSUME IInv, NEW p \in Threads, Copy(p)
  PROVE  OrInv' /\ TypeOK'
  <1> USE DEF IInv, OrInv
  <1>1. /\ pc[p] = "copy" /\ pc' = [pc EXCEPT ![p] = "reinit"]
        /\ cpy' = [cpy EXCEPT ![p] = Sees(p)]
        /\ UNCHANGED <<writer, value, known, fstRound, fstInside, count, turn, val, t, found>>
    BY DEF Copy, goto, mem, fst, s_or
  <1>2. TypeOK'
    BY <1>1, SeesValue DEF TypeOK
  <1>3. Collecting
    BY <1>1 DEF Comparing, Leaving
  <1>4. count' = N - Cardinality(Sleeping')
    BY <1>1, SameSleepers DEF sleeping
  <1>5. Collecting'
    BY <1>1, <1>3 DEF Collecting, TypeOK
  <1>6. WriterCopy'
    <2>1. UNCHANGED FinalValue
      BY <1>1 DEF FinalValue, valueOf
    <2>2. ASSUME Stores = {} \/ writer[Writes] = p
          PROVE  Sees(p) = FinalValue
      <3>1. known[p] \in SUBSET Stores /\ (Stores = {} \/ Writes \in known[p])
        <4>1. Stores # {} => Writes \in Stores
          BY WritesAssumption DEF Stores
        <4> QED
          BY <1>1, <2>2, <4>1 DEF TypeOK, FstInv, Knowledge, Checking
      <3> QED
        BY <3>1, SeesFinal DEF Sees
    <2>3. cpy'[p] = Sees(p) /\ \A q \in Threads : q # p => cpy'[q] = cpy[q] /\ pc'[q] = pc[q]
      BY <1>1 DEF TypeOK
    <2> QED
      BY <1>1, <2>1, <2>2, <2>3 DEF WriterCopy
  <1> QED
    BY <1>2, <1>4, <1>5, <1>6

(* WriterCopy is about threads that have copied.                           *)
LEMMA SameCopy ==
  ASSUME IInv, NEW p \in Threads, NEW l, pc' = [pc EXCEPT ![p] = l],
         pc[p] \notin Checking \cup Testing \cup {"copy"}, UNCHANGED <<mem, cpy>>
  PROVE  WriterCopy'
  <1>1. UNCHANGED FinalValue
    BY DEF FinalValue, valueOf, mem
  <1>2. \A q \in Threads : q # p => pc'[q] = pc[q]
    BY DEF IInv, TypeOK
  <1> QED
    BY <1>1, <1>2 DEF IInv, OrInv, WriterCopy, mem

(* po_reinit: the last one, when all the others sleep, starts a comparison *)
(* with the flag cleared.                                                  *)
LEMMA ReinitOr ==
  ASSUME IInv, NEW p \in Threads, po_reinit(p)
  PROVE  OrInv' /\ TypeOK'
  <1> USE DEF IInv, OrInv
  <1>1. /\ pc[p] = "reinit" /\ CountDown(p, "reinit_sleep", "compare")
        /\ val' = (IF count = 1 THEN FALSE ELSE val)
        /\ UNCHANGED <<mem, known, fst, cpy, found>>
    BY DEF po_reinit
  <1>2. Collecting
    BY <1>1 DEF Comparing, Leaving
  <1>3. /\ count' = N - Cardinality(Sleeping')
        /\ count' \in Int /\ turn' \in {0, 1} /\ t' \in [Threads -> {0, 1}]
        /\ \A q \in Threads : q # p => t'[q] = t[q]
        /\ \/ /\ count # 1 /\ turn' = turn /\ t'[p] = turn
              /\ pc' = [pc EXCEPT ![p] = "reinit_sleep"]
           \/ /\ count = 1 /\ turn' # turn
              /\ pc' = [pc EXCEPT ![p] = "compare"]
              /\ \A q \in Threads : q # p => sleeping(q) /\ t'[q] # turn'
    BY <1>1, CountDownEffect
  <1>4. val' \in BOOLEAN
    BY <1>1, Zenon DEF TypeOK
  <1>5. TypeOK'
    BY <1>1, <1>3, <1>4 DEF TypeOK, mem, fst
  <1>6. WriterCopy'
    BY <1>1, <1>3, SameCopy DEF Checking, Testing
  <1>7. CASE count # 1
    <2>1. /\ pc' = [pc EXCEPT ![p] = "reinit_sleep"] /\ turn' = turn /\ t'[p] = turn
          /\ val' = val
      BY <1>1, <1>3, <1>7
    <2>2. Collecting'
      BY <1>1, <1>2, <1>3, <2>1 DEF Collecting, TypeOK, Checking, Testing
    <2> QED
      BY <1>3, <1>5, <1>6, <2>2
  <1>8. CASE count = 1
    <2>1. /\ pc' = [pc EXCEPT ![p] = "compare"] /\ ~val'
          /\ \A q \in Threads : q # p => sleeping(q) /\ t'[q] # turn'
      BY <1>1, <1>3, <1>8
    <2>2. \A q \in Threads : q # p => pc'[q] = "reinit_sleep"
      BY <1>2, <2>1 DEF Collecting, sleeping, TypeOK
    <2>3. pc'[p] = "compare"
      BY <2>1 DEF TypeOK
    <2>4. Comparing'
      BY <2>1, <2>2, <2>3 DEF Comparing
    <2> QED
      BY <1>3, <1>5, <1>6, <2>4
  <1> QED
    BY <1>7, <1>8

LEMMA WakeReinitOr ==
  ASSUME IInv, NEW p \in Threads, WakeReinit(p)
  PROVE  OrInv'
  <1> USE DEF IInv, OrInv
  <1>1. /\ pc[p] = "reinit_sleep" /\ turn # t[p] /\ pc' = [pc EXCEPT ![p] = "compare"]
        /\ UNCHANGED <<mem, count, turn, val, t, cpy, found>>
    BY DEF WakeReinit, goto, s_or
  <1>2. Comparing
    BY <1>1 DEF Collecting, Leaving
  <1>3. count' = N - Cardinality(Sleeping')
    BY <1>1, SameSleepers DEF sleeping
  <1>4. Comparing'
    BY <1>1, <1>2 DEF Comparing, Disagree, TypeOK
  <1>5. WriterCopy'
    BY <1>1, SameCopy DEF Checking, Testing
  <1> QED
    BY <1>3, <1>4, <1>5

LEMMA CompareOr ==
  ASSUME IInv, NEW p \in Threads, Compare(p)
  PROVE  OrInv' /\ TypeOK'
  <1> USE DEF IInv, OrInv
  <1>1. /\ pc[p] = "compare" /\ pc' = [pc EXCEPT ![p] = "wait"]
        /\ found' = [found EXCEPT ![p] = cpy[p] # cpy[(p + 1) % N]]
        /\ UNCHANGED <<mem, known, fst, count, turn, val, t, cpy>>
    BY DEF Compare, goto, s_or
  <1>2. Comparing
    BY <1>1 DEF Collecting, Leaving, Checking, Testing
  <1>3. count' = N - Cardinality(Sleeping')
    BY <1>1, SameSleepers DEF sleeping
  <1>4. /\ found' \in [Threads -> BOOLEAN] /\ (found'[p] <=> Disagree(p))
        /\ \A q \in Threads : q # p => (found'[q] <=> found[q])
    BY <1>1 DEF TypeOK, Disagree
  <1>5. TypeOK'
    BY <1>1, <1>4 DEF TypeOK, mem, fst
  <1>6. Comparing'
    <2>1. \A q \in Threads : Disagree(q)' <=> Disagree(q)
      BY <1>1 DEF Disagree
    <2>2. pc'[p] = "wait" /\ \A q \in Threads : q # p => pc'[q] = pc[q]
      BY <1>1 DEF TypeOK
    <2>3. \A q \in Threads :
            /\ pc'[q] \in {"reinit_sleep", "compare", "wait", "wait_sleep"}
            /\ pc'[q] = "reinit_sleep" => t'[q] # turn'
            /\ pc'[q] = "wait_sleep" => t'[q] = turn'
            /\ pc'[q] \in {"wait", "wait_sleep"} => (found'[q] <=> Disagree(q)')
      BY <1>1, <1>2, <1>4, <2>1, <2>2 DEF Comparing
    <2>4. val' <=> \E q \in Threads : pc'[q] = "wait_sleep" /\ found'[q]
      BY <1>1, <1>2, <1>4, <2>2 DEF Comparing
    <2> QED
      BY <2>3, <2>4 DEF Comparing
  <1>7. WriterCopy'
    BY <1>1, SameCopy DEF Checking, Testing
  <1> QED
    BY <1>3, <1>5, <1>6, <1>7

(* po_wait: when the last one comes the flag is the or of all arguments,   *)
(* and all start again, or all leave.                                      *)
LEMMA WaitOr ==
  ASSUME IInv, NEW p \in Threads, po_wait(p)
  PROVE  OrInv' /\ TypeOK'
  <1> USE DEF IInv, OrInv
  <1>1. /\ pc[p] = "wait" /\ val' = (val \/ found[p])
        /\ UNCHANGED <<mem, known, fst, cpy, found>>
    BY DEF po_wait
  <1>2. val' \in BOOLEAN
    BY <1>1, Zenon
  <1>3. PICK next : next = decision(val')
    OBVIOUS
  <1>4. (val' => next = "copy") /\ (~val' => next = "returned")
    BY <1>3 DEF decision
  <1>5. CountDown(p, "wait_sleep", next)
    BY <1>3 DEF po_wait
  <1>6. /\ count' = N - Cardinality(Sleeping')
        /\ count' \in Int /\ turn' \in {0, 1} /\ t' \in [Threads -> {0, 1}]
        /\ \A q \in Threads : q # p => t'[q] = t[q]
        /\ \/ /\ count # 1 /\ turn' = turn /\ t'[p] = turn
              /\ pc' = [pc EXCEPT ![p] = "wait_sleep"]
           \/ /\ count = 1 /\ turn' # turn
              /\ pc' = [pc EXCEPT ![p] = next]
              /\ \A q \in Threads : q # p => sleeping(q) /\ t'[q] # turn'
    BY <1>1, <1>2, <1>4, <1>5, CountDownEffect
  <1>7. Comparing
    BY <1>1 DEF Collecting, Leaving, Checking, Testing
  <1>8. TypeOK'
    BY <1>1, <1>2, <1>4, <1>6 DEF TypeOK, mem, fst
  <1>9. WriterCopy'
    BY <1>1, <1>6, SameCopy DEF Checking, Testing
  <1>10. \A q \in Threads : (Disagree(q)' <=> Disagree(q)) /\ (found'[q] <=> found[q])
    BY <1>1 DEF Disagree
  <1>11. \A q \in Threads : q # p => pc'[q] = pc[q]
    BY <1>6 DEF TypeOK
  <1>12. CASE count # 1
    <2>1. pc'[p] = "wait_sleep" /\ turn' = turn /\ t'[p] = turn
      BY <1>6, <1>12 DEF TypeOK
    <2>2. \A q \in Threads :
            /\ pc'[q] \in {"reinit_sleep", "compare", "wait", "wait_sleep"}
            /\ pc'[q] = "reinit_sleep" => t'[q] # turn'
            /\ pc'[q] = "wait_sleep" => t'[q] = turn'
            /\ pc'[q] \in {"wait", "wait_sleep"} => (found'[q] <=> Disagree(q)')
      BY <1>1, <1>6, <1>7, <1>10, <1>11, <2>1 DEF Comparing
    <2>3. val' <=> \E q \in Threads : pc'[q] = "wait_sleep" /\ found'[q]
      <3>1. val <=> \E q \in Threads : pc[q] = "wait_sleep" /\ found[q]
        BY <1>7 DEF Comparing
      <3>2. \A q \in Threads : pc'[q] = "wait_sleep" <=> pc[q] = "wait_sleep" \/ q = p
        BY <1>11, <2>1
      <3> QED
        BY <1>1, <1>10, <3>1, <3>2, Zenon
    <2>4. Comparing'
      BY <2>2, <2>3 DEF Comparing
    <2> QED
      BY <1>6, <1>8, <1>9, <2>4
  <1>13. CASE count = 1
    <2>1. /\ pc'[p] = next /\ turn' # turn
          /\ \A q \in Threads : q # p => sleeping(q) /\ t'[q] # turn'
      BY <1>6, <1>13 DEF TypeOK
    <2>2. \A q \in Threads : q # p => pc[q] = "wait_sleep"
      BY <1>7, <2>1 DEF Comparing, sleeping
    <2>3. val' <=> \E q \in Threads : found[q]
      <3>1. val <=> \E q \in Threads : pc[q] = "wait_sleep" /\ found[q]
        BY <1>7 DEF Comparing
      <3>2. \A q \in Threads : pc[q] = "wait_sleep" \/ q = p
        BY <2>2
      <3> QED
        BY <1>1, <3>1, <3>2, Zenon
    <2>4. \A q \in Threads : found[q] <=> Disagree(q)
      BY <1>1, <1>7, <2>2 DEF Comparing
    <2>5. CASE val'
      <3>1. pc'[p] = "copy" /\ \A q \in Threads : q # p => pc'[q] = "wait_sleep"
        BY <1>4, <1>11, <2>1, <2>2, <2>5
      <3>2. \E q \in Threads : found'[q]
        BY <1>1, <2>3, <2>5
      <3>3. Collecting'
        BY <2>1, <2>5, <3>1, <3>2 DEF Collecting
      <3> QED
        BY <1>6, <1>8, <1>9, <3>3
    <2>6. CASE ~val'
      <3>1. pc'[p] = "returned" /\ \A q \in Threads : q # p => pc'[q] = "wait_sleep"
        BY <1>4, <1>11, <2>1, <2>2, <2>6
      <3>2. \A q \in Threads : ~found'[q] /\ ~Disagree(q)'
        BY <1>10, <2>3, <2>4, <2>6
      <3>3. Leaving'
        BY <2>1, <2>6, <3>1, <3>2 DEF Leaving
      <3> QED
        BY <1>6, <1>8, <1>9, <3>3
    <2> QED
      BY <2>5, <2>6
  <1> QED
    BY <1>12, <1>13

LEMMA WakeWaitOr ==
  ASSUME IInv, NEW p \in Threads, WakeWait(p)
  PROVE  OrInv' /\ TypeOK'
  <1> USE DEF IInv, OrInv
  <1>1. /\ pc[p] = "wait_sleep" /\ turn # t[p] /\ pc' = [pc EXCEPT ![p] = decision(val)]
        /\ UNCHANGED <<mem, known, fst, count, turn, val, t, cpy, found>>
    BY DEF WakeWait, goto, s_or
  <1>2. decision(val) \in {"copy", "returned"}
    BY DEF decision
  <1>3. TypeOK'
    BY <1>1, <1>2 DEF TypeOK, mem, fst
  <1>4. count' = N - Cardinality(Sleeping')
    BY <1>1, <1>2, SameSleepers DEF sleeping
  <1>5. WriterCopy'
    BY <1>1, SameCopy DEF Checking, Testing
  <1>6. CASE Collecting
    <2>1. decision(val) = "copy"
      BY <1>1, <1>6 DEF Collecting, decision
    <2>2. Collecting'
      BY <1>1, <1>6, <2>1 DEF Collecting, TypeOK
    <2> QED
      BY <1>3, <1>4, <1>5, <2>2
  <1>7. CASE Leaving
    <2>1. decision(val) = "returned"
      BY <1>7 DEF Leaving, decision
    <2>2. Leaving'
      BY <1>1, <1>7, <2>1 DEF Leaving, Disagree, TypeOK
    <2> QED
      BY <1>3, <1>4, <1>5, <2>2
  <1> QED
    BY <1>1, <1>6, <1>7 DEF Comparing

(* The steps of a thread keep the types.                                   *)
LEMMA SyncTypeOK ==
  ASSUME IInv, NEW p \in Threads, check_globals(p) \/ RunTest(p) \/ LeaveFst(p) \/ WakeReinit(p)
  PROVE  TypeOK'
  <1> USE DEF IInv, TypeOK, mem, fst, s_or, goto
  <1>1. CASE check_globals(p)
    BY <1>1 DEF check_globals, fst_barrier!Arrive
  <1>2. CASE RunTest(p)
    BY <1>2, RunTestFst DEF RunTest, fst_barrier!Arrive
  <1>3. CASE LeaveFst(p)
    BY <1>3, LeaveFstFst DEF LeaveFst
  <1>4. CASE WakeReinit(p)
    BY <1>4 DEF WakeReinit
  <1> QED
    BY <1>1, <1>2, <1>3, <1>4

LEMMA NextInv == IInv /\ [Next]_vars => IInv'
  <1> SUFFICES ASSUME IInv, [Next]_vars PROVE IInv'
    OBVIOUS
  <1>1. ASSUME NEW p \in Threads, Propagate(p) PROVE IInv'
    <2>1. UNCHANGED <<writer, value, count, turn, val, pc, t, cpy, found>>
      BY <1>1 DEF Propagate, mem, s_or
    <2>2. OrInv'
      BY <2>1 DEF IInv, OrInv, Sleeping, sleeping, Collecting, Comparing, Leaving,
                  Disagree, WriterCopy, FinalValue, valueOf
    <2> QED
      BY <1>1, <2>2, PropagateInv DEF IInv
  <1>2. ASSUME NEW p \in Threads, check_globals(p) PROVE IInv'
    BY <1>2, CheckFst, SyncTypeOK, SyncOr DEF check_globals, goto, IInv, Checking
  <1>3. ASSUME NEW p \in Threads, RunTest(p) PROVE IInv'
    BY <1>3, RunTestFst, SyncTypeOK, SyncOr DEF RunTest, goto, IInv, Testing
  <1>4. ASSUME NEW p \in Threads, LeaveFst(p) PROVE IInv'
    BY <1>4, LeaveFstFst, SyncTypeOK, SyncOr DEF LeaveFst, goto, IInv, Checking, Testing
  <1>5. ASSUME NEW p \in Threads, Copy(p) PROVE IInv'
    BY <1>5, CopyOr, LoopFst DEF Copy, goto, IInv, Checking, Testing
  <1>6. ASSUME NEW p \in Threads, po_reinit(p) PROVE IInv'
    BY <1>6, ReinitOr, LoopFst DEF po_reinit, CountDown, goto, IInv, Checking, Testing
  <1>7. ASSUME NEW p \in Threads, WakeReinit(p) PROVE IInv'
    BY <1>7, WakeReinitOr, SyncTypeOK, LoopFst DEF WakeReinit, goto, IInv, Checking, Testing
  <1>8. ASSUME NEW p \in Threads, Compare(p) PROVE IInv'
    BY <1>8, CompareOr, LoopFst DEF Compare, goto, IInv, Checking, Testing
  <1>9. ASSUME NEW p \in Threads, po_wait(p) PROVE IInv'
    BY <1>9, WaitOr, LoopFst DEF po_wait, CountDown, decision, goto, IInv, Checking, Testing
  <1>10. ASSUME NEW p \in Threads, WakeWait(p) PROVE IInv'
    BY <1>10, WakeWaitOr, LoopFst DEF WakeWait, decision, goto, IInv, Checking, Testing
  <1>11. CASE UNCHANGED vars
    BY <1>11 DEF vars, mem, fst, s_or, IInv, TypeOK, FstInv, FstControl, FstPassed, Knowledge,
                 OrInv, Sleeping, sleeping, Collecting, Comparing, Leaving,
                 Disagree, WriterCopy, FinalValue, valueOf
  <1> QED
    BY <1>1, <1>2, <1>3, <1>4, <1>5, <1>6, <1>7, <1>8, <1>9, <1>10, <1>11 DEF Next, Thread

(* The invariant holds for every number of threads and of stores.          *)
THEOREM StabilizeInvariant == Spec => []IInv
  <1>1. Init => IInv
    BY InitFst, InitOr DEF IInv
  <1> QED
    BY <1>1, NextInv, PTL DEF Spec

(* check_globals never finds a global changed: no store is made before all *)
(* the threads have checked.                                               *)
THEOREM GlobalsChecked == Spec => []ChecksPass
  <1>1. IInv => ChecksPass
    BY DEF IInv, FstInv, Knowledge, ChecksPass
  <1> QED
    BY <1>1, StabilizeInvariant, PTL

(* po_wait returns the or of all the arguments, also to a thread that      *)
(* wakes up when others are back in po_reinit.                             *)
THEOREM PoWaitIsOr == Spec => []OrOfAll
  <1>1. IInv => OrOfAll
    <2> SUFFICES ASSUME IInv, NEW p \in Threads, pc[p] = "wait_sleep", turn # t[p]
                 PROVE  val = \E q \in Threads : found[q]
      BY DEF OrOfAll
    <2>1. val <=> \E q \in Threads : found[q]
      BY DEF IInv, OrInv, Collecting, Comparing, Leaving
    <2>2. val \in BOOLEAN
      BY DEF IInv, TypeOK
    <2> QED
      BY <2>1, <2>2, Zenon
  <1> QED
    BY <1>1, StabilizeInvariant, PTL

(* Threads that agree with their neighbours in the ring all agree.         *)
LEMMA Ring ==
  ASSUME \A p \in Threads : cpy[p] = cpy[(p + 1) % N]
  PROVE  \A p \in Threads : cpy[p] = cpy[0]
  <1> DEFINE S == {p \in Threads : cpy[p] # cpy[0]}
  <1> SUFFICES ASSUME S # {} PROVE FALSE
    OBVIOUS
  <1>1. S \in SUBSET Nat
    BY DEF Threads
  <1>2. PICK m \in S : \A x \in S : m <= x
    BY <1>1, LeastNat, Zenon
  <1>3. m \in Threads /\ m # 0 /\ m - 1 \in Threads /\ (m - 1) + 1 = m
    BY <1>2, NAssumption DEF Threads
  <1>4. m - 1 \notin S
    BY <1>2, <1>3 DEF Threads
  <1>5. m % N = m
    BY <1>3, NAssumption DEF Threads
  <1> QED
    BY <1>3, <1>4, <1>5

(* A thread returns only when all have copied the final value: they agree  *)
(* with each other, and one of them has made the last store itself.        *)
THEOREM ReturnsFinalState == Spec => []StableIsFinal
  <1>1. IInv => StableIsFinal
    <2> SUFFICES ASSUME IInv, NEW r \in Threads, pc[r] = "returned", NEW q \in Threads
                 PROVE  cpy[q] = FinalValue
      BY DEF StableIsFinal
    <2>1. Leaving
      BY DEF IInv, OrInv, Collecting, Comparing, Checking, Testing
    <2>2. \A p \in Threads : cpy[p] = cpy[0]
      BY <2>1, Ring DEF Leaving, Disagree
    <2>3. PICK p \in Threads : Stores = {} \/ writer[Writes] = p
      <3>1. Stores = {} \/ Writes \in Stores
        BY WritesAssumption DEF Stores
      <3> QED
        BY <3>1 DEF IInv, TypeOK
    <2>4. cpy[p] = FinalValue
      BY <2>1, <2>3 DEF Leaving, IInv, OrInv, WriterCopy, Checking, Testing
    <2> QED
      BY <2>2, <2>4
  <1> QED
    BY <1>1, StabilizeInvariant, PTL

=============================================================================
