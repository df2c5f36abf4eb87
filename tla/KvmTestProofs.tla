--------------------------- MODULE KvmTestProofs ---------------------------
(***************************************************************************)
(* Proofs about the iterations of tests in KVM mode, for any number of     *)
(* processors, any tests and any number of iterations: the entry of x is   *)
(* changed by break-before-make, the code starts with fresh translations,  *)
(* the accesses of the harness itself never fault, the tests run with the  *)
(* hardware management they ask for, and an outcome has the entry and the  *)
(* faults of its iteration.                                                *)
(*                                                                         *)
(* Two facts carry the proofs.  The roles are always in the same segment   *)
(* between two barriers, so what the owner of the entry does is known from *)
(* where any role is.  And wherever the owner is, the entry and the TLBs   *)
(* are related: at rest, broken, made, or fresh.                           *)
(***************************************************************************)
EXTENDS KvmTest, FiniteSetTheorems, WellFoundedInduction, TLAPS

Before == {"arg", "break", "flush", "make", "attr", "store", "last"}
After == {"restore", "rbreak", "rflush", "rmake", "rlast"}
Labels == {"idle", "start", "top", "do_run", "init", "touch", "sync", "code", "collect", "add"}
          \cup Before \cup After
Entered == {"top", "do_run", "init", "touch", "arg", "sync", "code", "restore", "collect", "add"}

(* An initial entry is given, so that there is a barrier after touching.   *)
given == conf.init.kind # "none"

(* The segment, between two barriers, that a role at label l is in.        *)
inside(l) == CASE l = "start" -> 0
               [] l \in {"idle", "top", "add"} -> 1
               [] l = "do_run" -> 2
               [] l = "init" -> 3
               [] l = "touch" -> IF given THEN 4 ELSE 5
               [] l \in Before \cup {"sync"} -> 5
               [] l = "code" -> 6
               [] l \in After \cup {"collect"} -> 7

(* A role that waits has the label that follows the barrier already.       *)
waiting(l) == CASE l = "top" -> 0
                [] l = "do_run" -> 1
                [] l = "init" -> 2
                [] l = "touch" -> 3
                [] l \in {"arg", "sync"} -> 4
                [] l = "code" -> 5
                [] l \in {"restore", "collect"} -> 6
                [] l = "add" -> 7

segment(p) == IF p \in arrived THEN waiting(pc[p]) ELSE inside(pc[p])

TypeOK == /\ hafdbs \in Hafdbs
          /\ tests \in [1..NTests -> Tests]
          /\ test \in 0..NTests
          /\ pc \in [Roles -> Labels]
          /\ arrived \in SUBSET Roles
          /\ DOMAIN tcr = Roles
          /\ DOMAIN tlb = Roles

Together == \A p, q \in Roles : segment(p) = segment(q)

Control == \A p \in Roles :
  /\ p \in arrived => pc[p] \in Entered
  /\ pc[p] \in Before \cup After => p = owner
  /\ p = owner /\ p \in arrived => pc[p] \notin {"sync", "collect"}
  /\ pc[p] \in Before \/ (p \in arrived /\ pc[p] = "sync") => given
  /\ pc[p] # "idle" => test > 0 /\ feature_check(conf)

(* The entry of x is the one of the boot, and so are its translations.     *)
AtRest == \/ pc[owner] \in {"idle", "start", "top", "do_run", "init", "touch",
                            "arg", "break", "rlast", "collect", "add"}
          \/ ~given /\ (pc[owner] = "sync" \/ (pc[owner] = "code" /\ owner \in arrived))

Rest == AtRest => pte = pte_x /\ \A p \in Roles : tlb[p] \in {NoEntry, pte_x}

Restoring == /\ saved = pte_x
             /\ pc[owner] \in {"rbreak", "rflush", "rmake"} => arg = pte_x

(* The entry is invalid until it is made, and no TLB is filled.            *)
Broken == /\ pc[owner] \in {"flush", "make", "rflush", "rmake"} => ~has(pte, msk_valid)
          /\ pc[owner] \in {"make", "rmake"} => \A p \in Roles : tlb[p] = NoEntry

Made == pc[owner] \in {"attr", "store", "last"} =>
          /\ \A p \in Roles : tlb[p] # NoEntry => litmus_same_oa(tlb[p], pte)
          /\ pc[owner] = "store" => litmus_same_oa(arg, pte)

fresh(e, f) == /\ e \ (msk_af \cup msk_db) = f \ (msk_af \cup msk_db)
               /\ has(f, msk_db) => has(e, msk_db)

RunsFresh == \/ pc[owner] = "sync"
             \/ pc[owner] = "code" /\ owner \in arrived
             \/ ~own /\ (pc[owner] = "code" \/ (pc[owner] = "restore" /\ owner \in arrived))

Fresh == RunsFresh => \A p \in Roles : tlb[p] # NoEntry => fresh(tlb[p], pte)

EntryInv == Rest /\ Restoring /\ Broken /\ Made /\ Fresh

IInv == TypeOK /\ Together /\ Control /\ EntryInv

(* The bits HA and HD of each processor.                                   *)
asked(p) == IF conf.db THEN {b + HA : b \in hahd(p)} ELSE {}

Switched == \A p \in Roles : tcr[p] \cap {HA, HD} =
  IF pc[p] = "idle" \/ pc[p] = "start" THEN {} ELSE asked(p)

-----------------------------------------------------------------------------
(* The roles stay together.                                                *)

(* A step of one role within a segment.                                    *)
LEMMA InsideStep ==
  ASSUME TypeOK, Together, NEW p \in Roles, NEW l \in Labels,
         p \notin arrived, inside(l) = inside(pc[p]),
         goto(p, l), UNCHANGED <<arrived, machine>>
  PROVE  Together'
<1>1. given' = given
  BY DEF given, conf, machine
<1>2. \A k : inside(k)' = inside(k) /\ waiting(k)' = waiting(k)
  BY <1>1, Zenon DEF inside, waiting
<1>3. \A q \in Roles : segment(q)' = segment(q)
  <2> SUFFICES ASSUME NEW q \in Roles PROVE segment(q)' = segment(q)
    OBVIOUS
  <2>1. CASE q = p
    <3>1. pc'[q] = l /\ q \notin arrived /\ q \notin arrived'
      BY <2>1 DEF goto, TypeOK
    <3> QED BY <3>1, <2>1, <1>2, Zenon DEF segment
  <2>2. CASE q # p
    <3>1. pc'[q] = pc[q]
      BY <2>2 DEF goto, TypeOK
    <3> QED BY <3>1, <1>2, Zenon DEF segment
  <2> QED BY <2>1, <2>2
<1> QED BY <1>3 DEF Together

(* A role comes to a barrier, whether it has to wait or lets all others go *)
(* on: they then are all at the label that follows.                        *)
LEMMA BarrierStep ==
  ASSUME TypeOK, Together, Control, NEW p \in Roles, NEW l \in Entered,
         p \notin arrived, waiting(l) = inside(pc[p]),
         goto(p, l), barrier_wait(p), UNCHANGED machine
  PROVE  Together' /\ arrived' \in SUBSET Roles /\ pc' \in [Roles -> Labels]
<1>1. given' = given
  BY DEF given, conf, machine
<1>2. \A k : inside(k)' = inside(k) /\ waiting(k)' = waiting(k)
  BY <1>1, Zenon DEF inside, waiting
<1>3. /\ pc'[p] = l /\ \A q \in Roles \ {p} : pc'[q] = pc[q]
      /\ pc' \in [Roles -> Labels] /\ arrived' \in SUBSET Roles
  BY DEF goto, TypeOK, barrier_wait, Entered, Labels, Before, After
<1>4. segment(p) = waiting(l)
  BY DEF segment
<1>5. CASE arrived \cup {p} = Roles
  <2>1. arrived' = {} /\ \A q \in Roles \ {p} : q \in arrived
    BY <1>5 DEF barrier_wait
  <2>2. \A q \in Roles : waiting(pc'[q]) = waiting(l) /\ pc'[q] \in Entered
    <3> SUFFICES ASSUME NEW q \in Roles, q # p
                 PROVE  waiting(pc'[q]) = waiting(l) /\ pc'[q] \in Entered
      BY <1>3
    <3>1. segment(q) = waiting(pc[q])
      BY <2>1 DEF segment
    <3> QED BY <3>1, <1>3, <1>4, <2>1 DEF Together, Control
  <2>3. \A a, b \in Entered : waiting(a) = waiting(b) => inside(a) = inside(b)
    BY DEF Entered, waiting, inside, Before, After
  <2>4. \A q \in Roles : segment(q)' = inside(pc'[q])
    BY <2>1, <1>2, Zenon DEF segment
  <2> QED BY <1>3, <2>2, <2>3, <2>4 DEF Together
<1>6. CASE arrived \cup {p} # Roles
  <2>1. arrived' = arrived \cup {p}
    BY <1>6 DEF barrier_wait
  <2>2. \A q \in Roles : segment(q)' = segment(q)
    <3> SUFFICES ASSUME NEW q \in Roles PROVE segment(q)' = segment(q)
      OBVIOUS
    <3>1. CASE q = p
      <4>1. segment(p)' = waiting(l)
        BY <2>1, <1>2, <1>3, Zenon DEF segment
      <4> QED BY <4>1, <1>4, <3>1
    <3>2. CASE q # p
      <4>1. pc'[q] = pc[q] /\ (q \in arrived' <=> q \in arrived)
        BY <3>2, <2>1, <1>3
      <4> QED BY <4>1, <1>2, Zenon DEF segment
    <3> QED BY <3>1, <3>2
  <2> QED BY <1>3, <2>2 DEF Together
<1> QED BY <1>5, <1>6

(* Where the owner is when a role is at a given place.                     *)
LEMMA OwnerIs ==
  ASSUME TypeOK, Together, Control, NEW p \in Roles, p \notin arrived
  PROVE  /\ pc[p] = "idle" \/ pc[p] = "top" \/ pc[p] = "add" =>
              \/ pc[owner] \in {"idle", "top", "add"} /\ owner \notin arrived
              \/ pc[owner] = "do_run"
         /\ pc[p] = "start" => pc[owner] \in {"start", "top"}
         /\ pc[p] = "do_run" => pc[owner] \in {"do_run", "init"}
         /\ pc[p] = "init" => \/ pc[owner] = "init" /\ owner \notin arrived
                              \/ pc[owner] = "touch" /\ owner \in arrived
         /\ pc[p] = "touch" => AtRest
         /\ pc[p] = "sync" => \/ pc[owner] \in Before \cup {"touch", "sync"} /\ owner \notin arrived
                              \/ pc[owner] = "code" /\ owner \in arrived
         /\ pc[p] = "code" => \/ pc[owner] = "code" /\ owner \notin arrived
                              \/ pc[owner] = "restore" /\ owner \in arrived
         /\ pc[p] = "collect" => \/ pc[owner] \in After \cup {"collect"} /\ owner \notin arrived
                                 \/ pc[owner] = "add" /\ owner \in arrived
<1>1. owner \in Roles
  BY TestsAssumption
<1>2. segment(owner) = inside(pc[p])
  BY <1>1 DEF Together, segment
<1>3. pc[owner] \in Labels /\ (owner \in arrived => pc[owner] \in Entered \ {"sync", "collect"})
  BY <1>1 DEF TypeOK, Control
<1>4. CASE owner \in arrived
  <2>1. inside(pc[p]) = waiting(pc[owner]) /\ pc[owner] \in Entered \ {"sync", "collect"}
    BY <1>2, <1>3, <1>4 DEF segment
  <2> QED BY <2>1, <1>4 DEF inside, waiting, Entered, Before, After, AtRest
<1>5. CASE owner \notin arrived
  <2>1. inside(pc[p]) = inside(pc[owner])
    BY <1>2, <1>5 DEF segment
  <2>2. pc[owner] \in Before => given
    BY <1>1, Zenon DEF Control
  <2> QED BY <2>1, <2>2, <1>3, <1>5 DEF inside, Labels, Before, After, AtRest
<1> QED BY <1>4, <1>5

-----------------------------------------------------------------------------
(* Types and control.                                                      *)

LEMMA ControlKept ==
  ASSUME TypeOK, Control, NEW p \in Roles, NEW l \in Labels, goto(p, l), UNCHANGED machine,
         \A q \in Roles \ {p} : q \in arrived' => q \in arrived,
         p \in arrived' => l \in Entered /\ (p = owner => l \notin {"sync", "collect"}),
         l \in Before \cup After => p = owner,
         l \in Before \/ (p \in arrived' /\ l = "sync") => given,
         l # "idle" => pc[p] # "idle"
  PROVE  Control'
<1>1. given' = given /\ feature_check(conf)' = feature_check(conf) /\ test' = test
  BY DEF given, conf, feature_check, machine
<1>2. pc'[p] = l /\ \A q \in Roles \ {p} : pc'[q] = pc[q]
  BY DEF goto, TypeOK
<1> SUFFICES ASSUME NEW q \in Roles
             PROVE  /\ q \in arrived' => pc'[q] \in Entered
                    /\ pc'[q] \in Before \cup After => q = owner
                    /\ q = owner /\ q \in arrived' => pc'[q] \notin {"sync", "collect"}
                    /\ pc'[q] \in Before \/ (q \in arrived' /\ pc'[q] = "sync") => given
                    /\ pc'[q] # "idle" => test > 0 /\ feature_check(conf)
  BY <1>1, Zenon DEF Control
<1>3. CASE q = p
  BY <1>2, <1>3, Zenon DEF Control
<1>4. CASE q # p
  BY <1>2, <1>4, Zenon DEF Control
<1> QED BY <1>3, <1>4

LEMMA TypesKept ==
  ASSUME TypeOK, UNCHANGED machine,
         pc' \in [Roles -> Labels], arrived' \in SUBSET Roles,
         \/ UNCHANGED tcr
         \/ \E p \in Roles : \E v : tcr' = [tcr EXCEPT ![p] = v],
         \/ UNCHANGED tlb
         \/ \E p \in Roles : \E v : tlb' = [tlb EXCEPT ![p] = v]
         \/ flush_all
  PROVE  TypeOK'
BY DEF TypeOK, machine, flush_all

CInv == TypeOK /\ Together /\ Control

LEMMA InitControl == Init => CInv
<1> SUFFICES ASSUME Init PROVE CInv
  OBVIOUS
<1>1. TypeOK
  BY TestsAssumption DEF Init, TypeOK, Labels
<1>2. \A p \in Roles : pc[p] = "idle" /\ p \notin arrived
  BY DEF Init
<1>3. Control
  BY <1>2 DEF Control, Before, After
<1>4. \A p \in Roles : segment(p) = inside("idle")
  BY <1>2, Zenon DEF segment
<1> QED BY <1>1, <1>3, <1>4 DEF CInv, Together

(* Steps within a segment.                                                 *)
LEMMA InsideControl ==
  ASSUME CInv, NEW p \in Roles,
         \/ EndTest(p) \/ Argument(p) \/ Break(p) \/ Flush(p) \/ Make(p)
         \/ ReadAttr(p) \/ StoreAttr(p) \/ FlushLast(p) \/ Add(p)
         \/ Touch(p) /\ ~given
  PROVE  CInv'
<1> USE DEF CInv
<1>1. /\ p \notin arrived /\ UNCHANGED <<arrived, machine>>
      /\ \/ UNCHANGED tcr
         \/ \E v : tcr' = [tcr EXCEPT ![p] = v]
      /\ \/ UNCHANGED tlb
         \/ \E v : tlb' = [tlb EXCEPT ![p] = v]
         \/ flush_all
  <2>1. CASE EndTest(p)
    BY <2>1 DEF EndTest, SetTcr, At
  <2>2. CASE Argument(p) \/ Break(p) \/ Flush(p) \/ Make(p)
    BY <2>2 DEF Argument, Break, Flush, Make, At
  <2>3. CASE ReadAttr(p) \/ StoreAttr(p) \/ FlushLast(p) \/ Add(p)
    BY <2>3 DEF ReadAttr, StoreAttr, FlushLast, Add, At
  <2>4. CASE Touch(p) /\ ~given
    BY <2>4 DEF Touch, Access, At, given
  <2> QED BY <2>1, <2>2, <2>3, <2>4
<1>2. PICK l \in Labels :
        /\ goto(p, l) /\ inside(l) = inside(pc[p])
        /\ l # "idle" => pc[p] # "idle"
        /\ l \in Before \cup After => pc[p] \in (Before \cup After) /\ (l \in Before => pc[p] \in Before)
  <2> USE DEF At, inside, Labels, Before, After
  <2>1. CASE EndTest(p)
    <3> WITNESS "idle" \in Labels
    <3> QED BY <2>1 DEF EndTest
  <2>2. CASE Argument(p)
    <3>1. CASE pc[p] = "arg"
      <4> WITNESS "break" \in Labels
      <4> QED BY <2>2, <3>1 DEF Argument
    <3>2. CASE pc[p] = "restore"
      <4> WITNESS "rbreak" \in Labels
      <4> QED BY <2>2, <3>2 DEF Argument
    <3> QED BY <2>2, <3>1, <3>2 DEF Argument
  <2>3. CASE Break(p)
    <3>1. CASE pc[p] = "break"
      <4> WITNESS "flush" \in Labels
      <4> QED BY <2>3, <3>1 DEF Break
    <3>2. CASE pc[p] = "rbreak"
      <4> WITNESS "rflush" \in Labels
      <4> QED BY <2>3, <3>2 DEF Break
    <3> QED BY <2>3, <3>1, <3>2 DEF Break
  <2>4. CASE Flush(p)
    <3>1. CASE pc[p] = "flush"
      <4> WITNESS "make" \in Labels
      <4> QED BY <2>4, <3>1 DEF Flush
    <3>2. CASE pc[p] = "rflush"
      <4> WITNESS "rmake" \in Labels
      <4> QED BY <2>4, <3>2 DEF Flush
    <3> QED BY <2>4, <3>1, <3>2 DEF Flush
  <2>5. CASE Make(p)
    <3>1. CASE pc[p] = "make"
      <4> WITNESS "attr" \in Labels
      <4> QED BY <2>5, <3>1 DEF Make
    <3>2. CASE pc[p] = "rmake"
      <4> WITNESS "rlast" \in Labels
      <4> QED BY <2>5, <3>2 DEF Make
    <3> QED BY <2>5, <3>1, <3>2 DEF Make
  <2>6. CASE ReadAttr(p)
    <3>1. CASE goto(p, "store")
      <4> WITNESS "store" \in Labels
      <4> QED BY <2>6, <3>1 DEF ReadAttr
    <3>2. CASE goto(p, "last")
      <4> WITNESS "last" \in Labels
      <4> QED BY <2>6, <3>2 DEF ReadAttr
    <3> QED BY <2>6, <3>1, <3>2 DEF ReadAttr
  <2>7. CASE StoreAttr(p)
    <3> WITNESS "attr" \in Labels
    <3> QED BY <2>7 DEF StoreAttr
  <2>8. CASE FlushLast(p)
    <3>1. CASE pc[p] = "last"
      <4> WITNESS "sync" \in Labels
      <4> QED BY <2>8, <3>1 DEF FlushLast
    <3>2. CASE pc[p] = "rlast"
      <4> WITNESS "collect" \in Labels
      <4> QED BY <2>8, <3>2 DEF FlushLast
    <3> QED BY <2>8, <3>1, <3>2 DEF FlushLast
  <2>9. CASE Add(p)
    <3> WITNESS "top" \in Labels
    <3> QED BY <2>9 DEF Add
  <2>10. CASE Touch(p) /\ ~given
    <3> WITNESS "sync" \in Labels
    <3> QED BY <2>10 DEF Touch, given
  <2> QED BY <2>1, <2>2, <2>3, <2>4, <2>5, <2>6, <2>7, <2>8, <2>9, <2>10
<1>3. pc' \in [Roles -> Labels] /\ arrived' \in SUBSET Roles
  BY <1>1, <1>2 DEF goto, TypeOK
<1>4. TypeOK'
  BY <1>1, <1>3, TypesKept
<1>5. Together'
  BY <1>1, <1>2, InsideStep
<1>6. /\ l \in Before \cup After => p = owner
      /\ l \in Before => given
  BY <1>2, Zenon DEF Control
<1>7. Control'
  BY <1>1, <1>2, <1>6, ControlKept
<1> QED BY <1>4, <1>5, <1>7

(* Steps to a barrier.                                                     *)
LEMMA BarrierControl ==
  ASSUME CInv, NEW p \in Roles,
         \/ Start(p) \/ NextIteration(p) \/ EnterRun(p) \/ InitVars(p)
         \/ Touch(p) /\ given
         \/ Sync(p) \/ EndCode(p) \/ Collect(p)
  PROVE  CInv'
<1> USE DEF CInv
<1>1. /\ p \notin arrived /\ barrier_wait(p) /\ UNCHANGED machine
      /\ \/ UNCHANGED tcr
         \/ \E v : tcr' = [tcr EXCEPT ![p] = v]
      /\ \/ UNCHANGED tlb
         \/ \E v : tlb' = [tlb EXCEPT ![p] = v]
         \/ flush_all
  <2>1. CASE Start(p)
    BY <2>1 DEF Start, SetTcr, At
  <2>2. CASE NextIteration(p) \/ EnterRun(p) \/ InitVars(p)
    BY <2>2 DEF NextIteration, EnterRun, InitVars, At
  <2>3. CASE Sync(p) \/ EndCode(p)
    BY <2>3 DEF Sync, EndCode, At
  <2>4. CASE Collect(p)
    BY <2>4 DEF Collect, Access, At
  <2>5. CASE Touch(p) /\ given
    BY <2>5 DEF Touch, Access, At, given
  <2> QED BY <2>1, <2>2, <2>3, <2>4, <2>5
<1>2. PICK l \in Entered :
        /\ goto(p, l) /\ waiting(l) = inside(pc[p]) /\ pc[p] # "idle"
        /\ l \in Before \cup After \cup {"sync"} => (p = owner <=> l # "sync")
        /\ p = owner => l # "collect"
        /\ l \in Before \cup {"sync"} => given
  <2> USE DEF At, inside, waiting, Entered, Before, After
  <2>1. CASE Start(p)
    <3> WITNESS "top" \in Entered
    <3> QED BY <2>1 DEF Start
  <2>2. CASE NextIteration(p)
    <3> WITNESS "do_run" \in Entered
    <3> QED BY <2>2 DEF NextIteration
  <2>3. CASE EnterRun(p)
    <3> WITNESS "init" \in Entered
    <3> QED BY <2>3 DEF EnterRun
  <2>4. CASE InitVars(p)
    <3> WITNESS "touch" \in Entered
    <3> QED BY <2>4 DEF InitVars
  <2>5. CASE Touch(p) /\ given /\ p = owner
    <3> WITNESS "arg" \in Entered
    <3> QED BY <2>5 DEF Touch, given
  <2>6. CASE Touch(p) /\ given /\ p # owner
    <3> WITNESS "sync" \in Entered
    <3> QED BY <2>6 DEF Touch, given
  <2>7. CASE Sync(p)
    <3> WITNESS "code" \in Entered
    <3> QED BY <2>7 DEF Sync
  <2>8. CASE EndCode(p) /\ p = owner
    <3> WITNESS "restore" \in Entered
    <3> QED BY <2>8 DEF EndCode
  <2>9. CASE EndCode(p) /\ p # owner
    <3> WITNESS "collect" \in Entered
    <3> QED BY <2>9 DEF EndCode
  <2>10. CASE Collect(p)
    <3> WITNESS "add" \in Entered
    <3> QED BY <2>10 DEF Collect
  <2> QED BY <2>1, <2>2, <2>3, <2>4, <2>5, <2>6, <2>7, <2>8, <2>9, <2>10
<1>3. Together' /\ pc' \in [Roles -> Labels] /\ arrived' \in SUBSET Roles
  BY <1>1, <1>2, BarrierStep
<1>4. TypeOK'
  BY <1>1, <1>3, TypesKept
<1>5. l \in Labels /\ \A q \in Roles \ {p} : q \in arrived' => q \in arrived
  BY <1>1 DEF barrier_wait, Entered, Labels, Before, After
<1>6. /\ l \in Before \cup After => p = owner
      /\ p = owner => l \notin {"sync", "collect"}
      /\ l \in Before \/ l = "sync" => given
  BY <1>2 DEF Before, After
<1>7. Control'
  BY <1>1, <1>2, <1>5, <1>6, ControlKept
<1> QED BY <1>3, <1>4, <1>7

LEMMA OtherControl ==
  ASSUME CInv, UNCHANGED <<pc, arrived, machine, tcr>>,
         \/ UNCHANGED tlb
         \/ \E p \in Roles : \E v : tlb' = [tlb EXCEPT ![p] = v]
  PROVE  CInv'
<1> USE DEF CInv
<1>1. given' = given /\ feature_check(conf)' = feature_check(conf) /\ test' = test
  BY DEF given, conf, feature_check, machine
<1>2. TypeOK'
  BY TypesKept DEF TypeOK
<1>3. Control'
  BY <1>1, Zenon DEF Control
<1>4. \A k : inside(k)' = inside(k) /\ waiting(k)' = waiting(k)
  BY <1>1, Zenon DEF inside, waiting
<1>5. \A q \in Roles : segment(q)' = segment(q)
  BY <1>4, Zenon DEF segment
<1>6. Together'
  BY <1>5, Zenon DEF Together
<1> QED BY <1>2, <1>3, <1>6

LEMMA StartControl == CInv /\ StartTest => CInv'
<1> SUFFICES ASSUME CInv, StartTest PROVE CInv'
  OBVIOUS
<1> USE DEF CInv
<1>1. \A p \in Roles : pc[p] = "idle" /\ p \notin arrived
  BY DEF StartTest, Control, Entered
<1>2. test' \in 0..NTests /\ test' > 0
  BY TestsAssumption DEF StartTest, TypeOK
<1>3. CASE feature_check(tests[test'])
  <2>1. \A p \in Roles : pc'[p] = "start" /\ p \notin arrived'
    BY <1>1, <1>3 DEF StartTest
  <2>2. TypeOK'
    BY <1>2, <1>3 DEF StartTest, TypeOK, Labels
  <2>3. feature_check(conf)'
    BY <1>3 DEF StartTest, conf, feature_check
  <2>4. Control'
    BY <2>1, <2>3, <1>2 DEF Control, Before, After
  <2>5. \A p \in Roles : segment(p)' = inside("start")'
    BY <2>1, Zenon DEF segment
  <2> QED BY <2>2, <2>4, <2>5 DEF Together
<1>4. CASE ~feature_check(tests[test'])
  <2>1. \A p \in Roles : pc'[p] = "idle" /\ p \notin arrived'
    BY <1>1, <1>4 DEF StartTest
  <2>2. TypeOK'
    BY <1>2, <1>4 DEF StartTest, TypeOK, Labels
  <2>3. Control'
    BY <2>1 DEF Control, Before, After
  <2>4. \A p \in Roles : segment(p)' = inside("idle")'
    BY <2>1, Zenon DEF segment
  <2> QED BY <2>2, <2>3, <2>4 DEF Together
<1> QED BY <1>3, <1>4

-----------------------------------------------------------------------------
(* Entries as sets of bits.                                                *)

LEMMA PteX == /\ managed(pte_x, "R") = pte_x /\ managed(pte_x, "W") = pte_x
              /\ has(pte_x, msk_valid) /\ has(pte_x, msk_af) /\ ~has(pte_x, msk_db)
BY PteAssumption DEF managed, has, msk_valid, msk_af, msk_db

LEMMA Invalid == \A e : ~has(litmus_set_pte_invalid(e), msk_valid)
BY DEF has, litmus_set_pte_invalid, msk_valid

(* Neither the hardware nor litmus_set_pte_attribute changes the address.  *)
LEMMA SameOa == ASSUME NEW e
                PROVE  /\ \A op : litmus_same_oa(managed(e, op), e)
                       /\ \A k : litmus_same_oa(litmus_set_pte_attribute(e, k), e)
                       /\ \A f : litmus_same_oa(f, e) => litmus_same_oa(e, f)
                       /\ \A f, g : litmus_same_oa(f, e) /\ litmus_same_oa(e, g) => litmus_same_oa(f, g)
<1>1. ASSUME NEW op PROVE litmus_same_oa(managed(e, op), e)
  BY DEF litmus_same_oa, managed, FULL_MASK, msk_af, msk_db
<1>2. \A v : litmus_same_oa(litmus_set_field(e, 8, 2, v), e)
  BY DEF litmus_same_oa, litmus_set_field, FULL_MASK
<1>3. \A v : litmus_same_oa(litmus_set_field(e, 2, 4, v), e)
  BY DEF litmus_same_oa, litmus_set_field, FULL_MASK
<1>4. ASSUME NEW k PROVE litmus_same_oa(litmus_set_pte_attribute(e, k), e)
  BY <1>2, <1>3 DEF litmus_set_pte_attribute, litmus_set_sh, litmus_set_memattr
<1> QED BY <1>1, <1>4 DEF litmus_same_oa

LEMMA FreshEntry ==
  ASSUME NEW e
  PROVE  /\ fresh(e, e)
         /\ \A t, op : fresh(t, e) => fresh(t, managed(e, op))
<1>1. fresh(e, e)
  BY DEF fresh
<1>2. ASSUME NEW t, NEW op, fresh(t, e) PROVE fresh(t, managed(e, op))
  BY <1>2 DEF fresh, managed, has, msk_af, msk_db
<1> QED BY <1>1, <1>2

(* An access, by walking or not.                                           *)
LEMMA AccessCases ==
  ASSUME TypeOK, NEW p \in Roles, NEW op, Access(p, op)
  PROVE  \/ pte' = pte /\ \A q \in Roles : tlb'[q] = tlb[q]
         \/ /\ pte' = managed(pte, op)
            /\ \A q \in Roles : tlb'[q] = IF q = p THEN managed(pte, op) ELSE tlb[q]
<1> DEFINE e == IF hit(p, op) THEN pte ELSE managed(pte, op)
<1>1. pte' = e /\ tlb' = [tlb EXCEPT ![p] = IF hit(p, op) THEN @ ELSE e]
  BY Zenon DEF Access
<1>2. CASE hit(p, op)
  BY <1>1, <1>2 DEF TypeOK
<1>3. CASE ~hit(p, op)
  BY <1>1, <1>3 DEF TypeOK
<1> QED BY <1>2, <1>3

LEMMA AccessAtRest ==
  ASSUME TypeOK, NEW p \in Roles, Access(p, "R"),
         pte = pte_x, \A q \in Roles : tlb[q] \in {NoEntry, pte_x}
  PROVE  pte' = pte_x /\ \A q \in Roles : tlb'[q] \in {NoEntry, pte_x}
BY AccessCases, PteX

LEMMA AccessFresh ==
  ASSUME TypeOK, NEW p \in Roles, NEW op, Access(p, op),
         \A q \in Roles : tlb[q] # NoEntry => fresh(tlb[q], pte)
  PROVE  \A q \in Roles : tlb'[q] # NoEntry => fresh(tlb'[q], pte')
<1>1. CASE pte' = pte /\ \A q \in Roles : tlb'[q] = tlb[q]
  BY <1>1
<1>2. CASE /\ pte' = managed(pte, op)
           /\ \A q \in Roles : tlb'[q] = IF q = p THEN managed(pte, op) ELSE tlb[q]
  <2> TAKE q \in Roles
  <2>1. CASE q = p
    BY <1>2, <2>1, FreshEntry
  <2>2. CASE q # p
    BY <1>2, <2>2, FreshEntry
  <2> QED BY <2>1, <2>2
<1> QED BY <1>1, <1>2, AccessCases

-----------------------------------------------------------------------------
(* The entry and its translations.                                         *)

(* A step that leaves the entry and the translations at rest.              *)
LEMMA RestStep ==
  ASSUME saved' = pte_x, pte' = pte_x, \A p \in Roles : tlb'[p] \in {NoEntry, pte_x},
         pc'[owner] \notin {"flush", "make", "attr", "store", "last", "rbreak", "rflush", "rmake"}
  PROVE  EntryInv'
<1>1. Rest' /\ Restoring' /\ Broken' /\ Made'
  BY DEF Rest, Restoring, Broken, Made, NoEntry
<1>2. fresh(pte_x, pte_x)
  BY FreshEntry
<1>3. \A p \in Roles : tlb'[p] # NoEntry => fresh(tlb'[p], pte')
  BY <1>2
<1>4. Fresh'
  BY <1>3, Zenon DEF Fresh, NoEntry
<1> QED BY <1>1, <1>4 DEF EntryInv

(* A step that does not concern the entry.                                 *)
LEMMA QuietStep ==
  ASSUME EntryInv, UNCHANGED <<pte, tlb, saved, arg>>,
         AtRest' => AtRest, RunsFresh' => RunsFresh,
         \/ pc'[owner] = pc[owner]
         \/ pc'[owner] \notin {"flush", "make", "attr", "store", "last", "rbreak", "rflush", "rmake"}
  PROVE  EntryInv'
<1> USE DEF EntryInv
<1>1. Rest'
  BY Zenon DEF Rest, NoEntry
<1>2. Restoring' /\ Broken'
  BY DEF Restoring, Broken, NoEntry
<1>3. Made'
  BY DEF Made, NoEntry
<1>4. Fresh'
  BY Zenon DEF Fresh, NoEntry
<1> QED BY <1>1, <1>2, <1>3, <1>4

LEMMA InitEntry == Init => EntryInv
BY TestsAssumption DEF Init, EntryInv, Rest, Restoring, Broken, Made, Fresh, RunsFresh, NoEntry

(* Between the collection and the initial entry of the next iteration.     *)
LEMMA OutsideEntry ==
  ASSUME CInv, EntryInv, NEW p \in Roles,
         \/ Start(p) \/ EndTest(p) \/ NextIteration(p) \/ EnterRun(p)
         \/ InitVars(p) \/ Touch(p) \/ Add(p)
  PROVE  EntryInv'
<1>1. p \notin arrived /\ pc[p] \in {"start", "top", "do_run", "init", "touch", "add"}
  BY DEF Start, EndTest, NextIteration, EnterRun, InitVars, Touch, Add, At
<1>2. AtRest
  BY <1>1, OwnerIs DEF AtRest, CInv
<1>3. pte = pte_x /\ saved = pte_x /\ \A q \in Roles : tlb[q] \in {NoEntry, pte_x}
  BY <1>2 DEF EntryInv, Rest, Restoring
<1>4. PICK l \in {"top", "idle", "do_run", "init", "touch", "arg", "sync"} : goto(p, l)
  BY DEF Start, EndTest, NextIteration, EnterRun, InitVars, Touch, Add
<1>5. owner \in Roles
  BY TestsAssumption
<1>6. pc'[owner] \notin {"flush", "make", "attr", "store", "last", "rbreak", "rflush", "rmake"}
  BY <1>2, <1>4, <1>5 DEF goto, AtRest, CInv, TypeOK
<1>7. saved' = saved /\ pte' = pte_x /\ \A q \in Roles : tlb'[q] \in {NoEntry, pte_x}
  <2> USE DEF CInv, TypeOK, NoEntry
  <2>1. CASE Start(p)
    BY <2>1, <1>3 DEF Start, SetTcr
  <2>2. CASE EndTest(p)
    BY <2>2, <1>3 DEF EndTest, SetTcr
  <2>3. CASE NextIteration(p) \/ EnterRun(p) \/ Add(p)
    BY <2>3, <1>3 DEF NextIteration, EnterRun, Add
  <2>4. CASE InitVars(p)
    BY <2>4, <1>3 DEF InitVars, flush_all
  <2>5. CASE Touch(p)
    <3>1. CASE Access(p, "R")
      BY <2>5, <3>1, <1>3, AccessAtRest DEF Touch
    <3>2. CASE UNCHANGED <<pte, tlb, expect>>
      BY <2>5, <3>2, <1>3 DEF Touch
    <3> QED BY <2>5, <3>1, <3>2 DEF Touch
  <2> QED BY <2>1, <2>2, <2>3, <2>4, <2>5
<1> QED BY <1>3, <1>6, <1>7, RestStep

LEMMA StartEntry == CInv /\ EntryInv /\ StartTest => EntryInv'
<1> SUFFICES ASSUME CInv, EntryInv, StartTest PROVE EntryInv'
  OBVIOUS
<1>1. owner \in Roles /\ pc[owner] = "idle"
  BY TestsAssumption DEF StartTest
<1>2. pte = pte_x /\ saved = pte_x /\ \A q \in Roles : tlb[q] \in {NoEntry, pte_x}
  BY <1>1 DEF EntryInv, Rest, Restoring, AtRest
<1>3. pc'[owner] \in {"idle", "start"} /\ saved' = pte_x
  BY <1>1, <1>2 DEF StartTest
<1> QED BY <1>2, <1>3, RestStep DEF StartTest

(* The code of the test, and the other roles while the owner restores.     *)
LEMMA InCodeEntry ==
  ASSUME CInv, EntryInv, NEW p \in Roles,
         Sync(p) \/ EndCode(p) \/ Fault(p) \/ Execute(p) \/ Collect(p)
  PROVE  EntryInv'
<1>1. owner \in Roles /\ given' = given
  BY TestsAssumption DEF Sync, EndCode, Fault, Execute, Collect, given, conf, machine
<1>2. CASE Sync(p)
  <2>1. /\ pc'[p] = "code" /\ \A q \in Roles \ {p} : pc'[q] = pc[q]
        /\ p \notin arrived /\ pc[p] = "sync"
        /\ \A q \in Roles \ {p} : q \in arrived' => q \in arrived
    BY <1>2 DEF Sync, goto, At, CInv, TypeOK, barrier_wait
  <2>2. AtRest' => AtRest
    BY <1>1, <2>1 DEF AtRest
  <2>3. RunsFresh' => RunsFresh
    BY <1>1, <1>2, <2>1 DEF RunsFresh, Sync, history
  <2> QED BY <1>1, <1>2, <2>1, <2>2, <2>3, QuietStep DEF Sync
<1>3. CASE EndCode(p)
  <2>1. /\ pc'[p] = (IF p = owner THEN "restore" ELSE "collect")
        /\ \A q \in Roles \ {p} : pc'[q] = pc[q]
        /\ p \notin arrived /\ pc[p] = "code"
        /\ \A q \in Roles \ {p} : q \in arrived' => q \in arrived
    BY <1>3 DEF EndCode, goto, At, CInv, TypeOK, barrier_wait
  <2>2. AtRest' => AtRest
    BY <1>1, <2>1 DEF AtRest
  <2>3. RunsFresh' => RunsFresh
    BY <1>1, <1>3, <2>1 DEF RunsFresh, EndCode, history
  <2> QED BY <1>1, <1>3, <2>1, <2>2, <2>3, QuietStep DEF EndCode
<1>4. CASE Fault(p)
  <2>1. UNCHANGED <<pc, arrived, pte, tlb, saved, arg, own>>
    BY <1>4 DEF Fault
  <2>2. (AtRest' => AtRest) /\ (RunsFresh' => RunsFresh)
    BY <1>1, <2>1 DEF AtRest, RunsFresh
  <2> QED BY <2>1, <2>2, QuietStep
<1>5. CASE Execute(p)
  <2>1. /\ UNCHANGED <<pc, arrived, saved, arg>>
        /\ \/ \E op : Access(p, op) /\ UNCHANGED own
           \/ own'
    BY <1>5 DEF Execute
  <2>2. \/ pc[owner] = "code" /\ owner \notin arrived
        \/ pc[owner] = "restore" /\ owner \in arrived
    BY <1>5, OwnerIs DEF Execute, InCode, At, CInv
  <2>3. Rest' /\ Restoring' /\ Broken' /\ Made'
    BY <2>1, <2>2 DEF EntryInv, Rest, AtRest, Restoring, Broken, Made
  <2>4. CASE own'
    BY <2>1, <2>2, <2>3, <2>4 DEF Fresh, RunsFresh, EntryInv
  <2>5. ASSUME NEW op, Access(p, op), UNCHANGED own, ~own' PROVE Fresh'
    <3>1. RunsFresh
      BY <2>2, <2>5 DEF RunsFresh
    <3>2. \A q \in Roles : tlb[q] # NoEntry => fresh(tlb[q], pte)
      BY <3>1 DEF Fresh, EntryInv
    <3>3. \A q \in Roles : tlb'[q] # NoEntry => fresh(tlb'[q], pte')
      BY <3>2, <2>5, AccessFresh DEF CInv
    <3> QED BY <3>3, Zenon DEF Fresh, NoEntry
  <2> QED BY <2>1, <2>3, <2>4, <2>5, Zenon DEF EntryInv
<1>6. CASE Collect(p)
  <2>1. /\ pc'[p] = "add" /\ \A q \in Roles \ {p} : pc'[q] = pc[q]
        /\ p \notin arrived /\ pc[p] = "collect"
        /\ \A q \in Roles \ {p} : q \in arrived' => q \in arrived
    BY <1>6 DEF Collect, goto, At, CInv, TypeOK, barrier_wait
  <2>2. CASE p = owner
    <3>1. pte = pte_x /\ saved = pte_x /\ \A q \in Roles : tlb[q] \in {NoEntry, pte_x}
      BY <2>1, <2>2 DEF EntryInv, Rest, AtRest, Restoring
    <3>2. saved' = pte_x /\ pte' = pte_x /\ \A q \in Roles : tlb'[q] \in {NoEntry, pte_x}
      BY <1>6, <2>2, <3>1, AccessAtRest DEF Collect, CInv
    <3> QED BY <2>1, <2>2, <3>2, RestStep
  <2>3. CASE p # owner
    <3>1. \/ pc[owner] \in After \cup {"collect"} /\ owner \notin arrived
          \/ pc[owner] = "add" /\ owner \in arrived
      BY <2>1, OwnerIs DEF CInv
    <3>2. pc'[owner] = pc[owner] /\ (owner \in arrived' => owner \in arrived)
      BY <1>1, <2>1, <2>3
    <3>3. (AtRest' => AtRest) /\ (RunsFresh' => RunsFresh)
      BY <3>1, <3>2, <1>1 DEF AtRest, RunsFresh, After
    <3> QED BY <1>6, <2>3, <3>2, <3>3, QuietStep DEF Collect
  <2> QED BY <2>2, <2>3
<1> QED BY <1>2, <1>3, <1>4, <1>5, <1>6

(* The owner changes the entry.                                            *)
LEMMA OwnerEntry ==
  ASSUME CInv, EntryInv, NEW p \in Roles,
         \/ Argument(p) \/ Break(p) \/ Flush(p) \/ Make(p)
         \/ ReadAttr(p) \/ StoreAttr(p) \/ FlushLast(p)
  PROVE  EntryInv'
<1>1. pc[p] \in Before \cup After /\ p \notin arrived
  BY DEF Argument, Break, Flush, Make, ReadAttr, StoreAttr, FlushLast, At, Before, After
<1>2. p = owner /\ owner \in Roles
  BY <1>1 DEF CInv, Control
<1>3. UNCHANGED <<machine, arrived, saved>> /\ given' = given
  BY DEF Argument, Break, Flush, Make, ReadAttr, StoreAttr, FlushLast, machine, given, conf
<1>4. \A l : goto(p, l) => pc'[owner] = l
  BY <1>2 DEF goto, CInv, TypeOK
<1>5. saved = pte_x /\ owner \notin arrived'
  BY <1>1, <1>2, <1>3 DEF EntryInv, Restoring
<1> USE DEF At, CInv, EntryInv, Before, After
<1>6. CASE Argument(p)
  <2>1. CASE pc[owner] = "arg"
    <3>1. pc'[owner] = "break" /\ UNCHANGED <<pte, tlb, saved>>
      BY <1>2, <1>4, <1>6, <2>1 DEF Argument
    <3>2. pte = pte_x /\ \A q \in Roles : tlb[q] \in {NoEntry, pte_x}
      BY <2>1 DEF Rest, AtRest
    <3> QED BY <3>1, <3>2, <1>5, RestStep
  <2>2. CASE pc[owner] = "restore"
    <3>1. pc'[owner] = "rbreak" /\ arg' = pte_x /\ UNCHANGED <<pte, tlb, saved>>
      BY <1>2, <1>4, <1>5, <1>6, <2>2 DEF Argument
    <3> QED BY <3>1, <1>5 DEF Rest, AtRest, Restoring, Broken, Made, Fresh, RunsFresh
  <2> QED BY <1>2, <1>6, <2>1, <2>2 DEF Argument
<1>7. CASE Break(p)
  <2>1. /\ \/ pc[owner] = "break" /\ pc'[owner] = "flush"
           \/ pc[owner] = "rbreak" /\ pc'[owner] = "rflush"
        /\ pte' = litmus_set_pte_invalid(arg) /\ UNCHANGED <<tlb, saved, arg>>
    BY <1>2, <1>4, <1>7 DEF Break
  <2>2. ~has(pte', msk_valid)
    BY <2>1, Invalid
  <2>3. Rest' /\ Restoring' /\ Made' /\ Fresh'
    BY <1>5, <2>1 DEF Rest, AtRest, Restoring, Made, Fresh, RunsFresh
  <2>4. Broken'
    BY <2>1, <2>2 DEF Broken
  <2> QED BY <2>3, <2>4
<1>8. CASE Flush(p)
  <2>1. /\ \/ pc[owner] = "flush" /\ pc'[owner] = "make"
           \/ pc[owner] = "rflush" /\ pc'[owner] = "rmake"
        /\ flush_all /\ UNCHANGED <<pte, saved, arg>>
    BY <1>2, <1>4, <1>8 DEF Flush
  <2>2. \A q \in Roles : tlb'[q] = NoEntry
    BY <2>1 DEF flush_all
  <2>3. Rest' /\ Restoring' /\ Made' /\ Fresh'
    BY <1>5, <2>1 DEF Rest, AtRest, Restoring, Made, Fresh, RunsFresh
  <2>4. Broken'
    BY <2>1, <2>2 DEF Broken, NoEntry
  <2> QED BY <2>3, <2>4
<1>9. CASE Make(p)
  <2>1. pte' = arg /\ UNCHANGED <<tlb, saved, arg>>
    BY <1>9 DEF Make
  <2>2. CASE pc[owner] = "make"
    <3>1. pc'[owner] = "attr"
      BY <1>2, <1>4, <1>9, <2>2 DEF Make
    <3>2. \A q \in Roles : tlb'[q] = NoEntry
      BY <2>1, <2>2 DEF Broken
    <3>3. Made'
      BY <3>1, <3>2 DEF Made, NoEntry
    <3> QED BY <1>5, <2>1, <3>1, <3>3 DEF Rest, AtRest, Restoring, Broken, Fresh, RunsFresh
  <2>3. CASE pc[owner] = "rmake"
    <3>1. pc'[owner] = "rlast"
      BY <1>2, <1>4, <1>9, <2>3 DEF Make
    <3>2. pte' = pte_x /\ \A q \in Roles : tlb'[q] = NoEntry
      BY <2>1, <2>3 DEF Broken, Restoring
    <3> QED BY <1>5, <2>1, <3>1, <3>2, RestStep
  <2> QED BY <1>2, <1>9, <2>2, <2>3 DEF Make
<1>10. CASE ReadAttr(p)
  <2>1. /\ pc[owner] = "attr" /\ UNCHANGED <<pte, tlb, saved>>
        /\ \/ pc'[owner] = "store" /\ \E k : arg' = litmus_set_pte_attribute(pte, k)
           \/ pc'[owner] = "last"
    BY <1>2, <1>4, <1>10 DEF ReadAttr
  <2>2. pc'[owner] = "store" => litmus_same_oa(arg', pte)
    BY <2>1, SameOa
  <2>3. Made'
    BY <2>1, <2>2 DEF Made, NoEntry
  <2> QED BY <1>5, <2>1, <2>3 DEF Rest, AtRest, Restoring, Broken, Fresh, RunsFresh
<1>11. CASE StoreAttr(p)
  <2>1. /\ pc[owner] = "store" /\ pc'[owner] = "attr"
        /\ pte' = arg /\ UNCHANGED <<tlb, saved, arg>>
    BY <1>2, <1>4, <1>11, Zenon DEF StoreAttr
  <2>2. litmus_same_oa(arg, pte) /\ \A q \in Roles : tlb[q] # NoEntry => litmus_same_oa(tlb[q], pte)
    BY <2>1 DEF Made
  <2>3. \A q \in Roles : tlb[q] # NoEntry => litmus_same_oa(tlb[q], arg)
    BY <2>2, SameOa
  <2>4. Made'
    BY <2>1, <2>3 DEF Made, NoEntry
  <2> QED BY <1>5, <2>1, <2>4 DEF Rest, AtRest, Restoring, Broken, Fresh, RunsFresh
<1>12. CASE FlushLast(p)
  <2>1. flush_all /\ UNCHANGED <<pte, saved, arg>> /\ \A q \in Roles : tlb'[q] = NoEntry
    BY <1>12 DEF FlushLast, flush_all
  <2>2. CASE pc[owner] = "last"
    <3>1. pc'[owner] = "sync" /\ given
      BY <1>2, <1>4, <1>12, <2>2 DEF FlushLast, Control
    <3>2. Fresh'
      BY <2>1 DEF Fresh, NoEntry
    <3> QED BY <1>3, <1>5, <2>1, <3>1, <3>2 DEF Rest, AtRest, Restoring, Broken, Made
  <2>3. CASE pc[owner] = "rlast"
    <3>1. pc'[owner] = "collect"
      BY <1>2, <1>4, <1>12, <2>3 DEF FlushLast
    <3>2. pte = pte_x
      BY <2>3 DEF Rest, AtRest
    <3> QED BY <1>5, <2>1, <3>1, <3>2, RestStep
  <2> QED BY <1>2, <1>12, <2>2, <2>3 DEF FlushLast
<1> QED BY <1>6, <1>7, <1>8, <1>9, <1>10, <1>11, <1>12

(* A speculative walk at any time.                                         *)
LEMMA SpeculateEntry ==
  ASSUME CInv, EntryInv, NEW p \in Roles, Speculate(p)
  PROVE  EntryInv'
<1> USE DEF EntryInv
<1>1. /\ UNCHANGED <<pc, arrived, saved, arg, own, machine>> /\ has(pte, msk_valid)
      /\ pte' = managed(pte, "R")
      /\ \A q \in Roles : tlb'[q] = IF q = p THEN pte' ELSE tlb[q]
  BY DEF Speculate, control, CInv, TypeOK
<1>2. given' = given /\ (AtRest' <=> AtRest) /\ (RunsFresh' <=> RunsFresh)
  BY <1>1 DEF machine, given, conf, AtRest, RunsFresh
<1>3. Rest'
  <2> SUFFICES ASSUME AtRest PROVE pte' = pte_x /\ \A q \in Roles : tlb'[q] \in {NoEntry, pte_x}
    BY <1>2, Zenon DEF Rest, NoEntry
  <2>1. pte = pte_x /\ \A q \in Roles : tlb[q] \in {NoEntry, pte_x}
    BY DEF Rest
  <2> QED BY <1>1, <2>1, PteX
<1>4. Restoring' /\ Broken'
  BY <1>1 DEF Restoring, Broken
<1>5. Made'
  <2> SUFFICES ASSUME pc[owner] \in {"attr", "store", "last"}
               PROVE  /\ \A q \in Roles : tlb'[q] # NoEntry => litmus_same_oa(tlb'[q], pte')
                      /\ pc[owner] = "store" => litmus_same_oa(arg, pte')
    BY <1>1 DEF Made, NoEntry
  <2>1. /\ \A q \in Roles : tlb[q] # NoEntry => litmus_same_oa(tlb[q], pte)
        /\ pc[owner] = "store" => litmus_same_oa(arg, pte)
    BY DEF Made
  <2>2. litmus_same_oa(pte, pte') /\ litmus_same_oa(pte', pte')
    BY <1>1, SameOa DEF litmus_same_oa
  <2>3. \A e : litmus_same_oa(e, pte) => litmus_same_oa(e, pte')
    BY <2>2, SameOa
  <2> QED BY <1>1, <2>1, <2>2, <2>3
<1>6. Fresh'
  <2> SUFFICES ASSUME RunsFresh
               PROVE  \A q \in Roles : tlb'[q] # NoEntry => fresh(tlb'[q], pte')
    BY <1>2, Zenon DEF Fresh, NoEntry
  <2>1. \A q \in Roles : tlb[q] # NoEntry => fresh(tlb[q], pte)
    BY DEF Fresh
  <2>2. fresh(pte', pte') /\ \A t : fresh(t, pte) => fresh(t, pte')
    BY <1>1, FreshEntry
  <2> QED BY <1>1, <2>1, <2>2
<1> QED BY <1>3, <1>4, <1>5, <1>6

-----------------------------------------------------------------------------

LEMMA NextIInv == IInv /\ [Next]_vars => IInv'
<1> SUFFICES ASSUME CInv, EntryInv, [Next]_vars PROVE CInv' /\ EntryInv'
  BY DEF IInv, CInv
<1>1. CASE StartTest
  BY <1>1, StartControl, StartEntry
<1>2. ASSUME NEW p \in Roles, do_run(p) PROVE CInv' /\ EntryInv'
  <2>1. CASE Start(p) \/ EndTest(p) \/ NextIteration(p) \/ EnterRun(p) \/ InitVars(p) \/ Add(p)
    BY <2>1, InsideControl, BarrierControl, OutsideEntry
  <2>2. CASE Touch(p)
    BY <2>2, InsideControl, BarrierControl, OutsideEntry
  <2>3. CASE Argument(p) \/ Break(p) \/ Flush(p) \/ Make(p) \/ ReadAttr(p) \/ StoreAttr(p) \/ FlushLast(p)
    BY <2>3, InsideControl, OwnerEntry
  <2>4. CASE Sync(p) \/ EndCode(p) \/ Collect(p)
    BY <2>4, BarrierControl, InCodeEntry
  <2>5. CASE Execute(p)
    <3>1. /\ UNCHANGED <<pc, arrived, machine, tcr>>
          /\ (\E op : Access(p, op)) \/ UNCHANGED tlb
      BY <2>5 DEF Execute
    <3>2. \A op : Access(p, op) => \E v : tlb' = [tlb EXCEPT ![p] = v]
      BY Zenon DEF Access
    <3> QED BY <2>5, <3>1, <3>2, OtherControl, InCodeEntry
  <2>6. CASE Fault(p)
    <3>1. UNCHANGED <<pc, arrived, machine, tcr, tlb>>
      BY <2>6 DEF Fault
    <3> QED BY <2>6, <3>1, OtherControl, InCodeEntry
  <2> QED BY <1>2, <2>1, <2>2, <2>3, <2>4, <2>5, <2>6 DEF do_run
<1>3. ASSUME NEW p \in Roles, Speculate(p) PROVE CInv' /\ EntryInv'
  <2>1. UNCHANGED <<pc, arrived, machine, tcr>> /\ \E v : tlb' = [tlb EXCEPT ![p] = v]
    BY <1>3 DEF Speculate, control
  <2> QED BY <1>3, <2>1, OtherControl, SpeculateEntry
<1>4. CASE UNCHANGED vars
  <2>1. UNCHANGED <<pc, arrived, machine, tcr, tlb, pte, saved, arg, own>>
    BY <1>4 DEF vars, control, history
  <2>2. (AtRest' => AtRest) /\ (RunsFresh' => RunsFresh)
    BY <2>1 DEF AtRest, RunsFresh, given, conf, machine
  <2> QED BY <2>1, <2>2, OtherControl, QuietStep
<1> QED BY <1>1, <1>2, <1>3, <1>4 DEF Next

(* The roles are always between the same two barriers, and the entry and   *)
(* its translations are as the place of the owner says.                    *)
THEOREM KvmInvariant == Spec => []IInv
<1>1. Init => IInv
  BY InitControl, InitEntry DEF IInv, CInv
<1> QED BY <1>1, NextIInv, PTL DEF Spec

(* litmus_set_pte_safe breaks before it makes: while the owner changes the *)
(* entry, no processor has a translation to another page than a valid      *)
(* entry in memory, even if TLBs are filled in between.                    *)
THEOREM BreaksBeforeMake == Spec => []BreakBeforeMake
<1>1. IInv => BreakBeforeMake
  <2> SUFFICES ASSUME IInv, NEW p \in Roles,
                      pc[owner] \in {"flush", "make", "attr", "store", "last", "rflush", "rmake", "rlast"},
                      tlb[p] # NoEntry, has(pte, msk_valid)
               PROVE  litmus_same_oa(tlb[p], pte)
    BY DEF BreakBeforeMake
  <2>1. pc[owner] \notin {"flush", "make", "rflush", "rmake"}
    BY DEF IInv, EntryInv, Broken
  <2>2. CASE pc[owner] = "rlast"
    BY <2>2 DEF IInv, EntryInv, Rest, AtRest, litmus_same_oa
  <2> QED BY <2>1, <2>2 DEF IInv, EntryInv, Made
<1> QED BY <1>1, KvmInvariant, PTL

(* The flush after the last change of the entry is enough: the code of the *)
(* test starts with translations of the entry that was installed.          *)
THEOREM StartsFresh == Spec => []FreshTranslations
<1>1. IInv => FreshTranslations
  <2> SUFFICES ASSUME IInv, NEW p \in Roles, NEW q \in Roles,
                      pc[q] = "code", q \notin arrived, ~own, tlb[p] # NoEntry
               PROVE  fresh(tlb[p], pte)
    BY DEF FreshTranslations, fresh
  <2>1. RunsFresh
    BY OwnerIs DEF IInv, RunsFresh
  <2> QED BY <2>1 DEF IInv, EntryInv, Fresh
<1> QED BY <1>1, KvmInvariant, PTL

(* The accesses of the harness never fault and reach the page of x.        *)
THEOREM HarnessUndisturbed == Spec => []Undisturbed
<1>1. IInv => Undisturbed
  <2> SUFFICES ASSUME IInv, NEW p \in Roles, NEW op \in {"R", "W"},
                      \/ At(p, "init") /\ p = owner /\ op = "W"
                      \/ At(p, "touch") /\ op = "R"
                      \/ At(p, "collect") /\ p = owner /\ op = "R"
               PROVE  dfsc(p, op) = 0 /\ litmus_same_oa(used(p, op), pte_x)
    BY DEF Undisturbed
  <2>1. AtRest
    BY OwnerIs DEF IInv, At, AtRest
  <2>2. pte = pte_x /\ tlb[p] \in {NoEntry, pte_x}
    BY <2>1 DEF IInv, EntryInv, Rest
  <2>3. ~has(NoEntry, msk_valid)
    BY DEF has, NoEntry, msk_valid
  <2>4. used(p, op) = pte_x
    BY <2>2, <2>3 DEF used, hit
  <2>5. dfsc(p, op) = 0
    BY <2>4, PteX DEF dfsc
  <2> QED BY <2>4, <2>5 DEF litmus_same_oa
<1> QED BY <1>1, KvmInvariant, PTL

-----------------------------------------------------------------------------
(* The logged entry.  What the test expects is what the entry shows from   *)
(* the initialisation on until it is restored, and what the logged entry   *)
(* shows from then on.  In between, the entry is broken, or is made and    *)
(* gets its attributes: there the argument of the next store matters.      *)

index(e) == IF litmus_same_oa(e, pte_x) THEN 0
            ELSE IF litmus_same_oa(e, pte_y) THEN 1 ELSE NVARS
bit(c) == IF c THEN 1 ELSE 0

shown(e) == [oa |-> index(e), af |-> bit(10 \in e), db |-> bit(7 \notin e),
             dbm |-> bit(51 \in e), valid |-> bit(0 \in e), el0 |-> bit(6 \in e)]

Installed == {"touch", "arg", "break", "attr", "store", "last", "sync", "code", "restore", "rbreak"}
Logged == {"rflush", "rmake", "rlast", "collect", "add", "top", "idle", "start", "do_run"}

Shown == /\ pc[owner] \in Installed => expect = shown(pte)
         /\ pc[owner] \in Logged => expect = shown(log)
         /\ pc[owner] \in {"flush", "make"} => expect = shown(pte_x)
         /\ pc[owner] \in {"break", "flush", "make"} => arg = value(conf.init, pte_x)
         /\ pc[owner] = "store" => shown(arg) = [shown(pte) EXCEPT !.af = bit(10 \in arg)]

Pointers == ip \in [Roles -> Nat \ {0}]

LEMMA PresentTest == TypeOK /\ test > 0 => conf \in Tests
<1>1. NTests \in Nat
  BY TestsAssumption
<1> QED BY <1>1 DEF TypeOK, conf

(* Packing keeps all that is shown, and unpacking finds it again.          *)
LEMMA PackShown ==
  ASSUME NEW e
  PROVE  /\ pack_pte(index(e), e) = pack_pack(shown(e))
         /\ unpack(pack_pack(shown(e))) = shown(e)
<1> DEFINE o == index(e)
           a == bit(10 \in e)
           b == bit(7 \notin e)
           c == bit(51 \in e)
           d == bit(0 \in e)
           f == bit(6 \in e)
<1>1. /\ o \in {0, 1, 2}
      /\ a \in {0, 1} /\ b \in {0, 1} /\ c \in {0, 1} /\ d \in {0, 1} /\ f \in {0, 1}
  BY DEF index, bit, NVARS
<1>2. /\ shown(e).oa = o /\ shown(e).af = a /\ shown(e).db = b
      /\ shown(e).dbm = c /\ shown(e).valid = d /\ shown(e).el0 = f
  BY DEF shown
<1>3. shown(e) = [oa |-> o, af |-> a, db |-> b, dbm |-> c, valid |-> d, el0 |-> f]
  BY Zenon DEF shown
<1>4. /\ pack_flag(e, msk_af, AF_PACKED) = a
      /\ pack_flag(xor(e, msk_db), msk_db, DB_PACKED) = 2 * b
      /\ pack_flag(e, msk_dbm, DBM_PACKED) = 4 * c
      /\ pack_flag(e, msk_valid, VALID_PACKED) = 8 * d
      /\ pack_flag(e, msk_el0, EL0_PACKED) = 16 * f
  <2>1. /\ 2^AF_PACKED = 1 /\ 2^DB_PACKED = 2 /\ 2^DBM_PACKED = 4
        /\ 2^VALID_PACKED = 8 /\ 2^EL0_PACKED = 16
    BY DEF AF_PACKED, DB_PACKED, DBM_PACKED, VALID_PACKED, EL0_PACKED
  <2>2. /\ (e \cap msk_af # {}) <=> 10 \in e
        /\ (xor(e, msk_db) \cap msk_db # {}) <=> 7 \notin e
        /\ (e \cap msk_dbm # {}) <=> 51 \in e
        /\ (e \cap msk_valid # {}) <=> 0 \in e
        /\ (e \cap msk_el0 # {}) <=> 6 \in e
    BY DEF msk_af, msk_db, msk_dbm, msk_valid, msk_el0, xor
  <2> QED BY <2>1, <2>2 DEF pack_flag, bit
<1>5. pack_pack(shown(e)) = o * 32 + a + 2 * b + 4 * c + 8 * d + 16 * f
  <2>1. pack_pack(shown(e)) = o * 2^5 + a * 2^0 + b * 2^1 + c * 2^2 + d * 2^3 + f * 2^4
    BY <1>2, Zenon DEF pack_pack, OA_PACKED, AF_PACKED, DB_PACKED, DBM_PACKED, VALID_PACKED, EL0_PACKED
  <2>2. 2^5 = 32 /\ 2^0 = 1 /\ 2^1 = 2 /\ 2^2 = 4 /\ 2^3 = 8 /\ 2^4 = 16
    OBVIOUS
  <2> HIDE DEF o, a, b, c, d, f
  <2> QED BY <1>1, <2>1, <2>2
<1>6. pack_pte(index(e), e) = o * 32 + a + 2 * b + 4 * c + 8 * d + 16 * f
  <2>1. 2^OA_PACKED = 32
    BY DEF OA_PACKED
  <2> QED BY <1>4, <2>1, Zenon DEF pack_pte
<1>7. unpack(pack_pack(shown(e))) = shown(e)
  <2> DEFINE v == pack_pack(shown(e))
  <2>1. /\ v \div 32 = o /\ v % 2 = a /\ (v \div 2) % 2 = b /\ (v \div 4) % 2 = c
        /\ (v \div 8) % 2 = d /\ (v \div 16) % 2 = f /\ v \div 1 = v
    <3> HIDE DEF o, a, b, c, d, f
    <3> QED BY <1>1, <1>5
  <2>2. 2^5 = 32 /\ 2^0 = 1 /\ 2^1 = 2 /\ 2^2 = 4 /\ 2^3 = 8 /\ 2^4 = 16
    OBVIOUS
  <2> HIDE DEF o, a, b, c, d, f, v
  <2>3. unpack(v) = [oa |-> v \div 2^5, af |-> (v \div 2^0) % 2, db |-> (v \div 2^1) % 2,
                     dbm |-> (v \div 2^2) % 2, valid |-> (v \div 2^3) % 2, el0 |-> (v \div 2^4) % 2]
    BY Zenon DEF unpack, unpack_flag, OA_PACKED, AF_PACKED, DB_PACKED, DBM_PACKED,
                 VALID_PACKED, EL0_PACKED
  <2>4. unpack(v) = [oa |-> o, af |-> a, db |-> b, dbm |-> c, valid |-> d, el0 |-> f]
    BY <2>1, <2>2, <2>3, Zenon
  <2> QED BY <1>3, <2>4, Zenon DEF v
<1> QED BY <1>5, <1>6, <1>7

(* What the test says of an entry, flag by flag.                           *)
LEMMA EntryShown ==
  ASSUME NEW oa, NEW flags
  PROVE  entry(oa, flags) = [oa |-> oa, af |-> bit(10 \in flags), db |-> bit(7 \in flags),
                             dbm |-> bit(51 \in flags), valid |-> bit(0 \in flags),
                             el0 |-> bit(6 \in flags)]
<1>1. /\ msk_af \subseteq flags <=> 10 \in flags
      /\ msk_db \subseteq flags <=> 7 \in flags
      /\ msk_dbm \subseteq flags <=> 51 \in flags
      /\ msk_valid \subseteq flags <=> 0 \in flags
      /\ msk_el0 \subseteq flags <=> 6 \in flags
  BY DEF msk_af, msk_db, msk_dbm, msk_valid, msk_el0
<1> QED BY <1>1 DEF entry, bit

LEMMA MskFull == msk_full = {0, 6, 7, 10, 51}
BY DEF msk_full, msk_valid, msk_el0, msk_db, msk_af, msk_dbm

(* Entries with the same address and flags show the same.                  *)
LEMMA SameShown ==
  ASSUME NEW e, NEW oa \in 0..1, NEW flags,
         litmus_same_oa(e, IF oa = 0 THEN pte_x ELSE pte_y),
         10 \in e <=> 10 \in flags, 7 \notin e <=> 7 \in flags, 51 \in e <=> 51 \in flags,
         0 \in e <=> 0 \in flags, 6 \in e <=> 6 \in flags
  PROVE  shown(e) = entry(oa, flags)
<1>1. index(e) = oa
  BY PteAssumption DEF index, litmus_same_oa
<1> QED BY <1>1, EntryShown DEF shown, bit

LEMMA DefaultShown == /\ default = shown(pte_x)
                      /\ \A oa \in 0..1 : [default EXCEPT !.oa = oa] = shown(IF oa = 0 THEN pte_x ELSE pte_y)
<1> DEFINE flags == xor(pte_x, msk_db) \cap msk_full
<1>1. /\ 10 \in pte_x <=> 10 \in flags
      /\ 7 \notin pte_x <=> 7 \in flags
      /\ 51 \in pte_x <=> 51 \in flags
      /\ 0 \in pte_x <=> 0 \in flags
      /\ 6 \in pte_x <=> 6 \in flags
  BY MskFull DEF xor, msk_db
<1>2. \A b \in msk_full : b \in pte_y <=> b \in pte_x
  BY PteAssumption
<1>3. /\ 10 \in pte_y <=> 10 \in flags
      /\ 7 \notin pte_y <=> 7 \in flags
      /\ 51 \in pte_y <=> 51 \in flags
      /\ 0 \in pte_y <=> 0 \in flags
      /\ 6 \in pte_y <=> 6 \in flags
  BY <1>1, <1>2, MskFull
<1> HIDE DEF flags
<1>4. litmus_same_oa(pte_x, pte_x) /\ litmus_same_oa(pte_y, pte_y)
  BY DEF litmus_same_oa
<1>5. shown(pte_x) = entry(0, flags) /\ shown(pte_y) = entry(1, flags)
  BY <1>1, <1>3, <1>4, SameShown
<1>6. [entry(0, flags) EXCEPT !.oa = 0] = entry(0, flags)
  BY EntryShown
<1>7. [entry(0, flags) EXCEPT !.oa = 1] = entry(1, flags)
  BY EntryShown
<1>8. default = entry(0, flags)
  BY DEF default, flags
<1> QED BY <1>5, <1>6, <1>7, <1>8

(* The entry that is written shows what the test expects of it.            *)
LEMMA ExpectedShown ==
  ASSUME NEW i, describes(i), saved = pte_x,
         i.kind \in {"P", "V"} \/ (i.kind = "Z" /\ expect = shown(pte_x))
  PROVE  expected(i) = shown(value(i, pte_x)) /\ (i.kind # "Z" => \A e : value(i, e) = value(i, pte_x))
<1>1. saved_pte(i.oa) = (IF i.oa = 0 THEN pte_x ELSE pte_y) /\ i.oa \in 0..1 /\ i.flags \subseteq msk_full
  BY DEF saved_pte, describes
<1>2. CASE i.kind = "P"
  BY <1>1, <1>2, DefaultShown DEF expected, value
<1>3. CASE i.kind = "V"
  <2> DEFINE e == litmus_set_pte_flags(saved_pte(i.oa), i.flags)
  <2>1. expected(i) = entry(i.oa, i.flags) /\ \A x : value(i, x) = e
    BY <1>3 DEF expected, value
  <2>2. litmus_same_oa(e, saved_pte(i.oa))
    BY <1>1, MskFull DEF litmus_same_oa, litmus_set_pte_flags, xor, msk_db, FULL_MASK
  <2>3. /\ 10 \in e <=> 10 \in i.flags
        /\ 7 \notin e <=> 7 \in i.flags
        /\ 51 \in e <=> 51 \in i.flags
        /\ 0 \in e <=> 0 \in i.flags
        /\ 6 \in e <=> 6 \in i.flags
    BY <1>1, MskFull DEF litmus_set_pte_flags, xor, msk_db
  <2> HIDE DEF e
  <2>4. shown(e) = entry(i.oa, i.flags)
    BY <1>1, <2>2, <2>3, SameShown
  <2> QED BY <2>1, <2>4
<1>4. CASE i.kind = "Z"
  <2>1. expected(i) = [shown(pte_x) EXCEPT !.valid = 0] /\ value(i, pte_x) = pte_x \ {0}
    BY <1>4 DEF expected, value, litmus_set_pte_invalid, msk_valid
  <2>2. litmus_same_oa(pte_x \ {0}, pte_x)
    BY DEF litmus_same_oa, FULL_MASK
  <2>3. index(pte_x \ {0}) = index(pte_x)
    BY <2>2 DEF index, litmus_same_oa
  <2> QED BY <1>4, <2>1, <2>3 DEF shown, bit
<1> QED BY <1>2, <1>3, <1>4

(* The hardware changes what is shown as the test expects.                 *)
LEMMA ManagedShown ==
  ASSUME NEW e, NEW op, managed(e, op) # e
  PROVE  shown(managed(e, op)) =
           [shown(e) EXCEPT !.af = 1, !.db = IF has(e \ managed(e, op), msk_db) THEN 1 ELSE @]
<1> DEFINE f == managed(e, op)
<1>1. index(f) = index(e)
  <2>1. litmus_same_oa(f, e)
    BY SameOa
  <2> QED BY <2>1 DEF index, litmus_same_oa
<1>2. /\ 10 \in f
      /\ has(e \ f, msk_db) => 7 \notin f
      /\ ~has(e \ f, msk_db) => (7 \in f <=> 7 \in e)
      /\ 51 \in f <=> 51 \in e
      /\ 0 \in f <=> 0 \in e
      /\ 6 \in f <=> 6 \in e
  BY DEF managed, has, msk_af, msk_db
<1> HIDE DEF f
<1>3. shown(f) = [shown(e) EXCEPT !.af = 1, !.db = IF has(e \ f, msk_db) THEN 1 ELSE @]
  <2> DEFINE y == IF has(e \ f, msk_db) THEN 1 ELSE bit(7 \notin e)
  <2>1. shown(f) = [oa |-> index(e), af |-> 1, db |-> y,
                    dbm |-> bit(51 \in e), valid |-> bit(0 \in e), el0 |-> bit(6 \in e)]
    BY <1>1, <1>2 DEF shown, bit
  <2>2. shown(e).db = bit(7 \notin e)
    BY DEF shown
  <2>3. y = IF has(e \ f, msk_db) THEN 1 ELSE shown(e).db
    BY <2>2
  <2> HIDE DEF y
  <2>4. shown(f) = [shown(e) EXCEPT !.af = 1, !.db = y]
    <3> DEFINE o == index(e)
               a == bit(10 \in e)
               b == bit(7 \notin e)
               c == bit(51 \in e)
               d == bit(0 \in e)
               g == bit(6 \in e)
    <3>1. /\ shown(e) = [oa |-> o, af |-> a, db |-> b, dbm |-> c, valid |-> d, el0 |-> g]
          /\ shown(f) = [oa |-> o, af |-> 1, db |-> y, dbm |-> c, valid |-> d, el0 |-> g]
      BY <2>1, Zenon DEF shown
    <3> HIDE DEF o, a, b, c, d, g
    <3>2. [shown(e) EXCEPT !.af = 1]
          = [oa |-> o, af |-> 1, db |-> b, dbm |-> c, valid |-> d, el0 |-> g]
      BY <3>1
    <3>3. [[oa |-> o, af |-> 1, db |-> b, dbm |-> c, valid |-> d, el0 |-> g] EXCEPT !.db = y]
          = [oa |-> o, af |-> 1, db |-> y, dbm |-> c, valid |-> d, el0 |-> g]
      OBVIOUS
    <3>4. [shown(e) EXCEPT !.af = 1, !.db = y] = [[shown(e) EXCEPT !.af = 1] EXCEPT !.db = y]
      OBVIOUS
    <3> QED BY <3>1, <3>2, <3>3, <3>4
  <2>5. \A r, x : [r EXCEPT !.af = 1, !.db = IF x THEN 1 ELSE @]
                  = [r EXCEPT !.af = 1, !.db = IF x THEN 1 ELSE r.db]
    OBVIOUS
  <2> QED BY <2>3, <2>4, <2>5, Zenon
<1> QED BY <1>3 DEF f

LEMMA AccessShown ==
  ASSUME NEW p \in Roles, NEW op, Access(p, op), expect = shown(pte)
  PROVE  expect' = shown(pte')
<1> DEFINE e == IF hit(p, op) THEN pte ELSE managed(pte, op)
<1>1. /\ pte' = e
      /\ expect' = [expect EXCEPT !.af = IF e = pte THEN @ ELSE 1,
                                  !.db = IF has(pte \ e, msk_db) THEN 1 ELSE @]
  BY Zenon DEF Access
<1>2. CASE e = pte
  <2>1. ~has(pte \ e, msk_db)
    BY <1>2 DEF has, msk_db
  <2> QED BY <1>1, <1>2, <2>1 DEF shown
<1>3. CASE e # pte
  <2>1. e = managed(pte, op) /\ managed(pte, op) # pte
    BY <1>3
  <2> HIDE DEF e
  <2>2. shown(e) = [shown(pte) EXCEPT !.af = 1, !.db = IF has(pte \ e, msk_db) THEN 1 ELSE @]
    BY <2>1, ManagedShown
  <2> QED BY <1>1, <1>3, <2>2 DEF shown
<1> QED BY <1>2, <1>3

(* An access that does not change the entry.                               *)
LEMMA AccessStill ==
  ASSUME NEW p \in Roles, NEW op, Access(p, op), pte' = pte, NEW e, expect = shown(e)
  PROVE  expect' = expect
<1>1. expect' = [expect EXCEPT !.af = IF pte' = pte THEN @ ELSE 1,
                               !.db = IF has(pte \ pte', msk_db) THEN 1 ELSE @]
  BY Zenon DEF Access
<1>2. ~has(pte \ pte', msk_db)
  BY DEF has, msk_db
<1> QED BY <1>1, <1>2 DEF shown

LEMMA SpeculateShown ==
  ASSUME NEW p \in Roles, Speculate(p), NEW e, expect = shown(e)
  PROVE  /\ pte' = pte => expect' = expect
         /\ e = pte => expect' = shown(pte')
         /\ pte' = managed(pte, "R")
<1>1. pte' = managed(pte, "R") /\ expect' = [expect EXCEPT !.af = IF pte' = pte THEN @ ELSE 1]
  BY DEF Speculate
<1>2. ~has(pte \ managed(pte, "R"), msk_db)
  BY DEF managed, has, msk_db
<1>3. CASE pte' = pte
  BY <1>1, <1>3 DEF shown
<1>4. CASE pte' # pte
  <2>1. shown(pte') = [shown(pte) EXCEPT !.af = 1, !.db = IF has(pte \ pte', msk_db) THEN 1 ELSE @]
    BY <1>1, <1>4, ManagedShown
  <2> QED BY <1>1, <1>2, <1>4, <2>1 DEF shown
<1> QED BY <1>1, <1>3, <1>4

(* An attribute leaves the flags alone, and so the address.                *)
LEMMA AttributeShown == \A e, k : shown(litmus_set_pte_attribute(e, k)) = shown(e)
<1> SUFFICES ASSUME NEW e, NEW k PROVE shown(litmus_set_pte_attribute(e, k)) = shown(e)
  OBVIOUS
<1> DEFINE f == litmus_set_pte_attribute(e, k)
<1>1. \A b \in {0, 6, 7, 10, 51} : \A v :
        /\ b \in litmus_set_field(e, 8, 2, v) <=> b \in e
        /\ b \in litmus_set_field(e, 2, 4, v) <=> b \in e
  BY DEF litmus_set_field
<1>2. \A b \in {0, 6, 7, 10, 51} : b \in f <=> b \in e
  BY <1>1 DEF litmus_set_pte_attribute, litmus_set_sh, litmus_set_memattr
<1>3. litmus_same_oa(f, e)
  BY SameOa
<1>4. index(f) = index(e)
  BY <1>3 DEF index, litmus_same_oa
<1> HIDE DEF f
<1>5. shown(f) = shown(e)
  BY <1>2, <1>4 DEF shown, bit
<1> QED BY <1>5 DEF f

-----------------------------------------------------------------------------
(* The steps of the tests.                                                 *)

LEMMA PointersStep ==
  ASSUME TypeOK, Pointers, Control, [Next]_vars
  PROVE  Pointers'
<1> USE DEF Pointers
<1>1. CASE StartTest \/ UNCHANGED vars
  BY <1>1 DEF StartTest, vars, control
<1>2. ASSUME NEW p \in Roles, do_run(p) PROVE Pointers'
  <2>1. CASE Fault(p)
    <3>1. /\ conf.handling \in {"fatal", "skip", "handled"} /\ Len(conf.code[p]) \in Nat
      <4>1. test > 0
        BY <2>1 DEF Fault, InCode, At, Control
      <4>2. conf \in Tests
        BY <4>1, PresentTest
      <4> QED BY <4>2, TestsAssumption
    <3>2. ip' = [ip EXCEPT ![p] = CASE conf.handling = "fatal" -> Len(conf.code[p]) + 1
                                    [] conf.handling = "skip" -> @ + 1
                                    [] conf.handling = "handled" -> @]
      BY <2>1 DEF Fault
    <3> QED BY <3>1, <3>2
  <2>2. CASE Execute(p) \/ StoreAttr(p) \/ Make(p) \/ Sync(p)
    BY <2>2 DEF Execute, StoreAttr, Make, Sync
  <2>3. CASE \/ Start(p) \/ NextIteration(p) \/ EnterRun(p) \/ InitVars(p) \/ Touch(p)
             \/ Argument(p) \/ Break(p) \/ Flush(p) \/ ReadAttr(p)
             \/ FlushLast(p) \/ EndCode(p) \/ Collect(p) \/ Add(p) \/ EndTest(p)
    BY <2>3 DEF Start, NextIteration, EnterRun, InitVars, Touch, Argument, Break, Flush, ReadAttr,
                FlushLast, EndCode, Collect, Add, EndTest
  <2> QED BY <1>2, <2>1, <2>2, <2>3 DEF do_run
<1>3. ASSUME NEW p \in Roles, Speculate(p) PROVE Pointers'
  BY <1>3 DEF Speculate, control
<1> QED BY <1>1, <1>2, <1>3 DEF Next

(* A step that concerns neither the entry nor the outcome.                 *)
LEMMA QuietShown ==
  ASSUME Shown, UNCHANGED <<pte, expect, log>>,
         \/ pc'[owner] = pc[owner] /\ UNCHANGED <<arg, machine>>
         \/ pc[owner] = "flush" /\ pc'[owner] = "make" /\ UNCHANGED <<arg, saved, machine>>
         \/ pc[owner] \in Logged /\ pc'[owner] \in Logged \cup {"init"}
         \/ pc[owner] \in Installed /\ pc'[owner] \in Installed \ {"break", "store"},
         UNCHANGED saved \/ pc'[owner] \notin {"break", "flush", "make"}
  PROVE  Shown'
<1>1. \A e : shown(e)' = shown(e)
  BY DEF shown, index
<1>2. UNCHANGED <<saved, machine>> => \A e : (value(conf.init, e))' = value(conf'.init, e)
  BY DEF value, saved_pte
<1> QED BY <1>1, <1>2 DEF Shown, Installed, Logged, machine, conf, value, saved_pte

(* Steps that only move a role, the owner or another one.                  *)
LEMMA MovesShown ==
  ASSUME CInv, EntryInv, Shown, NEW p \in Roles,
         \/ Start(p) \/ EndTest(p) \/ NextIteration(p) \/ EnterRun(p) \/ Add(p)
         \/ Sync(p) \/ EndCode(p) \/ Fault(p) \/ FlushLast(p) \/ Flush(p)
  PROVE  Shown'
<1>1. UNCHANGED <<pte, expect, log, arg, saved, machine>>
  BY DEF Start, EndTest, NextIteration, EnterRun, Add, Sync, EndCode, Fault, FlushLast, Flush, history
<1>2. owner \in Roles
  BY TestsAssumption
<1>3. CASE p # owner \/ Fault(p)
  <2>1. pc'[owner] = pc[owner]
    BY <1>2, <1>3 DEF CInv, TypeOK, Start, EndTest, NextIteration, EnterRun, Add, Sync, EndCode,
                      Fault, FlushLast, Flush, goto
  <2> QED BY <1>1, <2>1, QuietShown
<1>4. CASE p = owner /\ ~Fault(p)
  <2>1. \A l : goto(p, l) => pc'[owner] = l
    BY <1>4 DEF goto, CInv, TypeOK
  <2>2. CASE \/ Start(p) \/ EndTest(p) \/ NextIteration(p) \/ EnterRun(p) \/ Add(p)
    <3>1. pc[owner] \in Logged /\ pc'[owner] \in Logged \cup {"init"}
      BY <1>4, <2>1, <2>2 DEF Start, EndTest, NextIteration, EnterRun, Add, At, Logged
    <3> QED BY <1>1, <3>1, QuietShown
  <2>3. CASE Sync(p) \/ EndCode(p)
    <3>1. pc[owner] \in Installed /\ pc'[owner] \in Installed \ {"break", "store"}
      BY <1>4, <2>1, <2>3 DEF Sync, EndCode, At, Installed
    <3> QED BY <1>1, <3>1, QuietShown
  <2>4. CASE FlushLast(p) \/ Flush(p)
    <3>1. \/ pc[owner] = "flush" /\ pc'[owner] = "make"
          \/ pc[owner] \in Logged /\ pc'[owner] \in Logged
          \/ pc[owner] \in Installed /\ pc'[owner] \in Installed \ {"break", "store"}
      BY <1>4, <2>1, <2>4 DEF FlushLast, Flush, At, Installed, Logged
    <3> QED BY <1>1, <3>1, QuietShown
  <2> QED BY <1>4, <2>2, <2>3, <2>4
<1> QED BY <1>3, <1>4

(* The initialisation, touching x, and the code of the test.               *)
LEMMA UsesShown ==
  ASSUME CInv, EntryInv, Shown, Pointers, NEW p \in Roles,
         InitVars(p) \/ Touch(p) \/ Execute(p)
  PROVE  Shown'
<1>1. owner \in Roles
  BY TestsAssumption
<1>2. \A e : shown(e)' = shown(e)
  BY DEF shown, index
<1>3. CASE InitVars(p)
  <2>1. AtRest /\ pc[owner] \in {"init", "touch"}
    BY <1>3, OwnerIs DEF InitVars, At, CInv, AtRest
  <2>2. pc'[owner] \in {"init", "touch"}
    BY <1>1, <1>3, <2>1 DEF InitVars, goto, CInv, TypeOK
  <2>3. expect' = shown(pte_x) /\ pte' = pte_x
    BY <1>3, <2>1, DefaultShown DEF InitVars, EntryInv, Rest
  <2> QED BY <1>2, <2>2, <2>3 DEF Shown, Installed, Logged
<1>4. CASE Touch(p)
  <2>1. /\ pc[owner] \in {"touch", "arg", "sync"} \/ (pc[owner] = "code" /\ owner \in arrived)
    <3>1. p \notin arrived /\ pc[p] = "touch"
      BY <1>4 DEF Touch, At
    <3>2. segment(owner) = inside("touch")
      BY <1>1, <3>1 DEF CInv, Together, segment
    <3>3. pc[owner] \in Labels /\ (owner \in arrived => pc[owner] \in Entered)
      BY <1>1 DEF CInv, TypeOK, Control
    <3>4. pc[owner] \in Before => given
      BY <1>1, Zenon DEF CInv, Control
    <3>5. CASE owner \in arrived
      <4>1. waiting(pc[owner]) = inside("touch") /\ pc[owner] \in Entered
        BY <3>2, <3>3, <3>5 DEF segment
      <4> QED BY <3>5, <4>1 DEF waiting, inside, Entered, Before, After
    <3>6. CASE owner \notin arrived
      <4>1. inside(pc[owner]) = inside("touch")
        BY <3>2, <3>6 DEF segment
      <4> QED BY <3>3, <3>4, <4>1 DEF inside, Labels, Before, After
    <3> QED BY <3>5, <3>6
  <2>2. pc'[owner] \in {"touch", "arg", "sync", "code"}
    BY <1>1, <1>4, <2>1 DEF Touch, goto, CInv, TypeOK
  <2>3. expect = shown(pte)
    BY <2>1 DEF Shown, Installed
  <2>4. expect' = shown(pte')
    BY <1>4, <2>3, AccessShown DEF Touch
  <2> QED BY <1>2, <2>2, <2>4 DEF Shown, Installed, Logged
<1>5. CASE Execute(p)
  <2>1. pc[owner] \in {"code", "restore"} /\ UNCHANGED pc
    BY <1>5, OwnerIs DEF Execute, InCode, At, CInv
  <2>2. expect = shown(pte)
    BY <2>1 DEF Shown, Installed
  <2>3. CASE \E op : Access(p, op)
    <3>1. expect' = shown(pte')
      BY <2>2, <2>3, AccessShown
    <3> QED BY <1>2, <2>1, <3>1 DEF Shown, Installed, Logged
  <2>4. CASE /\ ins(p).op = "PTE"
             /\ pte' = value(ins(p).pte, pte)
             /\ expect' = expected(ins(p).pte)
    <3>1. test > 0 /\ ip[p] \in 1..Len(conf.code[p])
      <4>1. pc[p] = "code" /\ ip[p] <= Len(conf.code[p])
        BY <1>5 DEF Execute, InCode, At
      <4>2. test > 0
        BY <4>1 DEF CInv, Control
      <4>3. conf \in Tests
        BY <4>2, PresentTest DEF CInv
      <4>4. Len(conf.code[p]) \in Nat
        BY <4>3, TestsAssumption
      <4> QED BY <4>1, <4>2, <4>4 DEF Pointers
    <3>2. conf \in Tests
      BY <3>1, PresentTest DEF CInv
    <3>3. ins(p).pte.kind \in {"P", "V"} /\ describes(ins(p).pte)
      BY <2>4, <3>1, <3>2, TestsAssumption DEF ins
    <3>4. expected(ins(p).pte) = shown(value(ins(p).pte, pte_x))
          /\ value(ins(p).pte, pte) = value(ins(p).pte, pte_x)
      BY <3>3, ExpectedShown DEF EntryInv, Restoring
    <3>5. expect' = shown(pte')
      BY <2>4, <3>4, Zenon
    <3> QED BY <1>2, <2>1, <3>5 DEF Shown, Installed, Logged
  <2> QED BY <1>5, <2>3, <2>4 DEF Execute
<1> QED BY <1>3, <1>4, <1>5

(* The owner changes the entry.                                            *)
LEMMA OwnerShown ==
  ASSUME CInv, EntryInv, Shown, NEW p \in Roles,
         Argument(p) \/ Break(p) \/ Make(p) \/ ReadAttr(p) \/ StoreAttr(p)
  PROVE  Shown'
<1>1. pc[p] \in Before \cup After /\ p \notin arrived
  BY DEF Argument, Break, Make, ReadAttr, StoreAttr, At, Before, After
<1>2. p = owner /\ owner \in Roles
  BY <1>1 DEF CInv, Control
<1>3. UNCHANGED <<machine, saved>> /\ conf' = conf /\ saved = pte_x
  BY DEF Argument, Break, Make, ReadAttr, StoreAttr, machine, conf, EntryInv, Restoring
<1>4. \A l : goto(p, l) => pc'[owner] = l
  BY <1>2 DEF goto, CInv, TypeOK
<1>5. \A e : shown(e)' = shown(e)
  BY DEF shown, index
<1>6. (value(conf.init, pte_x))' = value(conf.init, pte_x)
  BY <1>3, Zenon DEF value, saved_pte
<1>7. CASE Argument(p)
  <2>1. UNCHANGED <<pte, expect, log>>
    BY <1>7 DEF Argument, history
  <2>2. CASE pc[owner] = "arg"
    <3>1. pc'[owner] = "break" /\ arg' = value(conf.init, pte)
      BY <1>2, <1>4, <1>7, <2>2 DEF Argument, At
    <3>2. pte = pte_x
      BY <2>2 DEF EntryInv, Rest, AtRest
    <3>3. expect = shown(pte)
      BY <2>2 DEF Shown, Installed
    <3> QED BY <1>5, <1>6, <2>1, <3>1, <3>2, <3>3 DEF Shown, Installed, Logged
  <2>3. CASE pc[owner] = "restore"
    <3>1. pc[owner] \in Installed /\ pc'[owner] \in Installed \ {"break", "store"}
      BY <1>2, <1>4, <1>7, <2>3 DEF Argument, At, Installed
    <3> QED BY <1>3, <2>1, <3>1, QuietShown
  <2> QED BY <1>2, <1>7, <2>2, <2>3 DEF Argument, At
<1>8. CASE Break(p)
  <2>1. UNCHANGED <<expect, arg>>
    BY <1>8 DEF Break, history
  <2>2. CASE pc[owner] = "break"
    <3>1. pc'[owner] = "flush" /\ pte = pte_x
      BY <1>2, <1>4, <1>8, <2>2 DEF Break, At, EntryInv, Rest, AtRest
    <3>2. expect = shown(pte) /\ arg = value(conf.init, pte_x)
      BY <2>2 DEF Shown, Installed
    <3> QED BY <1>5, <1>6, <2>1, <3>1, <3>2 DEF Shown, Installed, Logged
  <2>3. CASE pc[owner] = "rbreak"
    <3>1. pc'[owner] = "rflush" /\ log' = pte
      BY <1>2, <1>4, <1>8, <2>3 DEF Break, At
    <3>2. expect = shown(pte)
      BY <2>3 DEF Shown, Installed
    <3> QED BY <1>5, <2>1, <3>1, <3>2 DEF Shown, Installed, Logged
  <2> QED BY <1>2, <1>8, <2>2, <2>3 DEF Break, At
<1>9. CASE Make(p)
  <2>1. pte' = arg /\ UNCHANGED log
    BY <1>9 DEF Make
  <2>2. CASE pc[owner] = "make"
    <3>1. pc'[owner] = "attr" /\ expect' = expected(conf.init)
      BY <1>2, <1>4, <1>9, <2>2 DEF Make, At
    <3>2. expect = shown(pte_x) /\ arg = value(conf.init, pte_x)
      BY <2>2 DEF Shown
    <3>3. given /\ test > 0
      BY <1>2, <2>2 DEF CInv, Control, Before
    <3>4. conf \in Tests
      BY <3>3, PresentTest DEF CInv
    <3>5. describes(conf.init) /\ conf.init.kind \in {"P", "V", "Z"}
      BY <3>3, <3>4, TestsAssumption DEF given
    <3>6. expected(conf.init) = shown(arg)
      BY <1>3, <3>2, <3>5, ExpectedShown
    <3> QED BY <1>5, <2>1, <3>1, <3>6 DEF Shown, Installed, Logged
  <2>3. CASE pc[owner] = "rmake"
    <3>1. pc'[owner] = "rlast" /\ UNCHANGED expect
      BY <1>2, <1>4, <1>9, <2>3 DEF Make, At
    <3>2. expect = shown(log)
      BY <2>3 DEF Shown, Logged
    <3> QED BY <1>5, <2>1, <3>1, <3>2 DEF Shown, Installed, Logged
  <2> QED BY <1>2, <1>9, <2>2, <2>3 DEF Make, At
<1>10. CASE ReadAttr(p)
  <2>1. /\ pc[owner] = "attr" /\ UNCHANGED <<pte, expect, log>>
        /\ \/ pc'[owner] = "store" /\ \E k : arg' = litmus_set_pte_attribute(pte, k)
           \/ pc'[owner] = "last"
    BY <1>2, <1>4, <1>10 DEF ReadAttr, At, history
  <2>2. expect = shown(pte)
    BY <2>1 DEF Shown, Installed
  <2>3. pc'[owner] = "store" => shown(arg') = [shown(pte) EXCEPT !.af = bit(10 \in arg')]
    <3> SUFFICES ASSUME pc'[owner] = "store" PROVE shown(arg') = [shown(pte) EXCEPT !.af = bit(10 \in arg')]
      OBVIOUS
    <3>1. shown(arg') = shown(pte)
      BY <2>1, AttributeShown
    <3>2. shown(arg').af = bit(10 \in arg')
      BY DEF shown
    <3>3. shown(pte) = [shown(pte) EXCEPT !.af = shown(pte).af]
      BY DEF shown
    <3> QED BY <3>1, <3>2, <3>3, Zenon
  <2> QED BY <1>5, <2>1, <2>2, <2>3 DEF Shown, Installed, Logged
<1>11. CASE StoreAttr(p)
  <2>1. /\ pc[owner] = "store" /\ pc'[owner] = "attr" /\ pte' = arg
        /\ expect' = [expect EXCEPT !.af = IF has(arg, msk_af) THEN 1 ELSE 0]
    BY <1>2, <1>4, <1>11, Zenon DEF StoreAttr, At
  <2>2. expect = shown(pte) /\ shown(arg) = [shown(pte) EXCEPT !.af = bit(10 \in arg)]
    BY <2>1 DEF Shown, Installed
  <2>3. has(arg, msk_af) <=> 10 \in arg
    BY DEF has, msk_af
  <2>4. (IF has(arg, msk_af) THEN 1 ELSE 0) = bit(10 \in arg)
    BY <2>3 DEF bit
  <2>5. expect' = shown(pte')
    BY <2>1, <2>2, <2>4, Zenon
  <2> QED BY <1>5, <2>1, <2>5 DEF Shown, Installed, Logged
<1> QED BY <1>7, <1>8, <1>9, <1>10, <1>11

(* The collection, and walks of the hardware at any time.                  *)
LEMMA LateShown ==
  ASSUME CInv, EntryInv, Shown, NEW p \in Roles, Collect(p) \/ Speculate(p)
  PROVE  Shown'
<1>1. owner \in Roles
  BY TestsAssumption
<1>2. \A e : shown(e)' = shown(e)
  BY DEF shown, index
<1>3. UNCHANGED <<machine, saved, arg, log>> /\ conf' = conf
  BY DEF Collect, Speculate, machine, conf
<1>4. (value(conf.init, pte_x))' = value(conf.init, pte_x)
  BY <1>3, Zenon DEF value, saved_pte
<1>5. CASE Collect(p) /\ p # owner
  <2>1. UNCHANGED <<pte, expect>> /\ pc'[owner] = pc[owner]
    BY <1>1, <1>5 DEF Collect, goto, CInv, TypeOK
  <2> QED BY <1>3, <2>1, QuietShown
<1>6. CASE Collect(p) /\ p = owner
  <2>1. pc[owner] = "collect" /\ pc'[owner] = "add" /\ Access(owner, "R")
    BY <1>1, <1>6 DEF Collect, At, goto, CInv, TypeOK
  <2>2. expect = shown(log)
    BY <2>1 DEF Shown, Logged
  <2>3. pte = pte_x /\ \A q \in Roles : tlb[q] \in {NoEntry, pte_x}
    BY <2>1 DEF EntryInv, Rest, AtRest
  <2>4. pte' = pte
    BY <1>1, <2>1, <2>3, AccessAtRest DEF CInv
  <2>5. expect' = expect
    BY <1>1, <2>1, <2>2, <2>4, AccessStill
  <2> QED BY <1>2, <1>3, <2>1, <2>2, <2>5 DEF Shown, Installed, Logged
<1>7. CASE Speculate(p)
  <2>1. UNCHANGED pc /\ has(pte, msk_valid) /\ pte' = managed(pte, "R")
    BY <1>7 DEF Speculate, control
  <2>2. pc[owner] \notin {"flush", "make", "rflush", "rmake"}
    BY <2>1 DEF EntryInv, Broken
  <2>3. CASE pc[owner] \in Installed
    <3>1. expect = shown(pte)
      BY <2>3 DEF Shown
    <3>2. expect' = shown(pte')
      BY <1>7, <3>1, SpeculateShown
    <3>3. ASSUME pc[owner] = "store"
          PROVE  shown(arg) = [shown(pte') EXCEPT !.af = bit(10 \in arg)]
      <4>1. shown(arg) = [shown(pte) EXCEPT !.af = bit(10 \in arg)]
        BY <3>3 DEF Shown
      <4>2. CASE pte' = pte
        BY <4>1, <4>2
      <4>3. CASE pte' # pte
        <5>1. shown(pte') = [shown(pte) EXCEPT !.af = 1]
          <6>1. expect' = [expect EXCEPT !.af = 1]
            BY <1>7, <4>3 DEF Speculate
          <6> QED BY <3>1, <3>2, <6>1
        <5>2. [[shown(pte) EXCEPT !.af = 1] EXCEPT !.af = bit(10 \in arg)]
              = [shown(pte) EXCEPT !.af = bit(10 \in arg)]
          BY DEF shown
        <5> QED BY <4>1, <5>1, <5>2
      <4> QED BY <4>2, <4>3
    <3>4. pc[owner] = "break" => arg = value(conf.init, pte_x)
      BY DEF Shown
    <3> QED BY <1>2, <1>3, <1>4, <2>1, <2>3, <3>2, <3>3, <3>4 DEF Shown, Installed, Logged
  <2>4. CASE pc[owner] \in Logged
    <3>1. expect = shown(log)
      BY <2>4 DEF Shown
    <3>2. pte = pte_x
      BY <2>2, <2>4 DEF EntryInv, Rest, AtRest, Logged
    <3>3. pte' = pte
      BY <2>1, <3>2, PteX
    <3>4. expect' = expect
      BY <1>7, <3>1, <3>3, SpeculateShown
    <3> QED BY <1>2, <1>3, <2>1, <2>4, <3>1, <3>4 DEF Shown, Installed, Logged
  <2>5. CASE pc[owner] \notin Installed \cup Logged
    BY <2>1, <2>2, <2>5 DEF Shown, Installed, Logged
  <2> QED BY <2>3, <2>4, <2>5
<1> QED BY <1>5, <1>6, <1>7

LEMMA ShownStep ==
  ASSUME IInv, Pointers, Shown, [Next]_vars
  PROVE  Shown'
<1>1. CInv /\ EntryInv
  BY DEF IInv, CInv
<1>2. CASE StartTest
  <2>1. owner \in Roles /\ pc[owner] = "idle"
    BY <1>2, TestsAssumption DEF StartTest
  <2>2. pc'[owner] \in {"idle", "start"} /\ UNCHANGED <<pte, expect, log>>
    BY <1>2, <2>1 DEF StartTest, history
  <2> QED BY <2>1, <2>2, QuietShown DEF Logged
<1>3. ASSUME NEW p \in Roles, do_run(p) PROVE Shown'
  BY <1>1, <1>3, MovesShown, UsesShown, OwnerShown, LateShown DEF do_run
<1>4. ASSUME NEW p \in Roles, Speculate(p) PROVE Shown'
  BY <1>1, <1>4, LateShown
<1>5. CASE UNCHANGED vars
  <2>1. UNCHANGED <<pte, expect, log, pc, arg, machine, saved>>
    BY <1>5 DEF vars, control, history
  <2> QED BY <2>1, QuietShown
<1> QED BY <1>2, <1>3, <1>4, <1>5 DEF Next

(* The outcome that role 0 adds shows the entry as the test expects it,    *)
(* the way pack_pack describes entries: what the test or its code wrote    *)
(* last, with what the hardware has changed since, up to the swap that     *)
(* starts the restoring of the entry, and nothing later.                   *)
THEOREM PteLogged == Spec => []LoggedPte
<1>1. Init => Pointers /\ Shown
  <2> SUFFICES ASSUME Init PROVE Pointers /\ Shown
    OBVIOUS
  <2>1. Pointers
    BY DEF Init, Pointers
  <2>2. pc[owner] = "idle" /\ expect = default /\ log = pte_x
    BY TestsAssumption DEF Init
  <2> QED BY <2>1, <2>2, DefaultShown DEF Shown, Installed, Logged
<1>2. IInv /\ Pointers /\ Shown /\ [Next]_vars => Pointers' /\ Shown'
  BY ShownStep, PointersStep DEF IInv
<1>3. IInv /\ Shown => LoggedPte
  <2> SUFFICES ASSUME IInv, Shown, At(0, "add")
               PROVE  outcome = pack_pack(expect) /\ unpack(outcome) = expect
    BY DEF LoggedPte
  <2>1. 0 \in Roles
    BY TestsAssumption DEF Roles
  <2>2. pc[owner] \in {"idle", "top", "add", "do_run"}
    BY <2>1, OwnerIs DEF IInv, At
  <2>3. expect = shown(log)
    BY <2>2 DEF Shown, Logged
  <2>4. idx_physical(log) = index(log)
    BY DEF IInv, EntryInv, Restoring, idx_physical, index
  <2> QED BY <2>3, <2>4, PackShown DEF outcome
<1> QED BY <1>1, <1>2, <1>3, KvmInvariant, PTL DEF Spec

-----------------------------------------------------------------------------
(* Faults.  All roles have done the same number of iterations, and so the  *)
(* list of a role is of the present iteration when role 0 adds the         *)
(* outcome.  A list has no fault twice; what it leaves out is represented  *)
(* by a fault that it has.                                                 *)

(* The faults that the code of role p of test t can raise and that the     *)
(* condition asks for.                                                     *)
codes == {0, 7, 11, 15}
possible(t, p) == {f \in {fault_info(t.code[p][x[1]], x[2]) : x \in (1..Len(t.code[p])) \X codes} :
                     log_fault(p, f, t.atoms)}

(* The list has a place for each of them.                                  *)
Fits == \A t \in Tests : \A p \in Roles : Cardinality(possible(t, p)) <= MAX_FAULTS_PER_THREAD

round(p) == IF pc[p] = "add" /\ p \notin arrived THEN iter[p] + 1 ELSE iter[p]

Rounds == /\ iter \in [Roles -> Nat]
          /\ \A p, q \in Roles : round(p) = round(q)
          /\ \A p \in Roles : pc[p] = "start" => iter[p] = 0

(* The list of role p is of the present test.                              *)
present(p) == \/ pc[p] \notin {"idle", "start", "top", "do_run"}
              \/ pc[p] # "start" /\ iter[p] > 0

(* The list l of role p, when r is the set of the faults that were raised. *)
records(l, r, p) ==
  /\ l \in Seq(possible(conf, p))
  /\ \A i, j \in DOMAIN l : l[i] = l[j] => i = j
  /\ \A i \in DOMAIN l : l[i] \in r
  /\ \A f \in r : log_fault(p, f, conf.atoms) => \E i \in DOMAIN l : matches(l[i], f)

Recorded == /\ DOMAIN faults = Roles /\ DOMAIN raised = Roles
            /\ \A p \in Roles : present(p) => records(faults[p], raised[p], p)

(* A fault matches itself as an atom, and what a matching fault matches.   *)
LEMMA Matching ==
  /\ \A f : matches(f, f)
  /\ \A f, g, a : matches(g, f) /\ matches(f, a) => matches(g, a)
BY DEF matches

LEMMA PossibleFinite ==
  ASSUME NEW t \in Tests, NEW p \in Roles
  PROVE  IsFiniteSet(possible(t, p)) /\ Cardinality(possible(t, p)) \in Nat
<1> DEFINE S == (1..Len(t.code[p])) \X codes
           g == [x \in S |-> fault_info(t.code[p][x[1]], x[2])]
           T == {fault_info(t.code[p][x[1]], x[2]) : x \in S}
<1>1. Len(t.code[p]) \in Nat
  BY TestsAssumption
<1>2. IsFiniteSet(1..Len(t.code[p]))
  BY <1>1, FS_Interval
<1>3. IsFiniteSet(codes)
  <2>1. \A n \in Nat : IsFiniteSet(0..n)
    BY FS_Interval
  <2>2. codes \in SUBSET (0..15) /\ 15 \in Nat
    BY DEF codes
  <2> QED BY <2>1, <2>2, FS_Subset
<1>4. IsFiniteSet(S)
  BY <1>2, <1>3, FS_Product
<1>5. g \in Surjection(S, T)
  <2> HIDE DEF S
  <2>1. g \in [S -> T]
    OBVIOUS
  <2>2. \A y \in T : \E x \in S : g[x] = y
    OBVIOUS
  <2> QED BY <2>1, <2>2, Zenon DEF Surjection
<1>6. IsFiniteSet(T)
  <2> HIDE DEF S, g, T
  <2> QED BY <1>4, <1>5, FS_Surjection
<1>7. possible(t, p) \in SUBSET T
  BY DEF possible
<1> HIDE DEF T
<1> QED BY <1>6, <1>7, FS_Subset, FS_CardinalityType

(* A list without repetitions has as many places as faults.                *)
LEMMA Distinct ==
  ASSUME NEW X, NEW l \in Seq(X), \A i, j \in DOMAIN l : l[i] = l[j] => i = j
  PROVE  /\ IsFiniteSet(Range(l)) /\ Cardinality(Range(l)) = Len(l)
         /\ Len(l) \in Nat /\ DOMAIN l = 1..Len(l) /\ Range(l) \subseteq X
<1>1. Len(l) \in Nat /\ DOMAIN l = 1..Len(l) /\ l \in [1..Len(l) -> X]
  OBVIOUS
<1>2. Range(l) \subseteq X /\ l \in [1..Len(l) -> Range(l)]
  BY <1>1 DEF Range
<1>3. l \in Bijection(1..Len(l), Range(l))
  <2>1. \A i, j \in 1..Len(l) : l[i] = l[j] => i = j
    BY <1>1
  <2>2. \A y \in Range(l) : \E i \in 1..Len(l) : l[i] = y
    BY <1>1 DEF Range
  <2> QED BY <1>2, <2>1, <2>2, Zenon DEF Bijection, Injection, IsInjective, Surjection
<1>4. ExistsBijection(1..Len(l), Range(l))
  BY <1>3, Zenon DEF ExistsBijection
<1>5. Cardinality(Range(l)) = Len(l)
  BY <1>1, <1>4, FS_CountingElements
<1>6. IsFiniteSet(Range(l))
  BY <1>1, <1>4, FS_NatBijection
<1> QED BY <1>1, <1>2, <1>5, <1>6

(* A fault is raised.                                                      *)
LEMMA RecordStep ==
  ASSUME Fits, conf \in Tests, NEW p \in Roles, NEW l, NEW r, records(l, r, p),
         NEW i \in 1..Len(conf.code[p]), NEW c \in codes, NEW f, f = fault_info(conf.code[p][i], c)
  PROVE  records(record_fault(l, p, f, conf.atoms), r \cup {f}, p)
<1> DEFINE X == possible(conf, p)
<1>1. /\ l \in Seq(X) /\ \A k, j \in DOMAIN l : l[k] = l[j] => k = j
      /\ \A k \in DOMAIN l : l[k] \in r
      /\ \A g \in r : log_fault(p, g, conf.atoms) => \E k \in DOMAIN l : matches(l[k], g)
  BY DEF records
<1>2. CASE ~log_fault(p, f, conf.atoms) \/ exists_fault(l, f)
  <2>1. record_fault(l, p, f, conf.atoms) = l
    BY <1>2 DEF record_fault
  <2>2. log_fault(p, f, conf.atoms) => \E k \in DOMAIN l : matches(l[k], f)
    BY <1>2 DEF exists_fault
  <2> HIDE DEF X
  <2> QED BY <1>1, <2>1, <2>2 DEF records, X
<1>3. CASE log_fault(p, f, conf.atoms) /\ ~exists_fault(l, f)
  <2>1. f \in X
    <3>1. <<i, c>> \in (1..Len(conf.code[p])) \X codes
      OBVIOUS
    <3> QED BY <1>3, <3>1 DEF possible
  <2>2. f \notin Range(l)
    <3>1. \A k \in DOMAIN l : l[k] # f
      BY <1>3, Matching DEF exists_fault
    <3> QED BY <3>1 DEF Range
  <2>3. IsFiniteSet(X) /\ Cardinality(X) \in Nat /\ Cardinality(X) <= MAX_FAULTS_PER_THREAD
    BY PossibleFinite DEF Fits
  <2> HIDE DEF X
  <2>4. /\ IsFiniteSet(Range(l)) /\ Cardinality(Range(l)) = Len(l)
        /\ Len(l) \in Nat /\ DOMAIN l = 1..Len(l) /\ Range(l) \subseteq X
    BY <1>1, Distinct
  <2>5. Cardinality(Range(l) \cup {f}) = Len(l) + 1
    BY <2>2, <2>4, FS_AddElement
  <2>6. Cardinality(Range(l) \cup {f}) <= Cardinality(X)
    BY <2>1, <2>3, <2>4, FS_Subset
  <2>7. ~(Len(l) >= MAX_FAULTS_PER_THREAD)
    BY MaxAssumption, <2>3, <2>4, <2>5, <2>6
  <2>8. record_fault(l, p, f, conf.atoms) = Append(l, f)
    BY <1>3, <2>7 DEF record_fault
  <2> DEFINE m == Append(l, f)
  <2>9. /\ m \in Seq(X) /\ DOMAIN m = 1..(Len(l) + 1) /\ m[Len(l) + 1] = f
        /\ \A k \in 1..Len(l) : m[k] = l[k]
    BY <1>1, <2>1, <2>4
  <2> HIDE DEF m
  <2>10. \A k \in 1..(Len(l) + 1) : k = Len(l) + 1 \/ k \in 1..Len(l)
    BY <2>4
  <2>11. \A k \in 1..Len(l) : l[k] # f
    BY <2>2, <2>4 DEF Range
  <2>12. \A k, j \in DOMAIN m : m[k] = m[j] => k = j
    BY <1>1, <2>4, <2>9, <2>10, <2>11
  <2>13. \A k \in DOMAIN m : m[k] \in r \cup {f}
    BY <1>1, <2>4, <2>9, <2>10
  <2>14. \A g \in r \cup {f} : log_fault(p, g, conf.atoms) => \E k \in DOMAIN m : matches(m[k], g)
    <3> SUFFICES ASSUME NEW g \in r \cup {f}, log_fault(p, g, conf.atoms)
                 PROVE  \E k \in DOMAIN m : matches(m[k], g)
      OBVIOUS
    <3>1. CASE g = f
      <4>1. Len(l) + 1 \in DOMAIN m
        BY <2>4, <2>9
      <4> QED BY <2>9, <3>1, <4>1, Matching
    <3>2. CASE g \in r
      <4>1. PICK k \in DOMAIN l : matches(l[k], g)
        BY <1>1, <3>2
      <4>2. k \in DOMAIN m /\ m[k] = l[k]
        BY <2>4, <2>9
      <4> QED BY <4>1, <4>2
    <3> QED BY <3>1, <3>2
  <2> QED BY <2>8, <2>9, <2>12, <2>13, <2>14 DEF records, m, X
<1> QED BY <1>2, <1>3

(* What is printed.  The fold over the atoms is determined: after any set  *)
(* s of atoms, those faults were printed, once, that match an atom of s.   *)

hits(flts, x, a) == x[1] = a.proc /\ matches(flts[x[1]][x[2]], a)

after(flts, atoms, s) ==
  LET reported == {x \in places(flts) : \E j \in s : hits(flts, x, atoms[j])}
  IN  [printed |-> [x \in places(flts) |-> IF x \in reported THEN 1 ELSE 0],
       fault_reported |-> reported,
       not |-> {atoms[j] : j \in {i \in s : \A x \in places(flts) : ~hits(flts, x, atoms[i])}}]

IsLog(f, flts, atoms) ==
  f = [s \in SUBSET DOMAIN atoms |->
         IF s = {} THEN pp_log_faults_init(flts)
         ELSE pp_log_faults(f[s \ {Max(s)}], flts, atoms[Max(s)])]

LEMMA LogIsFold ==
  ASSUME NEW flts, NEW atoms
  PROVE  pp_log(flts, atoms) = (CHOOSE f : IsLog(f, flts, atoms))[DOMAIN atoms]
BY Zenon DEF pp_log, FoldLeft, MapThenFoldSet, IsLog

LEMMA LeastNat ==
  ASSUME NEW S \in SUBSET Nat, S # {}
  PROVE  \E m \in S : \A x \in S : m <= x
<1>1. PICK m \in S : \A y \in S : <<y, m>> \notin OpToRel(<, Nat)
  BY WFMin, NatLessThanWellFounded, Zenon
<1>2. \A y \in S : y < m => <<y, m>> \in OpToRel(<, Nat)
  BY SMT DEF OpToRel
<1>3. \A y \in S : ~(y < m)
  BY <1>1, <1>2, Zenon
<1> QED BY <1>3

LEMMA HasMax ==
  ASSUME NEW n \in Nat, NEW s \in SUBSET (1..n), s # {}
  PROVE  Max(s) \in s /\ \A y \in s : Max(s) >= y
<1> DEFINE D == {k \in Nat : \E x \in s : k = n - x}
<1>1. D \in SUBSET Nat /\ D # {}
  <2>1. PICK x \in s : x \in 1..n
    OBVIOUS
  <2>2. n - x \in D
    BY <2>1
  <2> QED BY <2>2
<1>2. PICK d \in D : \A k \in D : d <= k
  <2> HIDE DEF D
  <2> QED BY <1>1, LeastNat
<1>3. PICK x \in s : d = n - x
  OBVIOUS
<1>4. \A y \in s : x >= y
  <2> SUFFICES ASSUME NEW y \in s PROVE x >= y
    OBVIOUS
  <2>1. n - y \in D
    OBVIOUS
  <2>2. d <= n - y
    BY <1>2, <2>1
  <2> QED BY <1>3, <2>2
<1> QED BY <1>4 DEF Max

LEMMA AfterStep ==
  ASSUME NEW flts, NEW atoms, NEW s, NEW m \in s
  PROVE  after(flts, atoms, s) = pp_log_faults(after(flts, atoms, s \ {m}), flts, atoms[m])
<1> DEFINE P == places(flts)
           A == {x \in P : \E j \in s : hits(flts, x, atoms[j])}
           B == {x \in P : \E j \in s \ {m} : hits(flts, x, atoms[j])}
           F == {x \in P : hits(flts, x, atoms[m])}
           out == after(flts, atoms, s \ {m})
           new == pp_log_faults(out, flts, atoms[m])
<1>1. A = B \cup F
  OBVIOUS
<1>2. /\ after(flts, atoms, s) =
           [printed |-> [x \in P |-> IF x \in A THEN 1 ELSE 0], fault_reported |-> A,
            not |-> {atoms[j] : j \in {i \in s : \A x \in P : ~hits(flts, x, atoms[i])}}]
      /\ out = [printed |-> [x \in P |-> IF x \in B THEN 1 ELSE 0], fault_reported |-> B,
                not |-> {atoms[j] : j \in {i \in s \ {m} : \A x \in P : ~hits(flts, x, atoms[i])}}]
  BY Zenon DEF after
<1>3. new = [printed |-> [x \in P |-> out.printed[x] + (IF x \in F \ out.fault_reported THEN 1 ELSE 0)],
             fault_reported |-> out.fault_reported \cup F,
             not |-> IF F = {} THEN out.not \cup {atoms[m]} ELSE out.not]
  <2>1. F = {x \in places(flts) : x[1] = atoms[m].proc /\ matches(flts[x[1]][x[2]], atoms[m])}
    BY Zenon DEF hits
  <2> HIDE DEF F, out
  <2> QED BY <2>1, Zenon DEF pp_log_faults
<1>4. /\ out.fault_reported = B /\ out.printed = [x \in P |-> IF x \in B THEN 1 ELSE 0]
      /\ out.not = {atoms[j] : j \in {i \in s \ {m} : \A x \in P : ~hits(flts, x, atoms[i])}}
  <2> HIDE DEF P, A, B, F, out
  <2> QED BY <1>2
<1>5. [x \in P |-> out.printed[x] + (IF x \in F \ out.fault_reported THEN 1 ELSE 0)]
      = [x \in P |-> IF x \in A THEN 1 ELSE 0]
  <2> HIDE DEF P, A, B, F, out
  <2> SUFFICES ASSUME NEW x \in P
               PROVE  out.printed[x] + (IF x \in F \ out.fault_reported THEN 1 ELSE 0)
                      = IF x \in A THEN 1 ELSE 0
    OBVIOUS
  <2>1. out.printed[x] = IF x \in B THEN 1 ELSE 0
    BY <1>4
  <2> QED BY <1>1, <1>4, <2>1
<1>6. (IF F = {} THEN out.not \cup {atoms[m]} ELSE out.not)
      = {atoms[j] : j \in {i \in s : \A x \in P : ~hits(flts, x, atoms[i])}}
  <2>1. F = {} <=> \A x \in P : ~hits(flts, x, atoms[m])
    OBVIOUS
  <2> HIDE DEF P, F, out
  <2> QED BY <1>4, <2>1
<1>7. out.fault_reported \cup F = A
  BY <1>1, <1>4
<1> HIDE DEF P, A, B, F, out
<1> QED BY <1>2, <1>3, <1>5, <1>6, <1>7, Zenon DEF out

LEMMA LogIs ==
  ASSUME NEW flts, NEW atoms, NEW n \in Nat, DOMAIN atoms = 1..n
  PROVE  pp_log(flts, atoms) = after(flts, atoms, 1..n)
<1> DEFINE C == [s \in SUBSET (1..n) |-> after(flts, atoms, s)]
<1>1. C[{}] = pp_log_faults_init(flts)
  <2>1. after(flts, atoms, {}) = pp_log_faults_init(flts)
    BY DEF after, pp_log_faults_init
  <2> QED BY <2>1
<1>2. ASSUME NEW s \in SUBSET (1..n), s # {}
      PROVE  /\ Max(s) \in s /\ s \ {Max(s)} \in SUBSET (1..n)
             /\ C[s] = pp_log_faults(C[s \ {Max(s)}], flts, atoms[Max(s)])
  <2>1. Max(s) \in s
    BY <1>2, HasMax
  <2>2. s \ {Max(s)} \in SUBSET (1..n)
    OBVIOUS
  <2>3. after(flts, atoms, s) = pp_log_faults(after(flts, atoms, s \ {Max(s)}), flts, atoms[Max(s)])
    BY <2>1, AfterStep
  <2>4. C[s] = after(flts, atoms, s) /\ C[s \ {Max(s)}] = after(flts, atoms, s \ {Max(s)})
    BY <2>2
  <2> QED BY <2>1, <2>2, <2>3, <2>4, Zenon
<1>3. IsLog(C, flts, atoms)
  <2> DEFINE D == [s \in SUBSET (1..n) |->
                     IF s = {} THEN pp_log_faults_init(flts)
                     ELSE pp_log_faults(C[s \ {Max(s)}], flts, atoms[Max(s)])]
  <2>1. ASSUME NEW s \in SUBSET (1..n) PROVE C[s] = D[s]
    <3> HIDE DEF C
    <3>1. CASE s = {}
      BY <1>1, <3>1
    <3>2. CASE s # {}
      BY <1>2, <3>2
    <3> QED BY <3>1, <3>2
  <2>2. C = D
    BY <2>1
  <2> HIDE DEF C
  <2> QED BY <2>2, Zenon DEF IsLog
<1>4. PICK f : f = CHOOSE h : IsLog(h, flts, atoms)
  OBVIOUS
<1>5. IsLog(f, flts, atoms)
  <2> HIDE DEF C
  <2> QED BY <1>3, <1>4
<1> HIDE DEF C
<1>6. \A s \in SUBSET (1..n) :
        f[s] = IF s = {} THEN pp_log_faults_init(flts)
               ELSE pp_log_faults(f[s \ {Max(s)}], flts, atoms[Max(s)])
  <2>1. f = [s \in SUBSET (1..n) |->
               IF s = {} THEN pp_log_faults_init(flts)
               ELSE pp_log_faults(f[s \ {Max(s)}], flts, atoms[Max(s)])]
    BY <1>5, Zenon DEF IsLog
  <2> QED BY <2>1, Zenon
<1>7. \A k \in 0..n : f[1..k] = C[1..k]
  <2> DEFINE K == {k \in Nat : k <= n /\ f[1..k] # C[1..k]}
  <2>1. ASSUME K # {} PROVE FALSE
    <3>1. PICK k \in K : \A j \in K : k <= j
      <4> HIDE DEF K
      <4>1. K \in SUBSET Nat
        BY DEF K
      <4> QED BY <2>1, <4>1, LeastNat
    <3>2. k \in Nat /\ k <= n /\ f[1..k] # C[1..k] /\ 1..k \in SUBSET (1..n)
      OBVIOUS
    <3>3. CASE k = 0
      <4>1. 1..k = {}
        BY <3>3
      <4> QED BY <1>1, <1>6, <3>2, <4>1
    <3>4. CASE k > 0
      <4>1. k \in 1..k /\ 1..k # {}
        <5>1. k \in 1..k
          BY <3>2, <3>4
        <5> QED BY <5>1
      <4>2. Max(1..k) \in 1..k /\ Max(1..k) >= k
        BY <3>2, <4>1, HasMax
      <4>3. Max(1..k) = k /\ (1..k) \ {k} = 1..(k-1) /\ 1..(k-1) \in SUBSET (1..n)
        BY <3>2, <4>2
      <4>4. f[1..(k-1)] = C[1..(k-1)]
        <5>1. k - 1 \in Nat /\ k - 1 <= n /\ ~(k <= k - 1)
          BY <3>2, <3>4
        <5>2. k - 1 \notin K
          BY <3>1, <5>1
        <5> QED BY <5>1, <5>2
      <4>5. f[1..k] = pp_log_faults(f[1..(k-1)], flts, atoms[k])
        BY <1>6, <3>2, <4>1, <4>3
      <4>6. C[1..k] = pp_log_faults(C[1..(k-1)], flts, atoms[k])
        BY <1>2, <3>2, <4>1, <4>3
      <4> QED BY <3>2, <4>4, <4>5, <4>6
    <3> QED BY <3>2, <3>3, <3>4
  <2> QED BY <2>1
<1>8. f[1..n] = C[1..n]
  BY <1>7
<1>9. C[1..n] = after(flts, atoms, 1..n)
  BY DEF C
<1> QED BY <1>4, <1>8, <1>9, LogIsFold

(* The steps.                                                              *)

LEMMA RoundsKept ==
  ASSUME Rounds, UNCHANGED iter,
         \A q \in Roles : (pc'[q] = "add" /\ q \notin arrived') <=> (pc[q] = "add" /\ q \notin arrived),
         \A q \in Roles : pc'[q] = "start" => pc[q] = "start"
  PROVE  Rounds'
<1>1. \A q \in Roles : round(q)' = round(q)
  BY DEF round
<1> QED BY <1>1 DEF Rounds

(* A role comes to a barrier at the end of another segment than the last.  *)
LEMMA RoundsBarrier ==
  ASSUME CInv, Rounds, NEW p \in Roles, p \notin arrived, pc[p] \notin After \cup {"collect"},
         NEW l \in Labels \ {"add", "start"}, goto(p, l), barrier_wait(p), pc[p] # "add", UNCHANGED iter
  PROVE  Rounds'
<1>1. pc'[p] = l /\ \A q \in Roles \ {p} : pc'[q] = pc[q]
  BY DEF goto, CInv, TypeOK
<1>2. ASSUME NEW q \in Roles, q \in arrived PROVE pc[q] # "add"
  <2>1. waiting(pc[q]) = inside(pc[p])
    BY <1>2 DEF CInv, Together, segment
  <2>2. pc[p] \in Labels
    BY DEF CInv, TypeOK
  <2>3. inside(pc[p]) # 7
    BY <2>2 DEF inside, Labels, Before, After
  <2> QED BY <2>1, <2>3 DEF waiting
<1>3. \A q \in Roles \ {p} : q \in arrived' => q \in arrived
  BY DEF barrier_wait, CInv, TypeOK
<1>4. ASSUME NEW q \in Roles
      PROVE  (pc'[q] = "add" /\ q \notin arrived') <=> (pc[q] = "add" /\ q \notin arrived)
  <2>1. CASE q = p
    BY <1>1, <2>1
  <2>2. CASE q # p /\ q \in arrived
    BY <1>1, <1>2, <2>2
  <2>3. CASE q # p /\ q \notin arrived
    BY <1>1, <1>3, <2>3
  <2> QED BY <2>1, <2>2, <2>3
<1>5. \A q \in Roles : pc'[q] = "start" => pc[q] = "start"
  BY <1>1
<1> QED BY <1>4, <1>5, RoundsKept

(* A role moves without a barrier.                                         *)
LEMMA RoundsMove ==
  ASSUME CInv, Rounds, NEW p \in Roles, NEW l \in Labels \ {"add", "start"}, goto(p, l),
         pc[p] # "add", UNCHANGED <<iter, arrived>>
  PROVE  Rounds'
<1>1. pc'[p] = l /\ \A q \in Roles \ {p} : pc'[q] = pc[q]
  BY DEF goto, CInv, TypeOK
<1>2. \A q \in Roles : (pc'[q] = "add" /\ q \notin arrived') <=> (pc[q] = "add" /\ q \notin arrived)
  BY <1>1
<1>3. \A q \in Roles : pc'[q] = "start" => pc[q] = "start"
  BY <1>1
<1> QED BY <1>2, <1>3, RoundsKept

LEMMA RoundsAdd ==
  ASSUME CInv, Rounds, NEW p \in Roles, Add(p)
  PROVE  Rounds'
<1>1. /\ pc[p] = "add" /\ p \notin arrived /\ UNCHANGED arrived
      /\ pc'[p] = "top" /\ \A q \in Roles \ {p} : pc'[q] = pc[q]
  BY DEF Add, At, goto, CInv, TypeOK
<1>2. /\ iter' \in [Roles -> Nat] /\ iter'[p] = iter[p] + 1
      /\ \A q \in Roles \ {p} : iter'[q] = iter[q]
  BY DEF Add, Rounds
<1>3. \A q \in Roles : round(q)' = round(q)
  BY <1>1, <1>2 DEF round
<1>4. \A q \in Roles : pc'[q] = "start" => iter'[q] = 0
  BY <1>1, <1>2 DEF Rounds
<1> QED BY <1>2, <1>3, <1>4 DEF Rounds

LEMMA RoundsCollect ==
  ASSUME CInv, Rounds, NEW p \in Roles, Collect(p)
  PROVE  Rounds'
<1>1. /\ pc[p] = "collect" /\ p \notin arrived /\ UNCHANGED iter /\ barrier_wait(p)
      /\ pc'[p] = "add" /\ \A q \in Roles \ {p} : pc'[q] = pc[q]
  BY DEF Collect, At, goto, CInv, TypeOK
<1>2. CASE arrived \cup {p} = Roles
  <2>1. arrived' = {} /\ \A q \in Roles \ {p} : q \in arrived
    BY <1>1, <1>2 DEF barrier_wait
  <2>2. ASSUME NEW q \in Roles \ {p} PROVE pc[q] = "add"
    <3>1. waiting(pc[q]) = inside("collect") /\ pc[q] \in Entered
      BY <1>1, <2>1 DEF CInv, Together, Control, segment
    <3> QED BY <3>1 DEF waiting, inside, Entered, Before, After
  <2>3. \A q \in Roles : pc'[q] = "add" /\ round(q) = iter[q] /\ round(q)' = iter[q] + 1
    BY <1>1, <2>1, <2>2 DEF round
  <2> QED BY <1>1, <2>3 DEF Rounds
<1>3. CASE arrived \cup {p} # Roles
  <2>1. arrived' = arrived \cup {p}
    BY <1>1, <1>3 DEF barrier_wait
  <2>2. \A q \in Roles : (pc'[q] = "add" /\ q \notin arrived') <=> (pc[q] = "add" /\ q \notin arrived)
    BY <1>1, <2>1
  <2>3. \A q \in Roles : pc'[q] = "start" => pc[q] = "start"
    BY <1>1
  <2> QED BY <1>1, <2>2, <2>3, RoundsKept
<1> QED BY <1>2, <1>3

LEMMA RoundsStep ==
  ASSUME CInv, Rounds, [Next]_vars
  PROVE  Rounds'
<1>1. CASE StartTest
  <2>1. \A q \in Roles : iter'[q] = 0 /\ pc'[q] \in {"idle", "start"}
    BY <1>1 DEF StartTest
  <2>2. iter' \in [Roles -> Nat]
    BY <1>1 DEF StartTest
  <2>3. \A q \in Roles : round(q)' = 0
    BY <2>1 DEF round
  <2> QED BY <2>1, <2>2, <2>3 DEF Rounds
<1>2. ASSUME NEW p \in Roles, do_run(p) PROVE Rounds'
  <2> USE DEF Labels, Before, After
  <2>1. CASE Start(p)
    <3>1. goto(p, "top")
      BY <2>1 DEF Start
    <3> QED BY <2>1, <3>1, RoundsBarrier DEF Start, At
  <2>2. CASE NextIteration(p)
    <3>1. goto(p, "do_run")
      BY <2>2 DEF NextIteration
    <3> QED BY <2>2, <3>1, RoundsBarrier DEF NextIteration, At
  <2>3. CASE EnterRun(p)
    <3>1. goto(p, "init")
      BY <2>3 DEF EnterRun
    <3> QED BY <2>3, <3>1, RoundsBarrier DEF EnterRun, At
  <2>4. CASE InitVars(p)
    <3>1. goto(p, "touch")
      BY <2>4 DEF InitVars
    <3> QED BY <2>4, <3>1, RoundsBarrier DEF InitVars, At
  <2>5. CASE Touch(p)
    <3>1. PICK l \in {"arg", "sync"} : goto(p, l)
      BY <2>5 DEF Touch
    <3>2. pc[p] = "touch" /\ p \notin arrived /\ UNCHANGED iter /\ (barrier_wait(p) \/ UNCHANGED arrived)
      BY <2>5 DEF Touch, At
    <3> QED BY <3>1, <3>2, RoundsBarrier, RoundsMove
  <2>6. CASE Sync(p)
    <3>1. goto(p, "code")
      BY <2>6 DEF Sync
    <3> QED BY <2>6, <3>1, RoundsBarrier DEF Sync, At
  <2>7. CASE EndCode(p)
    <3>1. PICK l \in {"restore", "collect"} : goto(p, l)
      BY <2>7 DEF EndCode
    <3> QED BY <2>7, <3>1, RoundsBarrier DEF EndCode, At
  <2>8. CASE \/ EndTest(p) \/ Argument(p) \/ Break(p) \/ Flush(p) \/ Make(p)
             \/ ReadAttr(p) \/ StoreAttr(p) \/ FlushLast(p)
    <3>1. pc[p] # "add" /\ UNCHANGED <<iter, arrived>>
      BY <2>8 DEF EndTest, Argument, Break, Flush, Make, ReadAttr, StoreAttr, FlushLast, At
    <3>2. PICK l \in Labels \ {"add", "start"} : goto(p, l)
      BY <2>8 DEF EndTest, Argument, Break, Flush, Make, ReadAttr, StoreAttr, FlushLast
    <3> QED BY <3>1, <3>2, RoundsMove
  <2>9. CASE Execute(p) \/ Fault(p)
    <3>1. UNCHANGED <<pc, iter, arrived>>
      BY <2>9 DEF Execute, Fault
    <3> QED BY <3>1, RoundsKept
  <2> QED BY <1>2, <2>1, <2>2, <2>3, <2>4, <2>5, <2>6, <2>7, <2>8, <2>9, RoundsAdd, RoundsCollect DEF do_run
<1>3. ASSUME NEW p \in Roles, Speculate(p) PROVE Rounds'
  <2>1. UNCHANGED <<pc, iter, arrived>>
    BY <1>3 DEF Speculate, control
  <2> QED BY <2>1, RoundsKept
<1>4. CASE UNCHANGED vars
  <2>1. UNCHANGED <<pc, iter, arrived>>
    BY <1>4 DEF vars, control
  <2> QED BY <2>1, RoundsKept
<1> QED BY <1>1, <1>2, <1>3, <1>4 DEF Next

-----------------------------------------------------------------------------

(* A step that records nothing.                                            *)
LEMMA RecordedKept ==
  ASSUME Recorded, UNCHANGED <<faults, raised, machine>>,
         \A q \in Roles : present(q)' => present(q)
  PROVE  Recorded'
<1>1. \A l, r, q : records(l, r, q)' = records(l, r, q)
  BY DEF records, conf, machine
<1> QED BY <1>1 DEF Recorded

LEMMA RecordedFault ==
  ASSUME Fits, CInv, Pointers, Recorded, NEW p \in Roles, Fault(p)
  PROVE  Recorded'
<1> DEFINE i == ins(p)
           c == IF i.op = "UDF" THEN 0 ELSE dfsc(p, i.op)
           f == fault_info(i, c)
<1>1. /\ pc[p] = "code" /\ ip[p] <= Len(conf.code[p]) /\ UNCHANGED <<machine, pc, iter>>
      /\ faults' = [faults EXCEPT ![p] = record_fault(@, p, f, conf.atoms)]
      /\ raised' = [raised EXCEPT ![p] = @ \cup {f}]
  BY Zenon DEF Fault, InCode, At
<1>2. test > 0
  BY <1>1 DEF CInv, Control
<1>3. conf \in Tests
  BY <1>2, PresentTest DEF CInv
<1>4. Len(conf.code[p]) \in Nat
  BY <1>3, TestsAssumption
<1>5. ip[p] \in 1..Len(conf.code[p])
  BY <1>1, <1>4 DEF Pointers
<1>6. c \in codes
  BY DEF dfsc, codes
<1>7. f = fault_info(conf.code[p][ip[p]], c)
  BY Zenon DEF ins
<1> HIDE DEF f, c, i
<1>8. records(faults[p], raised[p], p)
  BY <1>1 DEF Recorded, present
<1>9. records(record_fault(faults[p], p, f, conf.atoms), raised[p] \cup {f}, p)
  BY <1>3, <1>5, <1>6, <1>7, <1>8, RecordStep
<1>10. /\ DOMAIN faults' = Roles /\ DOMAIN raised' = Roles
       /\ faults'[p] = record_fault(faults[p], p, f, conf.atoms) /\ raised'[p] = raised[p] \cup {f}
       /\ \A q \in Roles \ {p} : faults'[q] = faults[q] /\ raised'[q] = raised[q]
  BY <1>1 DEF Recorded
<1>11. \A l, r, q : records(l, r, q)' = records(l, r, q)
  BY <1>1 DEF records, conf, machine
<1>12. \A q \in Roles : present(q)' = present(q)
  BY <1>1 DEF present
<1> QED BY <1>9, <1>10, <1>11, <1>12 DEF Recorded

LEMMA RecordedStep ==
  ASSUME Fits, CInv, Pointers, Rounds, Recorded, [Next]_vars
  PROVE  Recorded'
<1>1. CASE StartTest
  <2>1. \A q \in Roles : iter'[q] = 0 /\ pc'[q] \in {"idle", "start"}
    BY <1>1 DEF StartTest
  <2>2. \A q \in Roles : ~present(q)'
    BY <2>1 DEF present
  <2> QED BY <1>1, <2>2 DEF Recorded, StartTest, history
<1>2. ASSUME NEW p \in Roles, EnterRun(p) PROVE Recorded'
  <2>1. /\ DOMAIN faults' = Roles /\ DOMAIN raised' = Roles
        /\ faults'[p] = <<>> /\ raised'[p] = {}
        /\ \A q \in Roles \ {p} : faults'[q] = faults[q] /\ raised'[q] = raised[q] /\ pc'[q] = pc[q]
        /\ UNCHANGED <<machine, iter>>
    BY <1>2 DEF EnterRun, Recorded, th_faults_info_init, goto, CInv, TypeOK
  <2>2. \A q \in Roles \ {p} : present(q)' = present(q)
    BY <2>1 DEF present
  <2>3. \A l, r, q : records(l, r, q)' = records(l, r, q)
    BY <2>1 DEF records, conf, machine
  <2>4. records(<<>>, {}, p)
    BY DEF records
  <2> QED BY <2>1, <2>2, <2>3, <2>4 DEF Recorded
<1>3. ASSUME NEW p \in Roles,
             \/ Start(p) \/ NextIteration(p) \/ InitVars(p) \/ Touch(p)
             \/ Argument(p) \/ Break(p) \/ Flush(p) \/ Make(p) \/ ReadAttr(p) \/ StoreAttr(p)
             \/ FlushLast(p) \/ Sync(p) \/ EndCode(p) \/ Collect(p) \/ Add(p) \/ EndTest(p)
      PROVE  Recorded'
  <2>1. UNCHANGED <<machine, faults, raised>>
    BY <1>3 DEF Start, NextIteration, InitVars, Touch, Argument, Break, Flush, Make, ReadAttr, StoreAttr,
                FlushLast, Sync, EndCode, Collect, Add, EndTest, history
  <2>2. \A q \in Roles \ {p} : pc'[q] = pc[q] /\ iter'[q] = iter[q]
    BY <1>3 DEF Start, NextIteration, InitVars, Touch, Argument, Break, Flush, Make, ReadAttr, StoreAttr,
                FlushLast, Sync, EndCode, Collect, Add, EndTest, goto, CInv, TypeOK, Rounds
  <2>3. present(p)' => present(p)
    <3>1. CASE Start(p)
      <4>1. pc[p] = "start" /\ pc'[p] = "top" /\ iter'[p] = iter[p]
        BY <3>1 DEF Start, At, goto, CInv, TypeOK
      <4> QED BY <4>1 DEF present, Rounds
    <3>2. CASE NextIteration(p) \/ EndTest(p)
      <4>1. pc[p] = "top" /\ pc'[p] \in {"do_run", "idle"} /\ iter'[p] = iter[p]
        BY <3>2 DEF NextIteration, EndTest, At, goto, CInv, TypeOK
      <4> QED BY <4>1 DEF present
    <3>3. CASE ~Start(p) /\ ~NextIteration(p) /\ ~EndTest(p)
      <4>1. pc[p] \notin {"idle", "start", "top", "do_run"}
        BY <1>3, <3>3 DEF InitVars, Touch, Argument, Break, Flush, Make, ReadAttr, StoreAttr,
                          FlushLast, Sync, EndCode, Collect, Add, At
      <4> QED BY <4>1 DEF present
    <3> QED BY <3>1, <3>2, <3>3
  <2>4. \A q \in Roles : present(q)' => present(q)
    BY <2>2, <2>3 DEF present
  <2> QED BY <2>1, <2>4, RecordedKept
<1>4. ASSUME NEW p \in Roles, Execute(p) \/ Speculate(p) PROVE Recorded'
  <2>1. UNCHANGED <<machine, faults, raised, pc, iter>>
    BY <1>4 DEF Execute, Speculate, control
  <2>2. \A q \in Roles : present(q)' => present(q)
    BY <2>1 DEF present
  <2> QED BY <2>1, <2>2, RecordedKept
<1>5. CASE UNCHANGED vars
  <2>1. UNCHANGED <<machine, faults, raised, pc, iter>>
    BY <1>5 DEF vars, control, history
  <2>2. \A q \in Roles : present(q)' => present(q)
    BY <2>1 DEF present
  <2> QED BY <2>1, <2>2, RecordedKept
<1> QED BY <1>1, <1>2, <1>3, <1>4, <1>5, RecordedFault DEF Next, do_run

(* Lists without repetitions are compared as sets of faults.               *)
LEMMA Compared ==
  ASSUME NEW X, NEW l \in Seq(X), \A i, j \in DOMAIN l : l[i] = l[j] => i = j,
         NEW Y, NEW m \in Seq(Y), \A i, j \in DOMAIN m : m[i] = m[j] => i = j
  PROVE  th_faults_info_compare(l, m) <=> Range(l) = Range(m)
<1>1. IsFiniteSet(Range(l)) /\ Cardinality(Range(l)) = Len(l)
  BY Distinct
<1>2. IsFiniteSet(Range(m)) /\ Cardinality(Range(m)) = Len(m)
  BY Distinct
<1>3. (\A i \in DOMAIN l : \E j \in DOMAIN m : l[i] = m[j]) <=> Range(l) \subseteq Range(m)
  <2>1. \A y : (y \in Range(l) <=> \E i \in DOMAIN l : y = l[i])
              /\ (y \in Range(m) <=> \E j \in DOMAIN m : y = m[j])
    BY Zenon DEF Range
  <2> QED BY <2>1, Zenon
<1>4. ASSUME Len(l) = Len(m), Range(l) \subseteq Range(m) PROVE Range(l) = Range(m)
  BY <1>1, <1>2, <1>4, FS_Subset
<1> QED BY <1>1, <1>2, <1>3, <1>4 DEF th_faults_info_compare

LEMMA LoggedFaults ==
  ASSUME CInv, Rounds, Recorded, At(0, "add")
  PROVE  FaultsLogged
<1>1. 0 \in Roles /\ pc[0] = "add" /\ 0 \notin arrived
  BY TestsAssumption DEF At, Roles
<1>2. conf \in Tests
  BY <1>1, PresentTest DEF CInv, Control
<1>3. PICK n \in Nat : DOMAIN conf.atoms = 1..n
  BY <1>2, TestsAssumption
<1>4. \A a \in Range(conf.atoms) : a.proc \in Roles
  BY <1>2, TestsAssumption
<1>5. ASSUME NEW p \in Roles PROVE records(faults[p], raised[p], p)
  <2>1. round(p) = iter[0] + 1 /\ iter[0] \in Nat
    BY <1>1 DEF Rounds, round
  <2>2. pc[p] # "add" => iter[p] = iter[0] + 1
    BY <2>1 DEF round
  <2>3. present(p)
    BY <2>1, <2>2 DEF present, Rounds
  <2> QED BY <2>3 DEF Recorded
<1> DEFINE atoms == conf.atoms
           out == pp_log(faults, atoms)
<1>6. ASSUME NEW a \in Range(atoms)
      PROVE  exists_fault(faults[a.proc], a) <=> \E f \in raised[a.proc] : matches(f, a)
  <2> DEFINE p == a.proc
  <2>1. p \in Roles
    BY <1>4
  <2> HIDE DEF p, atoms
  <2>2. /\ \A i \in DOMAIN faults[p] : faults[p][i] \in raised[p]
        /\ \A f \in raised[p] : log_fault(p, f, atoms) => \E i \in DOMAIN faults[p] : matches(faults[p][i], f)
    BY <1>5, <2>1 DEF records, atoms
  <2>3. ASSUME exists_fault(faults[p], a) PROVE \E f \in raised[p] : matches(f, a)
    BY <2>2, <2>3 DEF exists_fault
  <2>4. ASSUME NEW f \in raised[p], matches(f, a) PROVE exists_fault(faults[p], a)
    <3>1. log_fault(p, f, atoms)
      BY <2>4 DEF log_fault, p
    <3>2. PICK i \in DOMAIN faults[p] : matches(faults[p][i], f)
      BY <2>2, <3>1
    <3>3. matches(faults[p][i], a)
      BY <2>4, <3>2, Matching
    <3> QED BY <3>3 DEF exists_fault
  <2> QED BY <2>3, <2>4 DEF p
<1>7. out = after(faults, atoms, 1..n)
  BY <1>3, LogIs
<1> HIDE DEF out
<1> DEFINE reported == {x \in places(faults) : \E j \in 1..n : hits(faults, x, atoms[j])}
<1>8. /\ out.printed = [x \in places(faults) |-> IF x \in reported THEN 1 ELSE 0]
      /\ out.not = {atoms[j] : j \in {i \in 1..n : \A x \in places(faults) : ~hits(faults, x, atoms[i])}}
  <2> HIDE DEF atoms
  <2> QED BY <1>7 DEF after
<1>9. ASSUME NEW x \in places(faults) PROVE out.printed[x] = 1
  <2>1. PICK p \in Roles : \E i \in DOMAIN faults[p] : x = <<p, i>>
    BY DEF places, Recorded
  <2>2. PICK i \in DOMAIN faults[p] : x = <<p, i>>
    BY <2>1
  <2>3. faults[p][i] \in possible(conf, p)
    BY <1>5 DEF records
  <2>4. PICK a \in Range(atoms) : a.proc = p /\ matches(faults[p][i], a)
    BY <2>3 DEF possible, log_fault
  <2>5. PICK j \in 1..n : atoms[j] = a
    BY <1>3 DEF Range
  <2>6. hits(faults, x, atoms[j])
    BY <2>2, <2>4, <2>5 DEF hits
  <2>7. x \in reported
    BY <2>6
  <2> HIDE DEF reported
  <2> QED BY <1>8, <2>7
<1>10. out.not = {a \in Range(atoms) : \A f \in raised[a.proc] : ~matches(f, a)}
  <2>1. ASSUME NEW a \in Range(atoms)
        PROVE  (\A x \in places(faults) : ~hits(faults, x, a)) <=> ~exists_fault(faults[a.proc], a)
    <3>1. a.proc \in DOMAIN faults
      BY <1>4 DEF Recorded
    <3>2. ASSUME NEW i \in DOMAIN faults[a.proc] PROVE <<a.proc, i>> \in places(faults)
      BY <3>1, <3>2 DEF places
    <3>3. ASSUME NEW x \in places(faults), hits(faults, x, a) PROVE exists_fault(faults[a.proc], a)
      <4>1. PICK p \in DOMAIN faults : \E i \in DOMAIN faults[p] : x = <<p, i>>
        BY DEF places
      <4> QED BY <4>1, <3>3 DEF hits, exists_fault
    <3>4. ASSUME exists_fault(faults[a.proc], a) PROVE \E x \in places(faults) : hits(faults, x, a)
      <4>1. PICK i \in DOMAIN faults[a.proc] : matches(faults[a.proc][i], a)
        BY <3>4 DEF exists_fault
      <4>2. hits(faults, <<a.proc, i>>, a)
        BY <4>1 DEF hits
      <4> QED BY <3>2, <4>2
    <3> QED BY <3>3, <3>4
  <2>2. Range(atoms) = {atoms[j] : j \in 1..n}
    BY <1>3 DEF Range
  <2> HIDE DEF atoms
  <2>3. \A a \in Range(atoms) : (\A x \in places(faults) : ~hits(faults, x, a))
                                <=> \A f \in raised[a.proc] : ~matches(f, a)
    BY <1>6, <2>1
  <2> QED BY <1>8, <2>2, <2>3
<1>11. ASSUME NEW p \in Roles, NEW q \in Roles
       PROVE  th_faults_info_compare(faults[p], faults[q]) <=> Range(faults[p]) = Range(faults[q])
  <2>1. /\ faults[p] \in Seq(possible(conf, p))
        /\ \A i, j \in DOMAIN faults[p] : faults[p][i] = faults[p][j] => i = j
    BY <1>5 DEF records
  <2>2. /\ faults[q] \in Seq(possible(conf, q))
        /\ \A i, j \in DOMAIN faults[q] : faults[q][i] = faults[q][j] => i = j
    BY <1>5 DEF records
  <2> QED BY <2>1, <2>2, Compared
<1> QED BY <1>6, <1>9, <1>10, <1>11, Zenon DEF FaultsLogged, out, atoms

(* Whatever faults the code raises, and however often, the condition and   *)
(* the printed outcome see those of this iteration that they ask for, if   *)
(* MAX_FAULTS_PER_THREAD is no less than the number of different faults    *)
(* that a role can have logged.  That record_fault searches the list with  *)
(* exists_fault, for which an unknown field matches any, loses no atom.    *)
THEOREM FaultsRecorded ==
  ASSUME Fits
  PROVE  Spec => []FaultsLogged
<1>1. Init => Pointers /\ Rounds /\ Recorded
  <2> SUFFICES ASSUME Init PROVE Pointers /\ Rounds /\ Recorded
    OBVIOUS
  <2>1. Pointers
    BY DEF Init, Pointers
  <2>2. \A p \in Roles : pc[p] = "idle" /\ iter[p] = 0
    BY DEF Init
  <2>3. Rounds
    BY <2>2 DEF Init, Rounds, round
  <2>4. Recorded
    BY <2>2 DEF Init, Recorded, present
  <2> QED BY <2>1, <2>3, <2>4
<1>2. IInv /\ Pointers /\ Rounds /\ Recorded /\ [Next]_vars => Pointers' /\ Rounds' /\ Recorded'
  BY PointersStep, RoundsStep, RecordedStep DEF IInv, CInv
<1>3. IInv /\ Rounds /\ Recorded => FaultsLogged
  <2> SUFFICES ASSUME CInv, Rounds, Recorded PROVE FaultsLogged
    BY DEF IInv, CInv
  <2>1. CASE At(0, "add")
    BY <2>1, LoggedFaults
  <2>2. CASE ~At(0, "add")
    BY <2>2 DEF FaultsLogged
  <2> QED BY <2>1, <2>2
<1> QED BY <1>1, <1>2, <1>3, KvmInvariant, PTL DEF Spec

-----------------------------------------------------------------------------
(* Hardware management.                                                    *)

LEMMA HahdBits ==
  ASSUME NEW t, NEW v, v \subseteq {0, 1}
  PROVE  set_hahd_bits(t, v) \cap {HA, HD} = {b + HA : b \in v}
BY DEF set_hahd_bits, HA, HD

LEMMA ResetBits ==
  ASSUME NEW t, NEW h \in {1, 2}, h = 1 => HD \notin t
  PROVE  reset_hahd_bits(t, h) \cap {HA, HD} = {}
<1>1. CASE h = 1
  BY <1>1 DEF reset_hahd_bits, set_ha_bit, set_tcr_el1_bit, HA, HD
<1>2. CASE h = 2
  BY <1>2 DEF reset_hahd_bits, set_hahd_bits, HA, HD
<1> QED BY <1>1, <1>2

(* A step that changes no control register.                                *)
LEMMA SwitchedKept ==
  ASSUME Switched, UNCHANGED <<machine, tcr>>,
         \A p \in Roles : (pc[p] \in {"idle", "start"}) <=> (pc'[p] \in {"idle", "start"})
  PROVE  Switched'
<1>1. \A p \in Roles : asked(p)' = asked(p)
  BY DEF asked, hahd, conf, machine
<1> QED BY <1>1 DEF Switched

LEMMA SwitchedStep ==
  ASSUME Hafdbs \subseteq {0, 1, 2}, IInv, Switched, [Next]_vars
  PROVE  Switched'
<1>1. pc \in [Roles -> Labels] /\ DOMAIN tcr = Roles /\ hafdbs \in {0, 1, 2}
  BY DEF IInv, TypeOK
<1>2. CASE StartTest
  <2>1. \A p \in Roles : pc[p] = "idle" /\ pc'[p] \in {"idle", "start"}
    BY <1>2 DEF StartTest
  <2> QED BY <1>2, <2>1 DEF Switched, StartTest
<1>3. ASSUME NEW p \in Roles, Start(p) PROVE Switched'
  <2>1. pc[p] = "start" /\ UNCHANGED machine /\ goto(p, "top")
    BY <1>3 DEF Start, At
  <2>2. \A q \in Roles : asked(q)' = asked(q)
    BY <2>1 DEF asked, hahd, conf, machine
  <2>3. tcr[p] \cap {HA, HD} = {}
    BY <2>1 DEF Switched
  <2>4. pc'[p] = "top" /\ \A q \in Roles \ {p} : pc'[q] = pc[q] /\ tcr'[q] = tcr[q]
    BY <1>1, <1>3, <2>1 DEF goto, Start, SetTcr
  <2>5. tcr'[p] \cap {HA, HD} = asked(p)
    <3>1. CASE conf.db
      <4>1. tcr'[p] = set_hahd_bits(tcr[p], hahd(p))
        BY <1>1, <1>3, <3>1 DEF Start, SetTcr
      <4>2. hahd(p) \subseteq {0, 1}
        BY DEF hahd
      <4> QED BY <3>1, <4>1, <4>2, HahdBits DEF asked
    <3>2. CASE ~conf.db
      BY <1>3, <2>3, <3>2 DEF Start, asked
    <3> QED BY <3>1, <3>2
  <2> QED BY <2>2, <2>4, <2>5 DEF Switched
<1>4. ASSUME NEW p \in Roles, EndTest(p) PROVE Switched'
  <2>1. pc[p] = "top" /\ UNCHANGED machine /\ goto(p, "idle")
    BY <1>4 DEF EndTest, At
  <2>2. \A q \in Roles : asked(q)' = asked(q)
    BY <2>1 DEF asked, hahd, conf, machine
  <2>3. tcr[p] \cap {HA, HD} = asked(p) /\ feature_check(conf)
    BY <2>1 DEF Switched, IInv, Control
  <2>4. pc'[p] = "idle" /\ \A q \in Roles \ {p} : pc'[q] = pc[q] /\ tcr'[q] = tcr[q]
    BY <1>1, <1>4, <2>1 DEF goto, EndTest, SetTcr
  <2>5. tcr'[p] \cap {HA, HD} = {}
    <3>1. CASE conf.db
      <4>1. hafdbs \in {1, 2} /\ (hafdbs = 1 => conf.hd = {})
        BY <1>1, <2>3, <3>1 DEF feature_check
      <4>2. tcr'[p] = reset_hahd_bits(tcr[p], hafdbs)
        BY <1>1, <1>4, <3>1, <4>1 DEF EndTest, SetTcr
      <4>3. hafdbs = 1 => HD \notin tcr[p]
        <5> SUFFICES ASSUME hafdbs = 1 PROVE HD \notin asked(p)
          BY <2>3
        <5> QED BY <4>1 DEF asked, hahd, HA, HD
      <4> QED BY <4>1, <4>2, <4>3, ResetBits
    <3>2. CASE ~conf.db
      BY <1>4, <2>3, <3>2 DEF EndTest, asked
    <3> QED BY <3>1, <3>2
  <2> QED BY <2>2, <2>4, <2>5 DEF Switched
<1>5. ASSUME NEW p \in Roles,
             \/ NextIteration(p) \/ EnterRun(p) \/ InitVars(p) \/ Touch(p)
             \/ Argument(p) \/ Break(p) \/ Flush(p) \/ Make(p) \/ ReadAttr(p) \/ StoreAttr(p)
             \/ FlushLast(p) \/ Sync(p) \/ EndCode(p) \/ Collect(p) \/ Add(p)
      PROVE  Switched'
  <2>1. UNCHANGED <<machine, tcr>> /\ pc[p] \notin {"idle", "start"}
    BY <1>5 DEF NextIteration, EnterRun, InitVars, Touch, Argument, Break, Flush, Make, ReadAttr,
                StoreAttr, FlushLast, Sync, EndCode, Collect, Add, At
  <2>2. \E l \in Labels \ {"idle", "start"} : goto(p, l)
    BY <1>5 DEF NextIteration, EnterRun, InitVars, Touch, Argument, Break, Flush, Make, ReadAttr,
                StoreAttr, FlushLast, Sync, EndCode, Collect, Add, Labels, Before, After
  <2>3. \A q \in Roles : (pc[q] \in {"idle", "start"}) <=> (pc'[q] \in {"idle", "start"})
    BY <1>1, <2>1, <2>2 DEF goto
  <2> QED BY <2>1, <2>3, SwitchedKept
<1>6. ASSUME NEW p \in Roles, Execute(p) \/ Fault(p) \/ Speculate(p) PROVE Switched'
  <2>1. UNCHANGED <<machine, tcr, pc>>
    BY <1>6 DEF Execute, Fault, Speculate, control
  <2> QED BY <2>1, SwitchedKept
<1>7. CASE UNCHANGED vars
  BY <1>7, SwitchedKept DEF vars, control
<1> QED BY <1>2, <1>3, <1>4, <1>5, <1>6, <1>7 DEF Next, do_run

(* The code of each test runs with the hardware management that the test   *)
(* asks for, whatever tests ran before, on hardware with a value of HAFDBS *)
(* that reset_hahd_bits knows; run kvm_reset shows that it fails beyond.   *)
THEOREM FeaturesSwitched ==
  ASSUME Hafdbs \subseteq {0, 1, 2}
  PROVE  Spec => []FeaturesAsAsked
<1>1. Init => Switched
  BY DEF Init, Switched
<1>2. IInv /\ Switched /\ [Next]_vars => Switched'
  BY SwitchedStep
<1>3. Switched => FeaturesAsAsked
  BY DEF Switched, FeaturesAsAsked, asked
<1> QED BY <1>1, <1>2, <1>3, KvmInvariant, PTL DEF Spec

=============================================================================
