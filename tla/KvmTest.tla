------------------------------ MODULE KvmTest ------------------------------
(***************************************************************************)
(* The iterations of presi tests in KVM mode (litmus/preSi.ml), for one    *)
(* instance of a test and one variable x with its page table entry, owned  *)
(* by one of the roles.  Around the code of the test, the owner installs   *)
(* the initial entry that the test asks for, and restores the saved one,   *)
(* by a break-before-make sequence; the old entry goes to the outcome.     *)
(* The handler of MMU faults records those that the condition asks for.    *)
(* Hardware management of entries is switched on and off per test.         *)
(*                                                                         *)
(* Role p runs on processor p.  The processor is external: each one has a  *)
(* TLB, which may be filled at any time by a speculative walk, and may set *)
(* the access flag and the dirty state of the entry.  The barrier is the   *)
(* one of SenseBarrier.  An action is an access of the entry or of x, or a *)
(* stretch without one between two barriers.  The test has cache           *)
(* instructions (have_cache), and its condition shows the entry and x.     *)
(***************************************************************************)
EXTENDS KvmPte, KvmFault, FiniteSets

CONSTANTS N, size, owner,
          pte_x, pte_y,   \* entries of x, and of the other variable, at boot
          NTests, Tests,  \* tests in a row, and the tests they are drawn from
          Hafdbs          \* values of the HAFDBS field of ID_AA64MMFR1_EL1

Roles == 0..(N-1)

(* A test has the roles with hardware management of the access flag (ha)   *)
(* and of the dirty state (hd), if it says so (db); an initial entry for x *)
(* and its attributes; the code of each role, a sequence of instructions;  *)
(* the atoms of its condition; and what is done after a fault.  An entry   *)
(* is described by the page it maps and by its flags.                      *)
describes(i) == i.oa \in 0..1 /\ i.flags \subseteq msk_full

ASSUME TestsAssumption ==
  /\ N \in Nat \ {0} /\ owner \in Roles /\ {size, NTests} \subseteq Nat
  /\ \A t \in Tests : /\ t.db \in BOOLEAN
                      /\ t.ha \subseteq Roles /\ t.hd \subseteq Roles
                      /\ t.init.kind \in {"none", "P", "Z", "V"} /\ describes(t.init)
                      /\ DOMAIN t.code = Roles
                      /\ \A p \in Roles :
                           /\ Len(t.code[p]) \in Nat
                           /\ \A i \in 1..Len(t.code[p]) : t.code[p][i].op = "PTE" =>
                                t.code[p][i].pte.kind \in {"P", "V"} /\ describes(t.code[p][i].pte)
                      /\ Len(t.atoms) \in Nat /\ DOMAIN t.atoms = 1..Len(t.atoms)
                      /\ \A a \in Range(t.atoms) : a.proc \in Roles
                      /\ t.handling \in {"fatal", "skip", "handled"}

(* The entry that kvm-unit-tests gives x at boot (external): valid, with   *)
(* the access flag, and writable.  The other variable has the same flags,  *)
(* and a page of its own.                                                  *)
ASSUME PteAssumption == /\ msk_valid \cup msk_af \subseteq pte_x /\ msk_db \cap pte_x = {}
                        /\ pte_y \cap msk_full = pte_x \cap msk_full
                        /\ ~litmus_same_oa(pte_y, pte_x)

VARIABLES hafdbs, tests, test,    \* the hardware; the tests, and the present one
          pc, ip, iter, arrived,  \* control of each role, and the barrier
          tcr, tlb, pte,          \* per processor TCR_EL1 and TLB; the entry of x
          saved, arg,             \* saved_pte_x; a local variable of the owner
          log, faults,            \* the outcome: entry of x, faults of each role
          raised, expect, own     \* what the test did to the entry and to itself:
                                  \* history variables, see the properties

machine == <<hafdbs, tests, test>>
control == <<pc, ip, iter, arrived>>
history == <<raised, expect, own>>
vars == <<machine, control, tcr, tlb, pte, saved, arg, log, faults, history>>

conf == tests[test]
NoEntry == {}

(* What the test says of an entry, with the flags as the test writes them. *)
entry(oa, flags) ==
  LET f(mask) == IF mask \subseteq flags THEN 1 ELSE 0
  IN  [oa |-> oa, af |-> f(msk_af), db |-> f(msk_db), dbm |-> f(msk_dbm),
       valid |-> f(msk_valid), el0 |-> f(msk_el0)]
default == entry(0, xor(pte_x, msk_db) \cap msk_full)

Init == /\ hafdbs \in Hafdbs
        /\ tests \in [1..NTests -> Tests]
        /\ test = 0
        /\ pc = [p \in Roles |-> "idle"]
        /\ ip = [p \in Roles |-> 1]
        /\ iter = [p \in Roles |-> 0]
        /\ arrived = {}
        /\ tcr = [p \in Roles |-> {}]
        /\ tlb = [p \in Roles |-> NoEntry]
        /\ pte = pte_x /\ saved = pte_x /\ arg = pte_x /\ log = pte_x
        /\ faults = [p \in Roles |-> th_faults_info_init]
        /\ raised = [p \in Roles |-> {}]
        /\ expect = default /\ own = FALSE

barrier_wait(p) == LET a == arrived \cup {p}
                   IN  arrived' = IF a = Roles THEN {} ELSE a
At(p, l) == pc[p] = l /\ p \notin arrived
goto(p, l) == pc' = [pc EXCEPT ![p] = l]

-----------------------------------------------------------------------------
(* The memory management of processor p, for an access "R" or "W" of x.    *)

has(e, mask) == mask \subseteq e
enabled(p, b) == HA \in tcr[p] /\ b \in tcr[p]

(* The TLB answers, unless the access is one that the entry forbids.       *)
hit(p, op) == has(tlb[p], msk_valid) /\ (op = "W" => ~has(tlb[p], msk_db))
used(p, op) == IF hit(p, op) THEN tlb[p] ELSE pte

(* The status code of a fault (level 3), 0 if there is none.               *)
dfsc(p, op) ==
  LET e == used(p, op)
  IN  CASE ~has(e, msk_valid) -> 7
        [] has(e, msk_valid) /\ ~has(e, msk_af) /\ ~enabled(p, HA) -> 11
        [] /\ has(e, msk_valid) /\ (has(e, msk_af) \/ enabled(p, HA))
           /\ op = "W" /\ has(e, msk_db) /\ ~(has(e, msk_dbm) /\ enabled(p, HD)) -> 15
        [] OTHER -> 0

managed(e, op) == (e \cup msk_af) \ (IF op = "W" THEN msk_db ELSE {})

(* An access that succeeds; the hardware updates the entry on a walk.      *)
Access(p, op) ==
  LET e == IF hit(p, op) THEN pte ELSE managed(pte, op)
  IN  /\ dfsc(p, op) = 0
      /\ pte' = e
      /\ tlb' = [tlb EXCEPT ![p] = IF hit(p, op) THEN @ ELSE e]
      /\ expect' = [expect EXCEPT !.af = IF e = pte THEN @ ELSE 1,
                                  !.db = IF has(pte \ e, msk_db) THEN 1 ELSE @]

(* A speculative walk, which may replace what the TLB had.                 *)
Speculate(p) == /\ has(pte, msk_valid)
                /\ has(pte, msk_af) \/ enabled(p, HA)
                /\ pte' = managed(pte, "R")
                /\ tlb' = [tlb EXCEPT ![p] = pte']
                /\ expect' = [expect EXCEPT !.af = IF pte' = pte THEN @ ELSE 1]
                /\ UNCHANGED <<machine, control, tcr, saved, arg, log, faults, raised, own>>

flush_all == tlb' = [p \in Roles |-> NoEntry]

-----------------------------------------------------------------------------

(* main: the next test, if the hardware has the features it needs.         *)
feature_check(t) == ~t.db \/ (IF t.hd # {} THEN hafdbs >= 2
                              ELSE t.ha # {} /\ hafdbs >= 1)

StartTest == /\ \A p \in Roles : pc[p] = "idle"
             /\ test < NTests
             /\ test' = test + 1
             /\ IF feature_check(tests[test'])
                THEN /\ pc' = [p \in Roles |-> "start"]
                     /\ saved' = pte
                ELSE UNCHANGED <<pc, saved>>
             /\ iter' = [p \in Roles |-> 0]
             /\ UNCHANGED <<hafdbs, tests, ip, arrived, tcr, tlb, pte, arg, log, faults, history>>

(* set_tcr_el1 also invalidates the TLB of the processor.                  *)
SetTcr(p, v) == /\ tcr' = [tcr EXCEPT ![p] = v]
                /\ tlb' = [tlb EXCEPT ![p] = NoEntry]

hahd(p) == (IF p \in conf.ha THEN {0} ELSE {}) \cup (IF p \in conf.hd THEN {1} ELSE {})

(* zyva, up to the end of set_role.                                        *)
Start(p) == /\ At(p, "start")
            /\ IF conf.db THEN SetTcr(p, set_hahd_bits(tcr[p], hahd(p)))
                          ELSE UNCHANGED <<tcr, tlb>>
            /\ barrier_wait(p)
            /\ goto(p, "top")
            /\ UNCHANGED <<machine, ip, iter, pte, saved, arg, log, faults, history>>

(* The end of zyva.                                                        *)
EndTest(p) == /\ At(p, "top")
              /\ iter[p] = size
              /\ IF conf.db /\ hafdbs \in {1, 2}
                 THEN SetTcr(p, reset_hahd_bits(tcr[p], hafdbs))
                 ELSE UNCHANGED <<tcr, tlb>>
              /\ goto(p, "idle")
              /\ UNCHANGED <<machine, ip, iter, arrived, pte, saved, arg, log, faults, history>>

(* The barrier at the top of an iteration.                                 *)
NextIteration(p) == /\ At(p, "top")
                    /\ iter[p] < size
                    /\ barrier_wait(p)
                    /\ goto(p, "do_run")
                    /\ UNCHANGED <<machine, ip, iter, tcr, tlb, pte, saved, arg, log, faults, history>>

EnterRun(p) == /\ At(p, "do_run")
               /\ faults' = [faults EXCEPT ![p] = th_faults_info_init]
               /\ raised' = [raised EXCEPT ![p] = {}]
               /\ barrier_wait(p)
               /\ goto(p, "init")
               /\ UNCHANGED <<machine, ip, iter, tcr, tlb, pte, saved, arg, log, expect, own>>

(* The owner initialises x and invalidates its TLB entries.                *)
InitVars(p) == /\ At(p, "init")
               /\ IF p = owner THEN dfsc(p, "W") = 0 /\ flush_all ELSE UNCHANGED tlb
               /\ expect' = default /\ own' = FALSE
               /\ barrier_wait(p)
               /\ goto(p, "touch")
               /\ UNCHANGED <<machine, ip, iter, tcr, pte, saved, arg, log, faults, raised>>

\* the entry is changed while others still access x
Touch_NoBarrier(p) == /\ At(p, "touch")
                      /\ Access(p, "R")
                      /\ goto(p, IF p = owner /\ conf.init.kind # "none" THEN "arg" ELSE "sync")
                      /\ UNCHANGED <<machine, ip, iter, arrived, tcr, saved, arg, log, faults,
                                     raised, own>>

(* x is touched, flushed or ignored.  The barrier that follows is there if *)
(* some initial entry is given.                                            *)
Touch(p) == /\ At(p, "touch")
            /\ Access(p, "R") \/ UNCHANGED <<pte, tlb, expect>>
            /\ IF conf.init.kind # "none" THEN barrier_wait(p) ELSE UNCHANGED arrived
            /\ goto(p, IF p = owner /\ conf.init.kind # "none" THEN "arg" ELSE "sync")
            /\ UNCHANGED <<machine, ip, iter, tcr, saved, arg, log, faults, raised, own>>

-----------------------------------------------------------------------------
(* The owner changes the entry: before the code to the initial entry that  *)
(* the test asks for, after it back to the saved entry.                    *)

idx_physical(v) == IF litmus_same_oa(v, saved) THEN 0
                   ELSE IF litmus_same_oa(v, pte_y) THEN 1 ELSE NVARS
saved_pte(oa) == IF oa = 0 THEN saved ELSE pte_y

(* The entry described by i, when the entry of x is now e.                 *)
value(i, e) == CASE i.kind = "P" -> saved_pte(i.oa)
                 [] i.kind = "Z" -> litmus_set_pte_invalid(e)
                 [] i.kind = "V" -> litmus_set_pte_flags(saved_pte(i.oa), i.flags)

(* What the test expects of the entry once it has the value described by i.*)
expected(i) == CASE i.kind = "V" -> entry(i.oa, i.flags)
                 [] i.kind = "P" -> [default EXCEPT !.oa = i.oa]
                 [] i.kind = "Z" -> [expect EXCEPT !.valid = 0]

(* The argument of litmus_set_pte_safe is computed.                        *)
Argument(p) == /\ \/ At(p, "arg") /\ arg' = value(conf.init, pte) /\ goto(p, "break")
                  \/ At(p, "restore") /\ arg' = saved /\ goto(p, "rbreak")
               /\ UNCHANGED <<machine, ip, iter, arrived, tcr, tlb, pte, saved, log, faults, history>>

\* the entry is made at once
Break_Make(p) == /\ \/ At(p, "break") /\ goto(p, "flush") /\ UNCHANGED log
                    \/ At(p, "rbreak") /\ goto(p, "rflush") /\ log' = pte
                 /\ pte' = arg
                 /\ UNCHANGED <<machine, ip, iter, arrived, tcr, tlb, saved, arg, faults, history>>

(* litmus_set_pte_safe: the entry is swapped with an invalid one; what it  *)
(* was is the result, which is logged at the end of an iteration.          *)
Break(p) == /\ \/ At(p, "break") /\ goto(p, "flush") /\ UNCHANGED log
               \/ At(p, "rbreak") /\ goto(p, "rflush") /\ log' = pte
            /\ pte' = litmus_set_pte_invalid(arg)
            /\ UNCHANGED <<machine, ip, iter, arrived, tcr, tlb, saved, arg, faults, history>>

Flush(p) == /\ \/ At(p, "flush") /\ goto(p, "make")
               \/ At(p, "rflush") /\ goto(p, "rmake")
            /\ flush_all
            /\ UNCHANGED <<machine, ip, iter, arrived, tcr, pte, saved, arg, log, faults, history>>

(* The second swap.  The test expects the entry it has asked for.          *)
Make(p) == /\ \/ /\ At(p, "make") /\ goto(p, "attr")
                 /\ expect' = expected(conf.init)
              \/ At(p, "rmake") /\ goto(p, "rlast") /\ UNCHANGED expect
           /\ pte' = arg
           /\ ip' = [ip EXCEPT ![p] = 1]
           /\ UNCHANGED <<machine, iter, arrived, tcr, tlb, saved, arg, log, faults, raised, own>>

(* litmus_set_pte_attribute, for each attribute in turn: it reads the      *)
(* entry and stores it again.                                              *)
ReadAttr(p) == /\ At(p, "attr")
               /\ IF ip[p] <= Len(conf.init.attrs)
                  THEN /\ arg' = litmus_set_pte_attribute(pte, conf.init.attrs[ip[p]])
                       /\ goto(p, "store")
                  ELSE goto(p, "last") /\ UNCHANGED arg
               /\ UNCHANGED <<machine, ip, iter, arrived, tcr, tlb, pte, saved, log, faults, history>>

StoreAttr(p) == /\ At(p, "store")
                /\ pte' = arg
                /\ expect' = [expect EXCEPT !.af = IF has(arg, msk_af) THEN 1 ELSE 0]
                /\ ip' = [ip EXCEPT ![p] = @ + 1]
                /\ goto(p, "attr")
                /\ UNCHANGED <<machine, iter, arrived, tcr, tlb, saved, arg, log, faults, raised, own>>

\* the last flush is forgotten
FlushLast_Forgotten(p) ==
  /\ \/ At(p, "last") /\ goto(p, "sync")
     \/ At(p, "rlast") /\ goto(p, "collect")
  /\ UNCHANGED <<machine, ip, iter, arrived, tcr, tlb, pte, saved, arg, log, faults, history>>

(* litmus_flush_tlb, "to be performed explicitly".                         *)
FlushLast(p) == /\ \/ At(p, "last") /\ goto(p, "sync")
                   \/ At(p, "rlast") /\ goto(p, "collect")
                /\ flush_all
                /\ UNCHANGED <<machine, ip, iter, arrived, tcr, pte, saved, arg, log, faults, history>>

-----------------------------------------------------------------------------
(* The code of the test and its faults.                                    *)

Sync(p) == /\ At(p, "sync")
           /\ barrier_wait(p)
           /\ ip' = [ip EXCEPT ![p] = 1]
           /\ goto(p, "code")
           /\ UNCHANGED <<machine, iter, tcr, tlb, pte, saved, arg, log, faults, history>>

ins(p) == conf.code[p][ip[p]]
InCode(p) == At(p, "code") /\ ip[p] <= Len(conf.code[p])

(* An instruction that raises no fault: an access of x, or a store to its  *)
(* entry.                                                                  *)
Execute(p) == /\ InCode(p)
              /\ \/ /\ ins(p).op \in {"R", "W"}
                    /\ Access(p, ins(p).op)
                    /\ UNCHANGED own
                 \/ /\ ins(p).op = "PTE"
                    /\ pte' = value(ins(p).pte, pte)
                    /\ expect' = expected(ins(p).pte)
                    /\ own' = TRUE
                    /\ UNCHANGED tlb
              /\ ip' = [ip EXCEPT ![p] = @ + 1]
              /\ UNCHANGED <<machine, pc, iter, arrived, tcr, saved, arg, log, faults, raised>>

(* What record_fault finds out of a fault of instruction i.                *)
fault_info(i, code) ==
  [instr |-> i.label, data |-> IF i.op = "UDF" THEN UNKNOWN ELSE "x",
   type |-> get_fault_type([ec |-> IF i.op = "UDF" THEN "UNKNOWN" ELSE "DABT", dfsc |-> code])]

(* An instruction that faults, and fault_handler: the fault is recorded    *)
(* and control goes to the end of the code, to the next instruction, or    *)
(* back to the same one.                                                   *)
Fault(p) ==
  LET i == ins(p)
      code == IF i.op = "UDF" THEN 0 ELSE dfsc(p, i.op)
      flt == fault_info(i, code)
  IN  /\ InCode(p)
      /\ i.op = "UDF" \/ (i.op \in {"R", "W"} /\ code # 0)
      /\ faults' = [faults EXCEPT ![p] = record_fault(@, p, flt, conf.atoms)]
      /\ raised' = [raised EXCEPT ![p] = @ \cup {flt}]
      /\ ip' = [ip EXCEPT ![p] = CASE conf.handling = "fatal" -> Len(conf.code[p]) + 1
                                   [] conf.handling = "skip" -> @ + 1
                                   [] conf.handling = "handled" -> @]
      /\ UNCHANGED <<machine, pc, iter, arrived, tcr, tlb, pte, saved, arg, log, expect, own>>

EndCode(p) == /\ At(p, "code")
              /\ ip[p] > Len(conf.code[p])
              /\ barrier_wait(p)
              /\ goto(p, IF p = owner THEN "restore" ELSE "collect")
              /\ UNCHANGED <<machine, ip, iter, tcr, tlb, pte, saved, arg, log, faults, history>>

(* The final value of x is collected by its owner.                         *)
Collect(p) == /\ At(p, "collect")
              /\ IF p = owner THEN Access(p, "R") ELSE UNCHANGED <<pte, tlb, expect>>
              /\ barrier_wait(p)
              /\ goto(p, "add")
              /\ UNCHANGED <<machine, ip, iter, tcr, saved, arg, log, faults, raised, own>>

(* Role 0 packs the entry and adds the outcome.                            *)
Add(p) == /\ At(p, "add")
          /\ iter' = [iter EXCEPT ![p] = @ + 1]
          /\ goto(p, "top")
          /\ UNCHANGED <<machine, ip, arrived, tcr, tlb, pte, saved, arg, log, faults, history>>

outcome == pack_pte(idx_physical(log), log)

do_run(p) == \/ Start(p) \/ NextIteration(p) \/ EnterRun(p) \/ InitVars(p) \/ Touch(p)
             \/ Argument(p) \/ Break(p) \/ Flush(p) \/ Make(p) \/ ReadAttr(p) \/ StoreAttr(p)
             \/ FlushLast(p) \/ Sync(p) \/ Execute(p) \/ Fault(p) \/ EndCode(p)
             \/ Collect(p) \/ Add(p) \/ EndTest(p)

Done == test = NTests /\ \A p \in Roles : pc[p] = "idle"

Next == \/ StartTest
        \/ \E p \in Roles : do_run(p) \/ Speculate(p)
        \/ Done /\ UNCHANGED vars

Spec == Init /\ [][Next]_vars

-----------------------------------------------------------------------------

(* Outside the code of the test, no access of x faults and all of them     *)
(* reach the page of x, whatever the test has done to its entry: the       *)
(* initialisation, the touching by other roles, and the collection.        *)
Undisturbed == \A p \in Roles : \A op \in {"R", "W"} :
  \/ At(p, "init") /\ p = owner /\ op = "W"
  \/ At(p, "touch") /\ op = "R"
  \/ At(p, "collect") /\ p = owner /\ op = "R"
  => dfsc(p, op) = 0 /\ litmus_same_oa(used(p, op), pte_x)

(* Break before make: while the owner changes the entry, no processor      *)
(* holds a translation to another page than a valid entry in memory.       *)
BreakBeforeMake == \A p \in Roles :
  /\ pc[owner] \in {"flush", "make", "attr", "store", "last", "rflush", "rmake", "rlast"}
  /\ tlb[p] # NoEntry /\ has(pte, msk_valid)
  => litmus_same_oa(tlb[p], pte)

(* Until the code of the test changes the entry itself, it runs with       *)
(* translations that come from the entry that was installed, address and   *)
(* attributes, and that allow no more than it does.                        *)
FreshTranslations == \A p, q \in Roles :
  pc[q] = "code" /\ q \notin arrived /\ ~own /\ tlb[p] # NoEntry =>
    /\ tlb[p] \ (msk_af \cup msk_db) = pte \ (msk_af \cup msk_db)
    /\ has(pte, msk_db) => has(tlb[p], msk_db)

(* The outcome shows the entry as the test describes entries: the one it   *)
(* installed last, and what the hardware has changed of it since, even     *)
(* when this happens while the entry is being restored.                    *)
LoggedPte == At(0, "add") => outcome = pack_pack(expect) /\ unpack(outcome) = expect

(* The atoms of the condition hold of the recorded faults just when they   *)
(* hold of the faults that the code raised in this iteration; each         *)
(* recorded fault is printed once; and lists that th_faults_info_compare   *)
(* identifies have the same faults.                                        *)
FaultsLogged == At(0, "add") =>
  LET atoms == conf.atoms
      out == pp_log(faults, atoms)
  IN  /\ \A a \in Range(atoms) :
           exists_fault(faults[a.proc], a) <=> \E f \in raised[a.proc] : matches(f, a)
      /\ \A x \in places(faults) : out.printed[x] = 1
      /\ out.not = {a \in Range(atoms) : \A f \in raised[a.proc] : ~matches(f, a)}
      /\ \A p, q \in Roles : th_faults_info_compare(faults[p], faults[q])
                               <=> Range(faults[p]) = Range(faults[q])

(* The code of a test runs with the hardware management that the test asks *)
(* for on each processor, and without any if it asks for none.             *)
FeaturesAsAsked == \A p \in Roles : pc[p] = "code" =>
  tcr[p] \cap {HA, HD} = IF conf.db THEN {b + HA : b \in hahd(p)} ELSE {}

=============================================================================
