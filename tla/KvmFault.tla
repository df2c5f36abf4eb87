------------------------------ MODULE KvmFault ------------------------------
(***************************************************************************)
(* The faults of a thread of a test in KVM mode: their type, the list in   *)
(* which the handler records them, and what the outcome makes of it        *)
(* (litmus/libdir/_aarch64/kvm_fault_type.c and kvm_fault_handler.c).      *)
(*                                                                         *)
(* A fault has the label of its instruction, the symbol of the address and *)
(* a type.  An atom fault(P,L,x,type) of the condition has the same fields *)
(* and a thread; a field that is UNKNOWN in it is not compared.            *)
(***************************************************************************)
EXTENDS Integers, SequencesExt

CONSTANTS MAX_FAULTS_PER_THREAD,
          UNKNOWN    \* INSTR_SYMB_ID_UNKNOWN, DATA_SYMB_ID_UNKNOWN, FaultUnknown

ASSUME MaxAssumption == MAX_FAULTS_PER_THREAD \in Nat

fault_type_names == <<"UndefinedInstruction", "MMU:AddressSize", "MMU:Translation",
                      "MMU:AccessFlag", "MMU:Permission", "TagCheck", "Unsupported">>

FaultUndefinedInstruction == 0
FaultMMUAddressSize == 1
FaultTagCheck == 5
FaultUnsupported == 6

(* The type, from the class and the status code of the exception.          *)
get_fault_type(esr) ==
  LET fault_type == (esr.dfsc \div 4) + FaultMMUAddressSize
      number == IF esr.ec = "UNKNOWN" THEN FaultUndefinedInstruction
                ELSE IF fault_type > FaultTagCheck THEN FaultUnsupported
                ELSE fault_type
  IN  fault_type_names[number + 1]

matches(flt, a) == /\ a.instr # UNKNOWN => flt.instr = a.instr
                   /\ a.data # UNKNOWN => flt.data = a.data
                   /\ a.type # UNKNOWN => flt.type = a.type

th_faults_info_init == <<>>

exists_fault(flts, a) == \E i \in DOMAIN flts : matches(flts[i], a)

(* log_fault is emitted from the atoms of the condition.                   *)
log_fault(proc, flt, atoms) == \E a \in Range(atoms) : a.proc = proc /\ matches(flt, a)

\* each occurrence of a fault is recorded
record_fault_Again(flts, proc, flt, atoms) ==
  IF ~log_fault(proc, flt, atoms) \/ Len(flts) >= MAX_FAULTS_PER_THREAD
  THEN flts ELSE Append(flts, flt)

record_fault(flts, proc, flt, atoms) ==
  IF \/ ~log_fault(proc, flt, atoms)
     \/ exists_fault(flts, flt)
     \/ Len(flts) >= MAX_FAULTS_PER_THREAD
  THEN flts ELSE Append(flts, flt)

(* The loop looks for each fault of the first list in the second one.      *)
th_faults_info_compare(flts1, flts2) ==
  /\ Len(flts1) = Len(flts2)
  /\ \A i \in DOMAIN flts1 : \E j \in DOMAIN flts2 : flts1[i] = flts2[j]

(* A fault of the lists is identified by its thread and its place.         *)
places(flts) == UNION {{<<p, i>> : i \in DOMAIN flts[p]} : p \in DOMAIN flts}

(* pp_log_faults for one atom: it prints the faults that match and are not *)
(* reported yet, or the negation of the atom.  The order is left out.      *)
pp_log_faults(out, flts, a) ==
  LET found == {x \in places(flts) : x[1] = a.proc /\ matches(flts[x[1]][x[2]], a)}
  IN  [printed |-> [x \in places(flts) |->
                      out.printed[x] + (IF x \in found \ out.fault_reported THEN 1 ELSE 0)],
       fault_reported |-> out.fault_reported \cup found,
       not |-> IF found = {} THEN out.not \cup {a} ELSE out.not]

pp_log_faults_init(flts) ==
  [printed |-> [x \in places(flts) |-> 0], fault_reported |-> {}, not |-> {}]

(* All the atoms, in order.                                                *)
pp_log(flts, atoms) ==
  FoldLeft(LAMBDA out, a : pp_log_faults(out, flts, a), pp_log_faults_init(flts), atoms)

=============================================================================
