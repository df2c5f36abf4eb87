------------------------------- MODULE KvmPte -------------------------------
(***************************************************************************)
(* Page table entries as tests in KVM mode handle them                     *)
(* (litmus/libdir/_aarch64/kvm-headers.h).  A word of 64 bits is the set   *)
(* of the positions of its ones: union, intersection and difference are    *)
(* the bitwise operations.  Packed entries are numbers, as in the log.     *)
(***************************************************************************)
EXTENDS Integers

NVARS == 2        \* variables of the test, see KvmTest

(* Field access.  The number v of a field is a set of positions too.       *)
litmus_set_field(old, low, sz, v) ==
  (old \ low..(low + sz - 1)) \cup {b + low : b \in v \cap 0..(sz - 1)}

(* The address component.                                                  *)
FULL_MASK == 12..47

litmus_same_oa(p, q) == p \cap FULL_MASK = q \cap FULL_MASK

(* The flags.  The dirty bit is AP[2] inverted: one means read only.       *)
msk_valid == {0}
msk_el0 == {6}
msk_db == {7}
msk_af == {10}
msk_dbm == {51}
msk_full == UNION {msk_valid, msk_af, msk_dbm, msk_db, msk_el0}

xor(x, y) == (x \ y) \cup (y \ x)

litmus_set_pte_invalid(old) == old \ msk_valid

\* the dirty bit is not inverted
litmus_set_pte_flags_NoInverse(old, flags) == (old \ msk_full) \cup flags

litmus_set_pte_flags(old, flags) == (old \ msk_full) \cup xor(flags, msk_db)

(* MT_NORMAL, etc.: indices into MAIR_EL1 chosen by kvm-unit-tests.        *)
MT == [DEVICE_nGnRnE |-> {}, DEVICE_nGnRE |-> {0}, DEVICE_GRE |-> {1},
       NORMAL_NC |-> {0, 1}, NORMAL |-> {2}, NORMAL_WT |-> {0, 2}, DEVICE_nGRE |-> {1, 2}]

SH == [Non_shareable |-> {}, Outer_shareable |-> {1}, Inner_shareable |-> {0, 1}]

litmus_set_sh(old, sh) == litmus_set_field(old, 8, 2, sh)
litmus_set_memattr(old, memattr) == litmus_set_field(old, 2, 4, memattr)

(* Inner and outer cacheability are not told apart.                        *)
attr == [Normal |-> MT.NORMAL, write_back |-> MT.NORMAL,
         write_through |-> MT.NORMAL_WT, non_cacheable |-> MT.NORMAL_NC,
         Device |-> MT.DEVICE_nGnRE, NGnRE |-> MT.DEVICE_nGnRE,
         NGnRnE |-> MT.DEVICE_nGnRnE, NGRE |-> MT.DEVICE_nGRE, GRE |-> MT.DEVICE_GRE]

litmus_set_pte_attribute(p, k) == IF k \in DOMAIN SH THEN litmus_set_sh(p, SH[k])
                                  ELSE litmus_set_memattr(p, attr[k])

-----------------------------------------------------------------------------
(* Packed entries: what an outcome shows of an entry.                      *)

AF_PACKED == 0
DB_PACKED == 1
DBM_PACKED == 2
VALID_PACKED == 3
EL0_PACKED == 4
OA_PACKED == 5

pack_flag(v, mask, shift) == IF v \cap mask # {} THEN 2^shift ELSE 0

pack_pte(oa, v) == oa * 2^OA_PACKED
                   + pack_flag(v, msk_af, AF_PACKED)
                   + pack_flag(xor(v, msk_db), msk_db, DB_PACKED)
                   + pack_flag(v, msk_dbm, DBM_PACKED)
                   + pack_flag(v, msk_valid, VALID_PACKED)
                   + pack_flag(v, msk_el0, EL0_PACKED)

(* The arguments are the fields of a record.                               *)
pack_pack(f) == f.oa * 2^OA_PACKED + f.af * 2^AF_PACKED + f.db * 2^DB_PACKED
                + f.dbm * 2^DBM_PACKED + f.valid * 2^VALID_PACKED + f.el0 * 2^EL0_PACKED

unpack_flag(v, shift) == (v \div 2^shift) % 2

(* unpack_oa, unpack_af, ...                                               *)
unpack(v) == [oa |-> v \div 2^OA_PACKED,
              af |-> unpack_flag(v, AF_PACKED), db |-> unpack_flag(v, DB_PACKED),
              dbm |-> unpack_flag(v, DBM_PACKED), valid |-> unpack_flag(v, VALID_PACKED),
              el0 |-> unpack_flag(v, EL0_PACKED)]

-----------------------------------------------------------------------------
(* Hardware management of the access flag and of the dirty state: the bits *)
(* HA and HD of TCR_EL1.                                                   *)

HA == 39
HD == 40

set_tcr_el1_bit(tcr, b, v) == (tcr \ {b}) \cup (IF v = 1 THEN {b} ELSE {})

set_ha_bit(tcr, v) == set_tcr_el1_bit(tcr, HA, v)

(* v is the set of the bits of a number of two bits, 0 for HA, 1 for HD.   *)
set_hahd_bits(tcr, v) == (tcr \ {HA, HD}) \cup {b + HA : b \in v}

\* only the access flag is reset
reset_hahd_bits_HaOnly(tcr, hafdbs) == IF hafdbs >= 1 THEN set_ha_bit(tcr, 0) ELSE tcr

reset_hahd_bits(tcr, hafdbs) == CASE hafdbs = 1 -> set_ha_bit(tcr, 0)
                                  [] hafdbs = 2 -> set_hahd_bits(tcr, {})
                                  [] OTHER -> tcr

=============================================================================
