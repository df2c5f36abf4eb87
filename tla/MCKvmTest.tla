----------------------------- MODULE MCKvmTest -----------------------------
(* Two tests in a row, drawn from four, on two processors; two pages.      *)
EXTENDS KvmTest, TLC

pteX == {0, 4, 6, 8, 9, 10, 12}
pteY == {0, 4, 6, 8, 9, 10, 13}

roles2 == 0..1

none == [kind |-> "none", oa |-> 0, flags |-> {}, attrs |-> <<>>]
R(l) == [op |-> "R", label |-> l, pte |-> none]
W(l) == [op |-> "W", label |-> l, pte |-> none]
U(l) == [op |-> "UDF", label |-> l, pte |-> none]
P(flags) == [op |-> "PTE", label |-> UNKNOWN, pte |-> [none EXCEPT !.kind = "V", !.flags = flags]]
code(s0, s1) == 0 :> s0 @@ 1 :> s1
atom(p, l, d, t) == [proc |-> p, instr |-> l, data |-> d, type |-> t]

\* the entry is made invalid by one thread and read by the other
invalidate ==
  [db |-> FALSE, ha |-> {}, hd |-> {}, init |-> none, handling |-> "handled",
   code |-> code(<<R("L0"), W(UNKNOWN)>>, <<P({6, 7, 10}), P({0, 6, 10}), P({0, 6, 7, 10})>>),
   atoms |-> <<atom(0, "L0", "x", UNKNOWN), atom(0, UNKNOWN, "x", "MMU:Permission")>>]

\* the hardware manages the access flag and the dirty state on one thread only
dirty ==
  [db |-> TRUE, ha |-> roles2, hd |-> {0}, handling |-> "fatal",
   init |-> [kind |-> "V", oa |-> 0, flags |-> {0, 6, 51}, attrs |-> <<>>],
   code |-> code(<<W("L0")>>, <<R("L1"), W("L2")>>),
   atoms |-> <<atom(0, "L0", "x", "MMU:Permission"), atom(1, "L2", "x", UNKNOWN), atom(1, UNKNOWN, "x", UNKNOWN)>>]

\* x becomes an alias of y
alias ==
  [db |-> FALSE, ha |-> {}, hd |-> {}, handling |-> "fatal",
   init |-> [kind |-> "P", oa |-> 1, flags |-> {}, attrs |-> <<"Device", "Outer_shareable">>],
   code |-> code(<<R(UNKNOWN)>>, <<W(UNKNOWN)>>), atoms |-> <<>>]

\* faults of several types, skipped
faulty ==
  [db |-> TRUE, ha |-> {1}, hd |-> {}, handling |-> "skip",
   init |-> [none EXCEPT !.kind = "Z"],
   code |-> code(<<U("L0"), R("L1"), W("L1")>>, <<R(UNKNOWN), U("L2")>>),
   atoms |-> <<atom(0, UNKNOWN, UNKNOWN, "UndefinedInstruction"), atom(0, "L1", "x", UNKNOWN),
               atom(0, "L0", "x", UNKNOWN), atom(1, UNKNOWN, UNKNOWN, UNKNOWN)>>]

fourTests == {invalidate, dirty, alias, faulty}
=============================================================================
