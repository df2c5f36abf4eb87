-------------------------------- MODULE Outs --------------------------------
(***************************************************************************)
(* The outcomes of a standard test and how often each has been seen        *)
(* (litmus/libdir/_outs.c): a tree of the values of an outcome, the last   *)
(* one at the root.  The list of the cells linked by next is a sequence.   *)
(***************************************************************************)
EXTENDS Integers, SequencesExt

alloc_outs(k) == [k |-> k, c |-> 0, show |-> FALSE, down |-> <<>>]

\* a cell is put in front of its list, whatever the order
Place_First(p, x) == 1

(* Where the value x is in the list p, or has to be: the first cell that   *)
(* is not smaller.                                                         *)
Place(p, x) == LET i == SelectInSeq(p, LAMBDA cell : ~(x > cell.k))
               IN  IF i = 0 THEN Len(p) + 1 ELSE i

(* The list p with a cell for x at its place.                              *)
with(p, x) == LET i == Place(p, x)
              IN  IF i <= Len(p) /\ p[i].k = x THEN p ELSE InsertAt(p, i, alloc_outs(x))

(* The outcome k, whose values k[0] to k[i] remain to be looked for.       *)
RECURSIVE loop_add_outcome_outs(_, _, _, _, _)
loop_add_outcome_outs(p, k, i, c, show) ==
  [with(p, k[i]) EXCEPT ![Place(p, k[i])] =
     IF i <= 0 THEN [@ EXCEPT !.c = @ + c, !.show = show \/ @]
     ELSE [@ EXCEPT !.down = loop_add_outcome_outs(@, k, i - 1, c, show)]]

add_outcome_outs(p, k, sz, c, show) == loop_add_outcome_outs(p, k, sz - 1, c, show)

RECURSIVE sum_outs(_)
sum_outs(p) == FoldLeft(LAMBDA r, cell : r + cell.c + sum_outs(cell.down), 0, p)

RECURSIVE finals_outs(_)
finals_outs(p) ==
  FoldLeft(LAMBDA r, cell : r + (IF cell.c > 0 THEN 1 ELSE 0) + finals_outs(cell.down), 0, p)

(* What is printed, in order.                                              *)
RECURSIVE dump_outs(_, _, _)
dump_outs(p, buff, sz) ==
  FoldLeft(LAMBDA out, cell :
             LET b == [buff EXCEPT ![sz - 1] = cell.k]
             IN  out \o (IF cell.c > 0 THEN <<[o |-> b, c |-> cell.c, show |-> cell.show]>>
                         ELSE dump_outs(cell.down, b, sz - 1)),
           <<>>, p)

(* p after the outcomes of q have been added to it.                        *)
RECURSIVE merge_outs(_, _)
merge_outs(p, q) ==
  IF q = <<>> THEN p
  ELSE LET cell == Head(q)
           r == IF p = <<>> \/ cell.k < Head(p).k THEN <<alloc_outs(cell.k)>> \o p ELSE p
           h == Head(r)
       IN  IF h.k = cell.k
           THEN <<[h EXCEPT !.c = @ + cell.c, !.show = @ \/ cell.show,
                            !.down = merge_outs(@, cell.down)]>>
                \o merge_outs(Tail(r), Tail(q))
           ELSE <<h>> \o merge_outs(Tail(r), q)

(* The loop stops at the end of one of the lists.                          *)
RECURSIVE same_outs(_, _)
same_outs(p, q) ==
  /\ \A i \in DOMAIN p \cap DOMAIN q :
       /\ p[i].k = q[i].k /\ p[i].c = q[i].c /\ p[i].show = q[i].show
       /\ same_outs(p[i].down, q[i].down)
  /\ Len(p) = Len(q)

=============================================================================
