----------------------------- MODULE HashTable -----------------------------
(***************************************************************************)
(* The tables of outcomes of a "presi" test, litmus/libdir/_hash.c.  Role  *)
(* 0 of each instance adds its outcomes to the table of the instance while *)
(* the instances run; once they are all joined, RUN (_main.c) adds the     *)
(* tables up into g->hash, entry by entry, and counts the outcomes that    *)
(* satisfy the final condition.  A table has HASHSZ entries and never      *)
(* grows: an outcome that finds no entry is dropped, and g->hash_ok tells  *)
(* it.                                                                     *)
(*                                                                         *)
(* An outcome is a member of Outcomes, and hash[o] the entry its probe     *)
(* starts from, hash_log modulo HASHSZ: any function will do.              *)
(***************************************************************************)
EXTENDS Integers, FiniteSets, FiniteSetsExt

CONSTANTS Outcomes, NoOutcome,
          HASHSZ, hash,
          cond,      \* the outcomes that satisfy the final condition
          nexe,      \* number of instances
          iterations \* per instance, g->nruns * g->size

ASSUME HashAssumption ==
  /\ IsFiniteSet(Outcomes)
  /\ HASHSZ \in Nat \ {0} /\ nexe \in Nat \ {0} /\ iterations \in Nat
  /\ NoOutcome \notin Outcomes
  /\ hash \in [Outcomes -> 0..(HASHSZ-1)]
  /\ cond \subseteq Outcomes

Slots == 0..(HASHSZ-1)
Insts == 0..(nexe-1)
Sum == nexe                    \* g->hash
Tables == Insts \cup {Sum}

VARIABLES t,         \* the entries of each table
          nhash,     \* the number of used entries of each table
          hash_ok,
          k, e, r,   \* indices of RUN and of hash_adds, and result of hash_adds
          seen       \* history: the number of outcomes given to each table

vars == <<t, nhash, hash_ok, k, e, r, seen>>

Entry == [key : Outcomes \cup {NoOutcome}, c : Nat, ok : BOOLEAN]

(* hash_init leaves ok as it finds it.                                     *)
hash_init(ok) == [x \in Slots |-> [key |-> NoOutcome, c |-> 0, ok |-> ok]]

Init == /\ \E ok \in BOOLEAN : t = [tb \in Tables |-> hash_init(ok)]
        /\ nhash = [tb \in Tables |-> 0]
        /\ hash_ok = TRUE
        /\ k = -1 /\ e = 0 /\ r = TRUE
        /\ seen = [tb \in Tables |-> [o \in Outcomes |-> 0]]

-----------------------------------------------------------------------------

slot(o, i) == (hash[o] + i) % HASHSZ

used(tb, x) == t[tb][x].c > 0

(* The probe of o stops at an unused entry or at the entry of o.           *)
stops(tb, o, i) == \/ ~used(tb, slot(o, i))
                   \/ t[tb][slot(o, i)].key = o

\* any entry that would do, not the first one
probe_Any(tb, o, i) == stops(tb, o, i)

probe(tb, o, i) == stops(tb, o, i) /\ \A j \in 0..(i-1) : ~stops(tb, o, j)

full(tb, o) == \A i \in Slots : ~stops(tb, o, i)

new_entry(o, c, ok) == [key |-> o, c |-> c, ok |-> ok]

(* hash_add returns 1.                                                     *)
added(tb, o, c, ok) ==
  \E i \in Slots :
    LET x == slot(o, i)
    IN  /\ probe(tb, o, i)
        /\ IF used(tb, x)
           THEN /\ t' = [t EXCEPT ![tb][x].c = @ + c]
                /\ UNCHANGED nhash
           ELSE /\ t' = [t EXCEPT ![tb][x] = new_entry(o, c, ok)]
                /\ nhash' = [nhash EXCEPT ![tb] = @ + 1]

sumOf(g, S) == MapThenSumSet(LAMBDA x : g[x], S)

(* The number of outcomes that table tb was given.                         *)
total(tb) == sumOf(seen[tb], Outcomes)

see(tb, o, c) == seen' = [seen EXCEPT ![tb][o] = @ + c]

-----------------------------------------------------------------------------

\* nobody tells that the outcome is dropped
Dropped_Silent(i, o) == /\ k = -1 /\ total(i) < iterations
                        /\ full(i, o)
                        /\ see(i, o, 1)
                        /\ UNCHANGED <<t, nhash, hash_ok, k, e, r>>

(* Role 0 of instance i adds an outcome, do_run.                           *)
Collected(i, o) == /\ k = -1 /\ total(i) < iterations
                   /\ added(i, o, 1, o \in cond)
                   /\ see(i, o, 1)
                   /\ UNCHANGED <<hash_ok, k, e, r>>

Dropped(i, o) == /\ k = -1 /\ total(i) < iterations
                 /\ full(i, o)
                 /\ hash_ok' = FALSE
                 /\ see(i, o, 1)
                 /\ UNCHANGED <<t, nhash, k, e, r>>

(* The instances are joined; a filter may have rejected some outcomes.     *)
Join == /\ k = -1
        /\ k' = 0
        /\ UNCHANGED <<t, nhash, hash_ok, e, r, seen>>

Merging == k \in Insts /\ e < HASHSZ

next_entry == e' = e + 1 /\ UNCHANGED <<hash_ok, k>>

(* hash_adds, for entry e of the table of instance k.                      *)
SkipEntry == /\ Merging
             /\ ~used(k, e)
             /\ next_entry
             /\ UNCHANGED <<t, nhash, r, seen>>

AddEntry == /\ Merging
            /\ used(k, e)
            /\ added(Sum, t[k][e].key, t[k][e].c, t[k][e].ok)
            /\ see(Sum, t[k][e].key, t[k][e].c)
            /\ next_entry
            /\ UNCHANGED r

DropEntry == /\ Merging
             /\ used(k, e)
             /\ full(Sum, t[k][e].key)
             /\ r' = FALSE
             /\ see(Sum, t[k][e].key, t[k][e].c)
             /\ next_entry
             /\ UNCHANGED <<t, nhash>>

\* the result of the last table only
NextTable_LastOnly == /\ k \in Insts /\ e = HASHSZ
                      /\ hash_ok' = r
                      /\ k' = k + 1 /\ e' = 0 /\ r' = TRUE
                      /\ UNCHANGED <<t, nhash, seen>>

(* hash_adds returns.                                                      *)
NextTable == /\ k \in Insts /\ e = HASHSZ
             /\ hash_ok' = (r /\ hash_ok)
             /\ k' = k + 1 /\ e' = 0 /\ r' = TRUE
             /\ UNCHANGED <<t, nhash, seen>>

Done == k = nexe

Next == \/ \E i \in Insts, o \in Outcomes : Collected(i, o) \/ Dropped(i, o)
        \/ Join \/ SkipEntry \/ AddEntry \/ DropEntry \/ NextTable
        \/ Done /\ UNCHANGED vars

Spec == Init /\ [][Next]_vars

-----------------------------------------------------------------------------

TypeOK == /\ t \in [Tables -> [Slots -> Entry]]
          /\ nhash \in [Tables -> Nat]
          /\ hash_ok \in BOOLEAN /\ r \in BOOLEAN
          /\ k \in -1..nexe /\ e \in 0..HASHSZ
          /\ seen \in [Tables -> [Outcomes -> Nat]]

(* An entry holds an outcome that its probe reaches, and no two entries    *)
(* hold the same one: the probes never miss an outcome that is there,      *)
(* however full the table is.                                              *)
Reachable == \A tb \in Tables, x \in Slots : used(tb, x) =>
  /\ t[tb][x].key \in Outcomes
  /\ \E i \in Slots : /\ slot(t[tb][x].key, i) = x
                      /\ \A j \in 0..(i-1) : used(tb, slot(t[tb][x].key, j))

OneEntry == \A tb \in Tables, x, y \in Slots :
  used(tb, x) /\ used(tb, y) /\ t[tb][x].key = t[tb][y].key => x = y

Flags == \A tb \in Tables, x \in Slots :
  used(tb, x) => t[tb][x].ok = (t[tb][x].key \in cond)

Counted == \A tb \in Tables :
  nhash[tb] = Cardinality({x \in Slots : used(tb, x)})

TableInv == Counted /\ Reachable /\ OneEntry /\ Flags

(* As long as no failure has been met, each table counts exactly the       *)
(* outcomes that it was given.                                             *)
Exact(tb) ==
  /\ \A x \in Slots : used(tb, x) => t[tb][x].c = seen[tb][t[tb][x].key]
  /\ \A o \in Outcomes : seen[tb][o] > 0 => \E x \in Slots : used(tb, x) /\ t[tb][x].key = o

NothingLost == hash_ok /\ r => \A tb \in Tables : Exact(tb)

count(S) == sumOf([x \in Slots |-> t[Sum][x].c], S)

(* What the summary says of an outcome, and how often it was observed.     *)
counted(o) == count({x \in Slots : t[Sum][x].key = o})

observed == [o \in Outcomes |-> sumOf([i \in Insts |-> seen[i][o]], Insts)]

(* At the end the warning "some hash table was full, some outcomes were    *)
(* not collected" is printed if and only if some count is short, and no    *)
(* count is ever too large; without the warning p_true and p_false are the *)
(* numbers of outcomes that satisfy the final condition and do not.        *)
Report == Done =>
  /\ hash_ok <=> \A o \in Outcomes : counted(o) = observed[o]
  /\ \A o \in Outcomes : counted(o) <= observed[o]
  /\ hash_ok =>
       /\ count({x \in Slots : t[Sum][x].ok}) = sumOf(observed, cond)
       /\ count({x \in Slots : ~t[Sum][x].ok}) = sumOf(observed, Outcomes \ cond)

IInv == TypeOK /\ TableInv /\ NothingLost

=============================================================================
