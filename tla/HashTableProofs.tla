-------------------------- MODULE HashTableProofs --------------------------
(***************************************************************************)
(* The tables of outcomes are correct for every size, hash function and    *)
(* number of instances.  The heart of it is lemma AddedInv: the entries    *)
(* that a probe has passed stay used, so an outcome that is in the table   *)
(* stays in reach of its probe, and a probe that stops at an unused entry  *)
(* shows that its outcome is nowhere in the table.                         *)
(***************************************************************************)
EXTENDS HashTable, FiniteSetTheorems, WellFoundedInduction, TLAPS

(* An entry of the table is where the probe looks.                         *)
LEMMA SlotType == ASSUME NEW o \in Outcomes, NEW i \in Nat
                  PROVE  slot(o, i) \in Slots
BY HashAssumption DEF slot, Slots

(* What hash_add does to the table tb: it changes one entry, x, where the  *)
(* probe of o stops.                                                       *)
AddedAt(tb, o, c, i) ==
  LET x == slot(o, i)
  IN  /\ i \in Slots
      /\ probe(tb, o, i)
      /\ \/ /\ used(tb, x)
            /\ t' = [t EXCEPT ![tb][x].c = @ + c]
            /\ UNCHANGED nhash
         \/ /\ ~used(tb, x)
            /\ t' = [t EXCEPT ![tb][x] = new_entry(o, c, o \in cond)]
            /\ nhash' = [nhash EXCEPT ![tb] = @ + 1]

LEMMA AddedIsAt == ASSUME NEW tb, NEW o, NEW c, added(tb, o, c, o \in cond)
                   PROVE  \E i \in Slots : AddedAt(tb, o, c, i)
BY DEF added, AddedAt

(* The change of one entry, in a form the provers can use.                 *)
LEMMA AddedEntries ==
  ASSUME NEW tb \in Tables, NEW o \in Outcomes, NEW c \in Nat \ {0}, NEW i,
         TypeOK, AddedAt(tb, o, c, i)
  PROVE  /\ i \in Nat /\ slot(o, i) \in Slots
         /\ \A a \in Tables, y \in Slots :
              a # tb \/ y # slot(o, i) => t'[a][y] = t[a][y]
         /\ t'[tb][slot(o, i)].key = o
         /\ used(tb, slot(o, i)) =>
              /\ t[tb][slot(o, i)].key = o
              /\ t'[tb][slot(o, i)].c = t[tb][slot(o, i)].c + c
              /\ t'[tb][slot(o, i)].ok = t[tb][slot(o, i)].ok
              /\ nhash' = nhash
         /\ ~used(tb, slot(o, i)) =>
              /\ t'[tb][slot(o, i)].c = c
              /\ t'[tb][slot(o, i)].ok = (o \in cond)
              /\ nhash' = [nhash EXCEPT ![tb] = @ + 1]
         /\ t' \in [Tables -> [Slots -> Entry]]
         /\ nhash' \in [Tables -> Nat]
<1> DEFINE x == slot(o, i)
<1>1. i \in Nat /\ x \in Slots
  <2>1. i \in Nat
    BY HashAssumption DEF AddedAt, Slots
  <2> QED  BY <2>1, SlotType
<1>2. t \in [Tables -> [Slots -> Entry]] /\ nhash \in [Tables -> Nat]
  BY DEF TypeOK
<1>3. t[tb][x] \in Entry
  BY <1>1, <1>2
<1>4. CASE used(tb, x)
  <2>1. t' = [t EXCEPT ![tb][x].c = @ + c] /\ nhash' = nhash
    BY <1>4 DEF AddedAt
  <2>2. t[tb][x].key = o
    BY <1>4 DEF AddedAt, probe, stops
  <2>3. [t[tb][x] EXCEPT !.c = @ + c] \in Entry
    BY <1>3 DEF Entry
  <2>4. t'[tb][x] = [t[tb][x] EXCEPT !.c = @ + c]
    BY <2>1, <1>1, <1>2
  <2>5. /\ t'[tb][x].key = o /\ t'[tb][x].c = t[tb][x].c + c
        /\ t'[tb][x].ok = t[tb][x].ok
    BY <2>4, <2>2, <1>3 DEF Entry
  <2>6. \A a \in Tables, y \in Slots : a # tb \/ y # x => t'[a][y] = t[a][y]
    BY <2>1, <1>1, <1>2
  <2>7. t' \in [Tables -> [Slots -> Entry]]
    BY <2>1, <2>3, <1>1, <1>2
  <2> QED  BY <1>1, <1>2, <1>4, <2>1, <2>2, <2>5, <2>6, <2>7
<1>5. CASE ~used(tb, x)
  <2>1. t' = [t EXCEPT ![tb][x] = new_entry(o, c, o \in cond)]
        /\ nhash' = [nhash EXCEPT ![tb] = @ + 1]
    BY <1>5 DEF AddedAt
  <2>2. new_entry(o, c, o \in cond) \in Entry
    BY DEF new_entry, Entry
  <2>3. t'[tb][x] = new_entry(o, c, o \in cond)
    BY <2>1, <1>1, <1>2
  <2>4. t'[tb][x].key = o /\ t'[tb][x].c = c /\ t'[tb][x].ok = (o \in cond)
    BY <2>3 DEF new_entry
  <2>5. \A a \in Tables, y \in Slots : a # tb \/ y # x => t'[a][y] = t[a][y]
    BY <2>1, <1>1, <1>2
  <2>6. t' \in [Tables -> [Slots -> Entry]]
    BY <2>1, <2>2, <1>1, <1>2
  <2>7. nhash' \in [Tables -> Nat]
    BY <2>1, <1>2
  <2> QED  BY <1>1, <1>2, <1>5, <2>1, <2>4, <2>5, <2>6, <2>7
<1> QED  BY <1>4, <1>5

(* An outcome that is in the table is found by its probe.                  *)
LEMMA Found ==
  ASSUME NEW tb \in Tables, NEW o \in Outcomes, NEW i \in Nat,
         TypeOK, Reachable, OneEntry, probe(tb, o, i),
         NEW y \in Slots, used(tb, y), t[tb][y].key = o
  PROVE  y = slot(o, i)
<1>1. PICK n \in Slots : /\ slot(o, n) = y
                         /\ \A j \in 0..(n-1) : used(tb, slot(o, j))
  BY DEF Reachable
<1>2. n \in Nat
  BY HashAssumption DEF Slots
<1>3. CASE n < i
  <2>1. n \in 0..(i-1)
    BY <1>2, <1>3
  <2>2. ~stops(tb, o, n)
    BY <2>1 DEF probe
  <2> QED  BY <2>2, <1>1 DEF stops
<1>4. CASE i < n
  <2>1. used(tb, slot(o, i))
    BY <1>1, <1>2, <1>4
  <2>2. t[tb][slot(o, i)].key = o
    BY <2>1 DEF probe, stops
  <2> DEFINE x == slot(o, i)
  <2>3. x \in Slots
    BY SlotType
  <2> QED  BY <2>1, <2>2, <2>3 DEF OneEntry
<1> QED  BY <1>1, <1>2, <1>3, <1>4

(* An outcome whose probe finds no entry is not in the table.              *)
LEMMA NotFound ==
  ASSUME NEW tb \in Tables, NEW o \in Outcomes,
         TypeOK, Reachable, full(tb, o),
         NEW y \in Slots, used(tb, y)
  PROVE  t[tb][y].key # o
BY DEF Reachable, full, stops

(* hash_add keeps the table well formed.                                   *)
LEMMA AddedInv ==
  ASSUME NEW tb \in Tables, NEW o \in Outcomes, NEW c \in Nat \ {0},
         TypeOK, TableInv, added(tb, o, c, o \in cond)
  PROVE  TableInv'
<1>1. PICK i \in Slots : AddedAt(tb, o, c, i)
  BY AddedIsAt
<1> DEFINE x == slot(o, i)
<1>2. /\ i \in Nat /\ x \in Slots
      /\ \A a \in Tables, y \in Slots : a # tb \/ y # x => t'[a][y] = t[a][y]
      /\ t'[tb][x].key = o
      /\ used(tb, x) => /\ t[tb][x].key = o
                        /\ t'[tb][x].c = t[tb][x].c + c
                        /\ t'[tb][x].ok = t[tb][x].ok
                        /\ nhash' = nhash
      /\ ~used(tb, x) => /\ t'[tb][x].c = c
                         /\ t'[tb][x].ok = (o \in cond)
                         /\ nhash' = [nhash EXCEPT ![tb] = @ + 1]
  BY <1>1, AddedEntries
<1>3. probe(tb, o, i)
  BY <1>1 DEF AddedAt
<1>4. \A a \in Tables, y \in Slots : t[a][y].c \in Nat
  BY DEF TypeOK, Entry
<1>5. t'[tb][x].c > 0
  <2>1. CASE used(tb, x)
    <3>1. t[tb][x].c \in Nat /\ t'[tb][x].c = t[tb][x].c + c
      BY <2>1, <1>2, <1>4
    <3> QED  BY <3>1
  <2>2. CASE ~used(tb, x)
    BY <2>2, <1>2
  <2> QED  BY <2>1, <2>2
<1>6. \A a \in Tables, y \in Slots :
        used(a, y) => used(a, y)' /\ t'[a][y].key = t[a][y].key
  BY <1>2, <1>5 DEF used
<1>7. \A a \in Tables, y \in Slots :
        used(a, y)' => used(a, y) \/ (a = tb /\ y = x)
  BY <1>2 DEF used
<1>8. Counted'
  <2> SUFFICES ASSUME NEW a \in Tables
               PROVE  nhash'[a] = Cardinality({y \in Slots : used(a, y)'})
    BY DEF Counted
  <2> DEFINE U == {y \in Slots : used(a, y)}
             V == {y \in Slots : used(a, y)'}
  <2>1. nhash[a] = Cardinality(U) /\ nhash \in [Tables -> Nat]
    BY DEF TableInv, Counted, TypeOK
  <2>2. CASE a # tb \/ used(tb, x)
    <3>1. V = U
      BY <2>2, <1>2, <1>6, <1>7
    <3>2. nhash'[a] = nhash[a]
      BY <2>2, <1>2, <2>1
    <3> QED  BY <3>1, <3>2, <2>1
  <2>3. CASE a = tb /\ ~used(tb, x)
    <3>1. V = U \cup {x} /\ x \notin U
      <4>1. \A y \in Slots : used(a, y)' <=> used(a, y) \/ y = x
        BY <2>3, <1>5, <1>6, <1>7 DEF used
      <4> QED  BY <4>1, <2>3, <1>2
    <3>2. IsFiniteSet(Slots) /\ U \subseteq Slots
      BY HashAssumption, FS_Interval DEF Slots
    <3>3. IsFiniteSet(U)
      BY <3>2, FS_Subset
    <3>4. Cardinality(V) = Cardinality(U) + 1
      BY <3>1, <3>3, FS_AddElement
    <3>5. nhash'[a] = nhash[a] + 1
      BY <2>3, <1>2, <2>1
    <3> QED  BY <3>4, <3>5, <2>1
  <2> QED  BY <2>2, <2>3
<1>9. Reachable'
  <2> SUFFICES ASSUME NEW a \in Tables, NEW y \in Slots, used(a, y)'
               PROVE  /\ t'[a][y].key \in Outcomes
                      /\ \E n \in Slots :
                           /\ slot(t'[a][y].key, n) = y
                           /\ \A j \in 0..(n-1) : t'[a][slot(t'[a][y].key, j)].c > 0
    BY DEF Reachable, slot, used
  <2>1. CASE used(a, y)
    <3>1. t[a][y].key \in Outcomes
      BY <2>1 DEF TableInv, Reachable
    <3>2. PICK n \in Slots : /\ slot(t[a][y].key, n) = y
                             /\ \A j \in 0..(n-1) : used(a, slot(t[a][y].key, j))
      BY <2>1 DEF TableInv, Reachable
    <3>3. t'[a][y].key = t[a][y].key
      BY <2>1, <1>6
    <3>4. ASSUME NEW j \in 0..(n-1)
          PROVE  t'[a][slot(t'[a][y].key, j)].c > 0
      <4>1. j \in Nat
        BY HashAssumption DEF Slots
      <4>2. slot(t[a][y].key, j) \in Slots
        BY <3>1, <4>1, SlotType
      <4>3. used(a, slot(t[a][y].key, j))
        BY <3>2
      <4> DEFINE z == slot(t[a][y].key, j)
      <4>4. used(a, z) => t'[a][z].c > 0
        BY <4>2, <1>6 DEF used
      <4> QED  BY <4>3, <4>4, <3>3
    <3>5. slot(t'[a][y].key, n) = y
      BY <3>2, <3>3
    <3>6. t'[a][y].key \in Outcomes
      BY <3>1, <3>3
    <3> QED  BY <3>4, <3>5, <3>6
  <2>2. CASE a = tb /\ y = x
    <3>1. ASSUME NEW j \in 0..(i-1)
          PROVE  t'[tb][slot(o, j)].c > 0
      <4>1. ~stops(tb, o, j)
        BY <1>3 DEF probe
      <4>2. used(tb, slot(o, j))
        BY <4>1 DEF stops
      <4>3. slot(o, j) \in Slots
        BY <1>2, SlotType
      <4> QED  BY <4>2, <4>3, <1>6 DEF used
    <3>2. t'[a][y].key = o /\ slot(o, i) = y
      BY <2>2, <1>2
    <3>3. \A j \in 0..(i-1) : t'[a][slot(t'[a][y].key, j)].c > 0
      BY <3>1, <3>2, <2>2
    <3> HIDE DEF x
    <3> QED  BY <3>2, <3>3
  <2> QED  BY <2>1, <2>2, <1>7
<1>10. OneEntry'
  <2> SUFFICES ASSUME NEW a \in Tables, NEW y \in Slots, NEW z \in Slots,
                      used(a, y)', used(a, z)', t'[a][y].key = t'[a][z].key
               PROVE  y = z
    BY DEF OneEntry
  <2>1. ASSUME NEW w \in Slots, used(tb, w), t[tb][w].key = o
        PROVE  w = x
    BY <2>1, <1>2, <1>3, Found DEF TableInv
  <2>2. CASE used(a, y) /\ used(a, z)
    BY <2>2, <1>6 DEF TableInv, OneEntry
  <2>3. CASE used(a, y) /\ a = tb /\ z = x
    BY <2>3, <2>1, <1>2, <1>6
  <2>4. CASE used(a, z) /\ a = tb /\ y = x
    BY <2>4, <2>1, <1>2, <1>6
  <2> QED  BY <2>2, <2>3, <2>4, <1>7
<1>11. Flags'
  <2> SUFFICES ASSUME NEW a \in Tables, NEW y \in Slots, used(a, y)'
               PROVE  t'[a][y].ok = (t'[a][y].key \in cond)
    BY DEF Flags
  <2>1. CASE used(a, y)
    <3>1. t[a][y].ok = (t[a][y].key \in cond)
      BY <2>1 DEF TableInv, Flags
    <3>2. t'[a][y].ok = t[a][y].ok /\ t'[a][y].key = t[a][y].key
      BY <2>1, <1>2, <1>6
    <3> QED  BY <3>1, <3>2
  <2>2. CASE a = tb /\ y = x /\ ~used(a, y)
    BY <2>2, <1>2
  <2> QED  BY <2>1, <2>2, <1>7
<1> QED  BY <1>8, <1>9, <1>10, <1>11 DEF TableInv

(* hash_add, when it returns 1, counts what it is given.                   *)
LEMMA AddedExact ==
  ASSUME NEW tb \in Tables, NEW o \in Outcomes, NEW c \in Nat \ {0},
         TypeOK, TableInv, added(tb, o, c, o \in cond), see(tb, o, c),
         NEW a \in Tables, Exact(a)
  PROVE  Exact(a)'
<1>1. PICK i \in Slots : AddedAt(tb, o, c, i)
  BY AddedIsAt
<1> DEFINE x == slot(o, i)
<1>2. /\ i \in Nat /\ x \in Slots
      /\ \A y \in Slots : a # tb \/ y # x => t'[a][y] = t[a][y]
      /\ t'[tb][x].key = o
      /\ used(tb, x) => /\ t[tb][x].key = o
                        /\ t'[tb][x].c = t[tb][x].c + c
      /\ ~used(tb, x) => t'[tb][x].c = c
  BY <1>1, AddedEntries
<1>3. probe(tb, o, i)
  BY <1>1 DEF AddedAt
<1>4. /\ seen \in [Tables -> [Outcomes -> Nat]]
      /\ \A y \in Slots : t[a][y].c \in Nat
  BY DEF TypeOK, Entry
<1>5. /\ a # tb => seen'[a] = seen[a]
      /\ a = tb => /\ seen'[a][o] = seen[a][o] + c
                   /\ \A p \in Outcomes : p # o => seen'[a][p] = seen[a][p]
  BY <1>4 DEF see
<1>6. \A y \in Slots : used(a, y) => t[a][y].key \in Outcomes
  BY DEF TableInv, Reachable
<1>7. CASE a # tb
  <2>1. \A y \in Slots : t'[a][y] = t[a][y]
    BY <1>7, <1>2
  <2>2. seen'[a] = seen[a]
    BY <1>7, <1>5
  <2> QED  BY <2>1, <2>2 DEF Exact, used
<1>8. CASE a = tb
  <2>1. ASSUME NEW y \in Slots, used(a, y), y # x
        PROVE  t[a][y].key # o
    BY <2>1, <1>8, <1>2, <1>3, Found DEF TableInv
  <2>2. t'[a][x].c = seen'[a][o] /\ t'[a][x].c > 0
    <3>1. CASE used(a, x)
      <4>1. t[a][x].c = seen[a][o]
        BY <3>1, <1>8, <1>2 DEF Exact
      <4>2. t[a][x].c \in Nat /\ t'[a][x].c = t[a][x].c + c
        BY <3>1, <1>8, <1>2, <1>4
      <4> QED  BY <4>1, <4>2, <1>5, <1>8
    <3>2. CASE ~used(a, x)
      <4>1. \A y \in Slots : used(a, y) => t[a][y].key # o
        BY <2>1, <3>2
      <4>2. ~(seen[a][o] > 0)
        BY <4>1 DEF Exact
      <4>3. seen[a][o] = 0
        BY <4>2, <1>4
      <4> QED  BY <4>3, <3>2, <1>2, <1>5, <1>8
    <3> QED  BY <3>1, <3>2
  <2>3. ASSUME NEW y \in Slots, t'[a][y].c > 0
        PROVE  t'[a][y].c = seen'[a][t'[a][y].key]
    <3>1. CASE y = x
      BY <3>1, <2>2, <1>2, <1>8
    <3>2. CASE y # x
      <4>1. t'[a][y] = t[a][y]
        BY <3>2, <1>2
      <4>2. used(a, y)
        BY <4>1, <2>3 DEF used
      <4>3. t[a][y].c = seen[a][t[a][y].key] /\ t[a][y].key # o
        BY <4>2, <3>2, <2>1 DEF Exact
      <4> QED  BY <4>1, <4>2, <4>3, <1>5, <1>6, <1>8
    <3> QED  BY <3>1, <3>2
  <2>4. ASSUME NEW p \in Outcomes, seen'[a][p] > 0
        PROVE  \E y \in Slots : t'[a][y].c > 0 /\ t'[a][y].key = p
    <3>1. CASE p = o
      BY <3>1, <2>2, <1>2, <1>8
    <3>2. CASE p # o
      <4>1. seen[a][p] > 0
        BY <3>2, <2>4, <1>5, <1>8
      <4>2. PICK y \in Slots : used(a, y) /\ t[a][y].key = p
        BY <4>1 DEF Exact
      <4>3. CASE y # x
        BY <4>2, <4>3, <1>2 DEF used
      <4>4. CASE y = x
        BY <4>2, <4>4, <3>2, <1>2, <1>8
      <4> QED  BY <4>3, <4>4
    <3> QED  BY <3>1, <3>2
  <2> QED  BY <2>3, <2>4 DEF Exact, used
<1> QED  BY <1>7, <1>8

-----------------------------------------------------------------------------

LEMMA InitIInv == Init => IInv
<1> SUFFICES ASSUME Init PROVE IInv
  OBVIOUS
<1>1. PICK ok \in BOOLEAN : t = [tb \in Tables |-> hash_init(ok)]
  BY DEF Init
<1>2. hash_init(ok) \in [Slots -> Entry]
  BY DEF hash_init, Entry
<1>3. TypeOK
  BY <1>1, <1>2, HashAssumption DEF Init, TypeOK
<1>4. \A tb \in Tables, x \in Slots : ~used(tb, x)
  BY <1>1 DEF used, hash_init
<1>5. Counted
  <2> SUFFICES ASSUME NEW tb \in Tables
               PROVE  nhash[tb] = Cardinality({x \in Slots : used(tb, x)})
    BY DEF Counted
  <2>1. {x \in Slots : used(tb, x)} = {}
    BY <1>4
  <2>2. nhash[tb] = 0
    BY DEF Init
  <2> QED  BY <2>1, <2>2, FS_EmptySet
<1>6. Reachable /\ OneEntry /\ Flags
  BY <1>4 DEF Reachable, OneEntry, Flags
<1>7. NothingLost
  <2>1. \A tb \in Tables, o \in Outcomes : ~(seen[tb][o] > 0)
    BY DEF Init
  <2> QED  BY <2>1, <1>4 DEF NothingLost, Exact
<1> QED  BY <1>3, <1>5, <1>6, <1>7 DEF IInv, TableInv

(* The part of the invariant that only depends on the tables.              *)
LEMMA SameTables ==
  ASSUME TableInv, UNCHANGED <<t, nhash>>
  PROVE  TableInv'
<1>1. \A tb \in Tables, x \in Slots : used(tb, x)' <=> used(tb, x)
  BY DEF used
<1>2. Counted'
  <2> SUFFICES ASSUME NEW tb \in Tables
               PROVE  nhash'[tb] = Cardinality({x \in Slots : used(tb, x)'})
    BY DEF Counted
  <2>1. {x \in Slots : used(tb, x)'} = {x \in Slots : used(tb, x)}
    BY <1>1
  <2> QED  BY <2>1 DEF TableInv, Counted
<1>3. Reachable'
  BY DEF TableInv, Reachable, used, slot
<1>4. OneEntry' /\ Flags'
  BY DEF TableInv, OneEntry, Flags, used
<1> QED  BY <1>2, <1>3, <1>4 DEF TableInv

LEMMA NextIInv == IInv /\ [Next]_vars => IInv'
<1> SUFFICES ASSUME IInv, [Next]_vars PROVE IInv'
  OBVIOUS
<1>0. TypeOK /\ TableInv /\ NothingLost
  BY DEF IInv
<1>1. ASSUME NEW i \in Insts, NEW o \in Outcomes, Collected(i, o)
      PROVE  IInv'
  <2>1. i \in Tables /\ added(i, o, 1, o \in cond) /\ see(i, o, 1) /\ 1 \in Nat \ {0}
    BY <1>1 DEF Collected, Tables
  <2>2. TableInv'
    BY <2>1, <1>0, AddedInv
  <2>3. PICK n \in Slots : AddedAt(i, o, 1, n)
    BY <2>1, AddedIsAt
  <2>4. t' \in [Tables -> [Slots -> Entry]] /\ nhash' \in [Tables -> Nat]
    BY <2>1, <2>3, <1>0, AddedEntries
  <2>5. seen' \in [Tables -> [Outcomes -> Nat]]
    BY <2>1, <1>0 DEF see, TypeOK
  <2>6. TypeOK'
    BY <2>4, <2>5, <1>0, <1>1 DEF TypeOK, Collected
  <2>7. hash_ok /\ r => \A a \in Tables : Exact(a)'
    BY <2>1, <1>0, AddedExact DEF NothingLost
  <2>8. NothingLost'
    BY <2>7, <1>1 DEF NothingLost, Collected
  <2> QED  BY <2>2, <2>6, <2>8 DEF IInv
<1>2. ASSUME NEW i \in Insts, NEW o \in Outcomes, Dropped(i, o)
      PROVE  IInv'
  <2>1. TableInv'
    BY <1>0, <1>2, SameTables DEF Dropped
  <2>2. i \in Tables
    BY DEF Tables
  <2>3. TypeOK'
    <3>1. seen' \in [Tables -> [Outcomes -> Nat]]
      BY <2>2, <1>0, <1>2 DEF TypeOK, Dropped, see
    <3>2. hash_ok' = FALSE /\ UNCHANGED <<t, nhash, k, e, r>>
      BY <1>2 DEF Dropped
    <3> QED  BY <3>1, <3>2, <1>0 DEF TypeOK
  <2>4. NothingLost'
    BY <1>2 DEF NothingLost, Dropped
  <2> QED  BY <2>1, <2>3, <2>4 DEF IInv
<1>3. ASSUME UNCHANGED <<t, nhash, seen>>, r' /\ hash_ok' => r /\ hash_ok, TypeOK'
      PROVE  IInv'
  <2>1. TableInv'
    BY <1>0, <1>3, SameTables
  <2>2. \A a \in Tables : Exact(a) => Exact(a)'
    BY <1>3 DEF Exact, used
  <2>3. NothingLost'
    BY <2>2, <1>0, <1>3 DEF NothingLost
  <2> QED  BY <2>1, <2>3, <1>3 DEF IInv
<1>4. CASE Join
  <2>1. TypeOK'
    BY <1>0, <1>4, HashAssumption DEF TypeOK, Join
  <2> QED  BY <2>1, <1>3, <1>4 DEF Join
<1>5. CASE SkipEntry
  <2>1. e' \in 0..HASHSZ
    BY <1>0, <1>5, HashAssumption DEF TypeOK, SkipEntry, Merging, next_entry
  <2>2. TypeOK'
    BY <2>1, <1>0, <1>5 DEF TypeOK, SkipEntry, next_entry
  <2> QED  BY <2>2, <1>3, <1>5 DEF SkipEntry, next_entry
<1>6. ASSUME Merging, used(k, e)
      PROVE  /\ Sum \in Tables /\ t[k][e].key \in Outcomes
             /\ t[k][e].c \in Nat \ {0} /\ e + 1 \in 0..HASHSZ
  <2>1. k \in Tables /\ e \in Slots /\ e + 1 \in 0..HASHSZ
    BY <1>0, <1>6, HashAssumption DEF TypeOK, Merging, Tables, Slots
  <2>2. t[k][e] \in Entry
    BY <2>1, <1>0 DEF TypeOK
  <2>3. t[k][e].c \in Nat \ {0}
    BY <2>2, <1>6 DEF Entry, used
  <2>4. t[k][e].key \in Outcomes
    BY <2>1, <1>0, <1>6 DEF TableInv, Reachable
  <2> QED  BY <2>1, <2>3, <2>4 DEF Tables
<1>7. CASE AddEntry
  <2> DEFINE o == t[k][e].key
             c == t[k][e].c
  <2>1. /\ Sum \in Tables /\ o \in Outcomes /\ c \in Nat \ {0} /\ e + 1 \in 0..HASHSZ
        /\ added(Sum, o, c, o \in cond) /\ see(Sum, o, c)
    <3>1. k \in Tables /\ e \in Slots /\ used(k, e)
      BY <1>0, <1>7, HashAssumption DEF TypeOK, AddEntry, Merging, Tables, Slots
    <3>2. t[k][e].ok = (o \in cond)
      BY <3>1, <1>0 DEF TableInv, Flags
    <3>3. added(Sum, o, c, t[k][e].ok) /\ see(Sum, o, c)
      BY <1>7 DEF AddEntry
    <3> QED  BY <1>6, <1>7, <3>2, <3>3 DEF AddEntry
  <2> HIDE DEF o, c
  <2>2. TableInv'
    BY <2>1, <1>0, AddedInv
  <2>3. PICK n \in Slots : AddedAt(Sum, o, c, n)
    BY <2>1, AddedIsAt
  <2>4. t' \in [Tables -> [Slots -> Entry]] /\ nhash' \in [Tables -> Nat]
    BY <2>1, <2>3, <1>0, AddedEntries
  <2>5. seen' \in [Tables -> [Outcomes -> Nat]]
    BY <2>1, <1>0 DEF see, TypeOK
  <2>6. TypeOK'
    BY <2>1, <2>4, <2>5, <1>0, <1>7 DEF TypeOK, AddEntry, next_entry
  <2>7. hash_ok /\ r => \A a \in Tables : Exact(a)'
    BY <2>1, <1>0, AddedExact DEF NothingLost
  <2>8. NothingLost'
    BY <2>7, <1>7 DEF NothingLost, AddEntry, next_entry
  <2> QED  BY <2>2, <2>6, <2>8 DEF IInv
<1>8. CASE DropEntry
  <2> DEFINE o == t[k][e].key
             c == t[k][e].c
  <2>1. /\ Sum \in Tables /\ o \in Outcomes /\ c \in Nat \ {0} /\ e + 1 \in 0..HASHSZ
        /\ see(Sum, o, c)
    BY <1>6, <1>8 DEF DropEntry
  <2> HIDE DEF o, c
  <2>2. TableInv'
    BY <1>0, <1>8, SameTables DEF DropEntry
  <2>3. seen' \in [Tables -> [Outcomes -> Nat]]
    BY <2>1, <1>0 DEF see, TypeOK
  <2>4. TypeOK'
    BY <2>1, <2>3, <1>0, <1>8 DEF TypeOK, DropEntry, next_entry
  <2>5. NothingLost'
    BY <1>8 DEF NothingLost, DropEntry
  <2> QED  BY <2>2, <2>4, <2>5 DEF IInv
<1>9. CASE NextTable
  <2>1. k + 1 \in -1..nexe /\ 0 \in 0..HASHSZ /\ (r /\ hash_ok) \in BOOLEAN
    BY <1>9, <1>0, HashAssumption DEF NextTable, Insts, TypeOK
  <2>2. TypeOK'
    BY <2>1, <1>0, <1>9 DEF TypeOK, NextTable
  <2>3. r' /\ hash_ok' => r /\ hash_ok
    BY <1>9 DEF NextTable
  <2> QED  BY <2>2, <2>3, <1>3, <1>9 DEF NextTable
<1>10. CASE UNCHANGED vars
  <2>1. TypeOK'
    BY <1>0, <1>10 DEF TypeOK, vars
  <2> QED  BY <2>1, <1>3, <1>10 DEF vars
<1> QED  BY <1>1, <1>2, <1>4, <1>5, <1>7, <1>8, <1>9, <1>10 DEF Next

(* The tables are well formed and count every outcome they are given, as   *)
(* long as hash_ok says so, whatever the hash function and the sizes: an   *)
(* outcome is lost by hash_add or hash_adds only if a table is full, and   *)
(* then it is reported.                                                    *)
THEOREM TablesInvariant == Spec => []IInv
<1>1. Init => IInv
  BY InitIInv
<1>2. IInv /\ [Next]_vars => IInv'
  BY NextIInv
<1> QED  BY <1>1, <1>2, PTL DEF Spec

(* No two entries of a table hold the same outcome, and a probe reaches    *)
(* each outcome that is in the table.                                      *)
THEOREM TablesWellFormed == Spec => []TableInv
<1>1. IInv => TableInv
  BY DEF IInv
<1> QED  BY <1>1, TablesInvariant, PTL

(* hash_ok is a faithful report: while it holds each table has counted     *)
(* every outcome given to it, and only those.                              *)
THEOREM NoSilentLoss == Spec => []NothingLost
<1>1. IInv => NothingLost
  BY DEF IInv
<1> QED  BY <1>1, TablesInvariant, PTL

-----------------------------------------------------------------------------
(* Sums.  The sum of g over a finite set is the number of units that its   *)
(* elements have in all; the fold that computes it is determined by that,  *)
(* for a smallest set on which it differed would not be empty and would    *)
(* lose the element the fold picks.                                        *)

Units(g, S) == {u \in S \X Nat : u[2] \in 1..g[u[1]]}

pick(s) == CHOOSE x \in s : TRUE

IsFold(f, g, S) ==
  f = [s \in SUBSET S |-> IF s = {} THEN 0 ELSE g[pick(s)] + f[s \ {pick(s)}]]

LEMMA SumIsFold == ASSUME NEW g, NEW S
                   PROVE  sumOf(g, S) = (CHOOSE f : IsFold(f, g, S))[S]
BY Zenon DEF sumOf, MapThenSumSet, MapThenFoldSet, IsFold, pick

(* A set of natural numbers has a least element.                           *)
LEMMA LeastNat ==
  ASSUME NEW S \in SUBSET Nat, S # {}
  PROVE  \E m \in S : \A x \in S : m <= x
<1>1. PICK m \in S : \A y \in S : <<y, m>> \notin OpToRel(<, Nat)
  BY WFMin, NatLessThanWellFounded, Zenon
<1>2. \A y \in S : y < m => <<y, m>> \in OpToRel(<, Nat)
  BY SMT DEF OpToRel
<1>3. \A y \in S : ~(y < m)
  BY <1>1, <1>2, Zenon
<1> QED  BY <1>3

(* A family of subsets of a finite set has a smallest member, if any.      *)
LEMMA Smallest ==
  ASSUME NEW S, IsFiniteSet(S), NEW F \in SUBSET (SUBSET S), F # {}
  PROVE  \E s \in F : \A x \in s : s \ {x} \notin F
<1>1. \A s \in F : IsFiniteSet(s) /\ Cardinality(s) \in Nat
  BY FS_Subset, FS_CardinalityType
<1> DEFINE C == {n \in Nat : \E s \in F : Cardinality(s) = n}
<1>2. C \in SUBSET Nat /\ C # {}
  BY <1>1
<1>3. PICK m \in C : \A n \in C : m <= n
  <2> HIDE DEF C
  <2> QED  BY <1>2, LeastNat
<1>4. PICK s \in F : Cardinality(s) = m
  OBVIOUS
<1>5. ASSUME NEW x \in s PROVE s \ {x} \notin F
  <2>1. IsFiniteSet(s \ {x}) /\ Cardinality(s \ {x}) = m - 1
    BY <1>1, <1>4, <1>5, FS_RemoveElement
  <2>2. ASSUME s \ {x} \in F PROVE FALSE
    <3>1. Cardinality(s \ {x}) \in C
      BY <1>1, <2>2
    <3>2. m <= m - 1 /\ m \in Nat
      BY <1>3, <2>1, <3>1
    <3> QED  BY <3>2
  <2> QED  BY <2>2
<1> QED  BY <1>4, <1>5

LEMMA UnitsOfElement ==
  ASSUME NEW S, NEW g, NEW x \in S, g[x] \in Nat
  PROVE  /\ Units(g, S) = Units(g, S \ {x}) \cup ({x} \X (1..g[x]))
         /\ Units(g, S \ {x}) \cap ({x} \X (1..g[x])) = {}
         /\ IsFiniteSet({x} \X (1..g[x]))
         /\ Cardinality({x} \X (1..g[x])) = g[x]
<1>1. IsFiniteSet({x}) /\ Cardinality({x}) = 1
  BY FS_Singleton
<1>2. IsFiniteSet(1..g[x]) /\ Cardinality(1..g[x]) = g[x]
  BY FS_Interval
<1>3. /\ IsFiniteSet({x} \X (1..g[x]))
      /\ Cardinality({x} \X (1..g[x])) = Cardinality({x}) * Cardinality(1..g[x])
  BY <1>1, <1>2, FS_Product
<1>4. Units(g, S) = Units(g, S \ {x}) \cup ({x} \X (1..g[x]))
  BY DEF Units
<1>5. Units(g, S \ {x}) \cap ({x} \X (1..g[x])) = {}
  BY DEF Units
<1>6. Cardinality({x} \X (1..g[x])) = g[x]
  BY <1>1, <1>2, <1>3
<1> QED  BY <1>3, <1>4, <1>5, <1>6

LEMMA UnitsFinite ==
  ASSUME NEW S, IsFiniteSet(S), NEW g, \A x \in S : g[x] \in Nat
  PROVE  IsFiniteSet(Units(g, S))
<1> DEFINE F == {s \in SUBSET S : ~IsFiniteSet(Units(g, s))}
<1>1. ASSUME F # {} PROVE FALSE
  <2>1. PICK s \in F : \A x \in s : s \ {x} \notin F
    <3> HIDE DEF F
    <3>1. F \in SUBSET (SUBSET S)
      BY DEF F
    <3> QED  BY <1>1, <3>1, Smallest
  <2>2. CASE s = {}
    <3>1. Units(g, s) = {}
      BY <2>2 DEF Units
    <3> QED  BY <3>1, FS_EmptySet
  <2>3. ASSUME NEW x \in s PROVE FALSE
    <3>1. IsFiniteSet(Units(g, s \ {x})) /\ g[x] \in Nat
      BY <2>1, <2>3
    <3>2. /\ Units(g, s) = Units(g, s \ {x}) \cup ({x} \X (1..g[x]))
          /\ IsFiniteSet({x} \X (1..g[x]))
      BY <3>1, <2>3, UnitsOfElement
    <3>3. IsFiniteSet(Units(g, s \ {x}) \cup ({x} \X (1..g[x])))
      BY <3>1, <3>2, FS_Union, Zenon
    <3> QED  BY <3>2, <3>3, Zenon
  <2> QED  BY <2>2, <2>3
<1> QED  BY <1>1

(* One element more.                                                       *)
LEMMA UnitsStep ==
  ASSUME NEW S, IsFiniteSet(S), NEW g, \A x \in S : g[x] \in Nat, NEW x \in S
  PROVE  /\ Cardinality(Units(g, S \ {x})) \in Nat
         /\ Cardinality(Units(g, S)) = g[x] + Cardinality(Units(g, S \ {x}))
<1>1. IsFiniteSet(S \ {x}) /\ g[x] \in Nat
  BY FS_Subset
<1>2. IsFiniteSet(Units(g, S \ {x}))
  BY <1>1, UnitsFinite
<1>3. Cardinality(Units(g, S \ {x})) \in Nat
  BY <1>2, FS_CardinalityType
<1> DEFINE A == Units(g, S \ {x})
           B == {x} \X (1..g[x])
<1>4. /\ Units(g, S) = A \cup B /\ A \cap B = {}
      /\ IsFiniteSet(B) /\ Cardinality(B) = g[x]
  BY <1>1, UnitsOfElement
<1>5. IsFiniteSet(A) /\ Cardinality(A) \in Nat
  BY <1>2, <1>3
<1> HIDE DEF A, B
<1>6. Cardinality(A \cup B) = Cardinality(A) + Cardinality(B) - Cardinality(A \cap B)
  BY <1>4, <1>5, FS_Union
<1>7. Cardinality(A \cap B) = 0
  BY <1>4, FS_EmptySet
<1>8. Cardinality(Units(g, S)) = g[x] + Cardinality(A)
  BY <1>1, <1>4, <1>5, <1>6, <1>7
<1> QED  BY <1>3, <1>8 DEF A

LEMMA SumIsUnits ==
  ASSUME NEW S, IsFiniteSet(S), NEW g, \A x \in S : g[x] \in Nat
  PROVE  sumOf(g, S) = Cardinality(Units(g, S))
<1> DEFINE C == [s \in SUBSET S |-> Cardinality(Units(g, s))]
<1>0. ASSUME NEW s \in SUBSET S, s # {} 
      PROVE  pick(s) \in s /\ s \ {pick(s)} \in SUBSET S
             /\ C[s] = g[pick(s)] + C[s \ {pick(s)}]
  <2>1. pick(s) \in s
    BY <1>0 DEF pick
  <2>2. s \ {pick(s)} \in SUBSET S
    OBVIOUS
  <2>3. IsFiniteSet(s) /\ \A x \in s : g[x] \in Nat
    BY FS_Subset
  <2>4. Cardinality(Units(g, s)) = g[pick(s)] + Cardinality(Units(g, s \ {pick(s)}))
    BY <2>1, <2>3, UnitsStep
  <2> QED  BY <2>1, <2>2, <2>4
<1>1. C[{}] = 0
  <2>1. Units(g, {}) = {}
    BY DEF Units
  <2> QED  BY <2>1, FS_EmptySet
<1>2. IsFold(C, g, S)
  <2> DEFINE D == [s \in SUBSET S |-> IF s = {} THEN 0
                                      ELSE g[pick(s)] + C[s \ {pick(s)}]]
  <2>1. \A s \in SUBSET S : C[s] = D[s]
    <3> SUFFICES ASSUME NEW s \in SUBSET S PROVE C[s] = D[s]
      OBVIOUS
    <3>1. CASE s = {}
      BY <3>1, <1>1
    <3>2. CASE s # {}
      <4>1. D[s] = g[pick(s)] + C[s \ {pick(s)}]
        BY <3>2
      <4> QED  BY <4>1, <3>2, <1>0
    <3> QED  BY <3>1, <3>2
  <2>2. C = D
    BY <2>1
  <2> HIDE DEF C
  <2> QED  BY <2>2 DEF IsFold
<1>3. PICK f : f = CHOOSE h : IsFold(h, g, S)
  OBVIOUS
<1>4. IsFold(f, g, S)
  <2> HIDE DEF C
  <2> QED BY <1>2, <1>3
<1>5. f[S] = C[S]
  <2> DEFINE F == {s \in SUBSET S : f[s] # C[s]}
  <2>1. ASSUME F # {} PROVE FALSE
    <3>1. PICK s \in F : \A x \in s : s \ {x} \notin F
      <4> HIDE DEF F
      <4>1. F \in SUBSET (SUBSET S)
        BY DEF F
      <4> QED  BY <2>1, <4>1, Smallest
    <3>2. s \in SUBSET S /\ f[s] # C[s]
      OBVIOUS
    <3>3. f[s] = IF s = {} THEN 0 ELSE g[pick(s)] + f[s \ {pick(s)}]
      <4> HIDE DEF C, F
      <4> QED  BY <1>4, <3>2 DEF IsFold
    <3>4. s # {}
      BY <3>2, <3>3, <1>1
    <3>5. pick(s) \in s /\ s \ {pick(s)} \in SUBSET S
      BY <3>2, <3>4, <1>0
    <3>6. f[s \ {pick(s)}] = C[s \ {pick(s)}]
      BY <3>1, <3>5
    <3>7. C[s] = g[pick(s)] + C[s \ {pick(s)}]
      BY <3>2, <3>4, <1>0
    <3> QED  BY <3>2, <3>3, <3>4, <3>6, <3>7
  <2>2. S \in SUBSET S
    OBVIOUS
  <2> QED  BY <2>1, <2>2
<1> QED  BY <1>3, <1>5, SumIsFold

LEMMA SumType ==
  ASSUME NEW S, IsFiniteSet(S), NEW g, \A x \in S : g[x] \in Nat
  PROVE  sumOf(g, S) \in Nat
BY SumIsUnits, UnitsFinite, FS_CardinalityType

(* Sums of functions that agree, that differ at one point, or everywhere.  *)
LEMMA SumSame ==
  ASSUME NEW S, IsFiniteSet(S), NEW g, NEW h,
         \A x \in S : g[x] \in Nat /\ h[x] = g[x]
  PROVE  sumOf(g, S) = sumOf(h, S)
<1>1. Units(g, S) = Units(h, S)
  BY DEF Units
<1>2. (\A x \in S : g[x] \in Nat) /\ (\A x \in S : h[x] \in Nat)
  OBVIOUS
<1>3. sumOf(g, S) = Cardinality(Units(g, S))
  BY <1>2, SumIsUnits
<1>4. sumOf(h, S) = Cardinality(Units(h, S))
  BY <1>2, SumIsUnits
<1> QED  BY <1>1, <1>3, <1>4

LEMMA SumAdd ==
  ASSUME NEW S, IsFiniteSet(S), NEW g, NEW h, \A x \in S : g[x] \in Nat,
         NEW x \in S, h[x] \in Nat, \A y \in S \ {x} : h[y] = g[y]
  PROVE  sumOf(h, S) = sumOf(g, S) + (h[x] - g[x])
<1>1. (\A y \in S : h[y] \in Nat) /\ g[x] \in Nat
  BY DEF Units
<1>2. Units(g, S \ {x}) = Units(h, S \ {x})
  BY DEF Units
<1>3. sumOf(g, S) = Cardinality(Units(g, S))
  BY SumIsUnits
<1>4. sumOf(h, S) = Cardinality(Units(h, S))
  BY <1>1, SumIsUnits
<1>5. /\ Cardinality(Units(g, S \ {x})) \in Nat
      /\ Cardinality(Units(g, S)) = g[x] + Cardinality(Units(g, S \ {x}))
  BY UnitsStep
<1>6. Cardinality(Units(h, S)) = h[x] + Cardinality(Units(h, S \ {x}))
  BY <1>1, UnitsStep
<1> QED  BY <1>1, <1>2, <1>3, <1>4, <1>5, <1>6

LEMMA SumBelow ==
  ASSUME NEW S, IsFiniteSet(S), NEW g, NEW h,
         \A x \in S : g[x] \in Nat /\ h[x] \in Nat /\ g[x] <= h[x]
  PROVE  /\ sumOf(g, S) <= sumOf(h, S)
         /\ (\E x \in S : g[x] < h[x]) => sumOf(g, S) < sumOf(h, S)
<1>1. (\A x \in S : g[x] \in Nat) /\ (\A x \in S : h[x] \in Nat)
  OBVIOUS
<1>2. sumOf(g, S) = Cardinality(Units(g, S))
  BY <1>1, SumIsUnits
<1>3. sumOf(h, S) = Cardinality(Units(h, S)) /\ IsFiniteSet(Units(h, S))
  BY <1>1, SumIsUnits, UnitsFinite
<1>4. sumOf(g, S) \in Nat /\ sumOf(h, S) \in Nat
  BY <1>1, SumType
<1>5. Units(g, S) \in SUBSET Units(h, S)
  BY DEF Units
<1>6. /\ Cardinality(Units(g, S)) <= Cardinality(Units(h, S))
      /\ Cardinality(Units(h, S)) = Cardinality(Units(g, S)) => Units(h, S) = Units(g, S)
  BY <1>3, <1>5, FS_Subset
<1>7. ASSUME NEW x \in S, g[x] < h[x] PROVE Units(h, S) # Units(g, S)
  <2>1. <<x, h[x]>> \in Units(h, S)
    BY <1>7 DEF Units
  <2>2. <<x, h[x]>> \notin Units(g, S)
    BY <1>7 DEF Units
  <2> QED  BY <2>1, <2>2
<1> QED  BY <1>2, <1>3, <1>4, <1>6, <1>7

(* At most one element counts.                                             *)
LEMMA SumNone ==
  ASSUME NEW S, IsFiniteSet(S), NEW g, \A x \in S : g[x] = 0
  PROVE  sumOf(g, S) = 0
<1>1. Units(g, S) = {}
  BY DEF Units
<1> QED  BY <1>1, SumIsUnits, FS_EmptySet

LEMMA SumOne ==
  ASSUME NEW S, IsFiniteSet(S), NEW g, NEW x \in S, g[x] \in Nat,
         \A y \in S \ {x} : g[y] = 0
  PROVE  sumOf(g, S) = g[x]
<1>1. \A y \in S : g[y] \in Nat
  OBVIOUS
<1>2. Units(g, S \ {x}) = {}
  BY DEF Units
<1>3. Cardinality(Units(g, S)) = g[x] + Cardinality(Units(g, S \ {x}))
  BY <1>1, UnitsStep
<1>4. sumOf(g, S) = Cardinality(Units(g, S))
  BY <1>1, SumIsUnits
<1>5. Cardinality(Units(g, S \ {x})) = 0
  BY <1>2, FS_EmptySet
<1> QED  BY <1>3, <1>4, <1>5

(* Elements that do not count are left out, the others renamed.            *)
LEMMA SumRenamed ==
  ASSUME NEW S, IsFiniteSet(S), NEW g, \A x \in S : g[x] \in Nat,
         NEW T, IsFiniteSet(T), NEW h, \A y \in T : h[y] \in Nat,
         NEW name,
         \A x \in S : g[x] > 0 => name[x] \in T /\ h[name[x]] = g[x],
         \A x, y \in S : g[x] > 0 /\ g[y] > 0 /\ name[x] = name[y] => x = y,
         \A y \in T : h[y] > 0 => \E x \in S : g[x] > 0 /\ name[x] = y
  PROVE  sumOf(g, S) = sumOf(h, T)
<1>1. sumOf(g, S) = Cardinality(Units(g, S)) /\ IsFiniteSet(Units(g, S))
  BY SumIsUnits, UnitsFinite
<1>2. sumOf(h, T) = Cardinality(Units(h, T))
  BY SumIsUnits
<1> DEFINE f == [u \in Units(g, S) |-> <<name[u[1]], u[2]>>]
<1>3. \A u \in Units(g, S) : f[u] \in Units(h, T)
  <2> SUFFICES ASSUME NEW u \in Units(g, S) PROVE <<name[u[1]], u[2]>> \in Units(h, T)
    OBVIOUS
  <2>1. u[1] \in S /\ u[2] \in Nat /\ u[2] \in 1..g[u[1]] /\ g[u[1]] \in Nat
    BY DEF Units
  <2>2. g[u[1]] > 0
    BY <2>1
  <2>3. name[u[1]] \in T /\ h[name[u[1]]] = g[u[1]]
    BY <2>1, <2>2
  <2> QED  BY <2>1, <2>3 DEF Units
<1>4. \A u, v \in Units(g, S) : f[u] = f[v] => u = v
  <2> SUFFICES ASSUME NEW u \in Units(g, S), NEW v \in Units(g, S), f[u] = f[v]
               PROVE  u = v
    OBVIOUS
  <2>1. u[1] \in S /\ u[2] \in Nat /\ u[2] \in 1..g[u[1]] /\ g[u[1]] \in Nat
        /\ u = <<u[1], u[2]>>
    BY DEF Units
  <2>2. v[1] \in S /\ v[2] \in Nat /\ v[2] \in 1..g[v[1]] /\ g[v[1]] \in Nat
        /\ v = <<v[1], v[2]>>
    BY DEF Units
  <2>3. g[u[1]] > 0 /\ g[v[1]] > 0
    BY <2>1, <2>2
  <2>4. name[u[1]] = name[v[1]] /\ u[2] = v[2]
    OBVIOUS
  <2> HIDE DEF f
  <2>5. u[1] = v[1]
    BY <2>1, <2>2, <2>3, <2>4
  <2> QED  BY <2>1, <2>2, <2>4, <2>5
<1>5. \A w \in Units(h, T) : \E u \in Units(g, S) : f[u] = w
  <2> SUFFICES ASSUME NEW w \in Units(h, T)
               PROVE  \E u \in Units(g, S) : f[u] = w
    OBVIOUS
  <2>1. w[1] \in T /\ w[2] \in Nat /\ w[2] \in 1..h[w[1]] /\ h[w[1]] \in Nat
        /\ w = <<w[1], w[2]>>
    BY DEF Units
  <2>2. h[w[1]] > 0
    BY <2>1
  <2>3. PICK x \in S : g[x] > 0 /\ name[x] = w[1]
    BY <2>1, <2>2
  <2>4. h[w[1]] = g[x]
    BY <2>3
  <2>5. <<x, w[2]>> \in Units(g, S)
    BY <2>1, <2>4 DEF Units
  <2>6. f[<<x, w[2]>>] = w
    BY <2>1, <2>3, <2>5
  <2> QED  BY <2>5, <2>6
<1>6. f \in Bijection(Units(g, S), Units(h, T))
  <2>1. f \in [Units(g, S) -> Units(h, T)]
    BY <1>3
  <2> HIDE DEF f
  <2>2. f \in Injection(Units(g, S), Units(h, T))
    BY <2>1, <1>4 DEF Injection, IsInjective
  <2>3. f \in Surjection(Units(g, S), Units(h, T))
    BY <2>1, <1>5 DEF Surjection
  <2> QED  BY <2>2, <2>3 DEF Bijection
<1>7. ExistsBijection(Units(g, S), Units(h, T))
  <2> HIDE DEF f
  <2> QED  BY <1>6 DEF ExistsBijection
<1>8. Cardinality(Units(h, T)) = Cardinality(Units(g, S))
  BY <1>1, <1>7, FS_Bijection
<1> QED  BY <1>1, <1>2, <1>8
-----------------------------------------------------------------------------
(* The final report.                                                       *)

(* Entry x of the table T holds outcome o, and the count of o in T, among  *)
(* the entries of S.                                                       *)
inTable(T, x, o) == T[x].c > 0 /\ T[x].key = o

held(T, o, S) == IF \E x \in S : inTable(T, x, o)
                 THEN T[CHOOSE x \in S : inTable(T, x, o)].c ELSE 0

(* The entries of instance i that have been added up when hash_adds is at  *)
(* entry n of instance l, and what each instance has contributed to the    *)
(* sum for o.                                                              *)
scanned(l, n, i) == {x \in Slots : i < l \/ (i = l /\ x < n)}

moved(tt, l, n, o) == [i \in Insts |-> held(tt[i], o, scanned(l, n, i))]

Phase == (k = -1 => e = 0) /\ (k \notin Insts => r)

Moved == \A o \in Outcomes : seen[Sum][o] = sumOf(moved(t, k, e, o), Insts)

AtMost == \A tb \in Tables, o \in Outcomes : held(t[tb], o, Slots) <= seen[tb][o]

(* A table that is said to be short is short.                              *)
Short == \/ hash_ok /\ r
         \/ \E tb \in Tables, o \in Outcomes : held(t[tb], o, Slots) < seen[tb][o]

MergeInv == Phase /\ Moved /\ AtMost /\ Short

LEMMA InstsFinite == IsFiniteSet(Insts) /\ IsFiniteSet(Slots)
BY HashAssumption, FS_Interval DEF Insts, Slots

LEMMA SumIsNoInst == Sum \notin Insts /\ Sum \in Tables /\ Insts \subseteq Tables
BY HashAssumption DEF Sum, Insts, Tables

LEMMA HeldBy ==
  ASSUME NEW T, NEW o, NEW S \in SUBSET Slots,
         NEW x \in Slots, inTable(T, x, o),
         \A y \in Slots : inTable(T, y, o) => y = x
  PROVE  held(T, o, S) = IF x \in S THEN T[x].c ELSE 0
<1>1. CASE x \in S
  <2>1. \E y \in S : inTable(T, y, o)
    BY <1>1
  <2> DEFINE z == CHOOSE y \in S : inTable(T, y, o)
  <2>2. z \in S /\ inTable(T, z, o)
    BY <2>1
  <2>3. z = x
    BY <2>2
  <2>4. held(T, o, S) = T[z].c
    BY <2>1 DEF held
  <2> QED  BY <1>1, <2>3, <2>4
<1>2. CASE x \notin S
  BY <1>2 DEF held
<1> QED  BY <1>1, <1>2

LEMMA HeldNot ==
  ASSUME NEW T, NEW o, NEW S, \A y \in S : ~inTable(T, y, o)
  PROVE  held(T, o, S) = 0
BY DEF held

(* The one entry of an outcome in a table of the program.                  *)
LEMMA HeldAt ==
  ASSUME TypeOK, TableInv, NEW tb \in Tables, NEW o, NEW S \in SUBSET Slots,
         NEW x \in Slots, inTable(t[tb], x, o)
  PROVE  held(t[tb], o, S) = IF x \in S THEN t[tb][x].c ELSE 0
<1>1. \A y \in Slots : inTable(t[tb], y, o) => y = x
  BY DEF TableInv, OneEntry, used, inTable
<1> QED  BY <1>1, HeldBy

LEMMA HeldType ==
  ASSUME TypeOK, TableInv, NEW tb \in Tables, NEW o, NEW S \in SUBSET Slots
  PROVE  held(t[tb], o, S) \in Nat
<1>1. CASE \E x \in Slots : inTable(t[tb], x, o)
  <2>1. PICK x \in Slots : inTable(t[tb], x, o)
    BY <1>1
  <2>2. t[tb][x] \in Entry
    BY DEF TypeOK
  <2>3. t[tb][x].c \in Nat
    BY <2>2 DEF Entry
  <2> QED  BY <2>1, <2>3, HeldAt
<1>2. CASE ~\E x \in Slots : inTable(t[tb], x, o)
  BY <1>2, HeldNot
<1> QED  BY <1>1, <1>2

(* Tables that agree hold the same.                                        *)
LEMMA HeldSame ==
  ASSUME NEW T, NEW V, NEW o, NEW S \in SUBSET Slots,
         \A x \in Slots : inTable(T, x, o) <=> inTable(V, x, o),
         \A x \in Slots : inTable(T, x, o) => V[x].c = T[x].c,
         \A x, y \in Slots : inTable(T, x, o) /\ inTable(T, y, o) => x = y
  PROVE  held(V, o, S) = held(T, o, S)
<1>1. CASE \E x \in Slots : inTable(T, x, o)
  <2>1. PICK x \in Slots : inTable(T, x, o)
    BY <1>1
  <2>2. /\ \A y \in Slots : inTable(T, y, o) => y = x
        /\ \A y \in Slots : inTable(V, y, o) => y = x
        /\ inTable(V, x, o) /\ V[x].c = T[x].c
    BY <2>1
  <2>3. held(T, o, S) = IF x \in S THEN T[x].c ELSE 0
    BY <2>1, <2>2, HeldBy
  <2>4. held(V, o, S) = IF x \in S THEN V[x].c ELSE 0
    BY <2>2, HeldBy
  <2> QED  BY <2>2, <2>3, <2>4
<1>2. CASE ~\E x \in Slots : inTable(T, x, o)
  <2>1. held(T, o, S) = 0
    BY <1>2, HeldNot
  <2>2. \A x \in S : ~inTable(V, x, o)
    BY <1>2
  <2>3. held(V, o, S) = 0
    BY <2>2, HeldNot
  <2> QED  BY <2>1, <2>3
<1> QED  BY <1>1, <1>2

(* What hash_add does to the counts.                                       *)
LEMMA AddedHeld ==
  ASSUME NEW tb \in Tables, NEW o \in Outcomes, NEW c \in Nat \ {0},
         TypeOK, TableInv, added(tb, o, c, o \in cond)
  PROVE  /\ held(t'[tb], o, Slots) = held(t[tb], o, Slots) + c
         /\ \A p \in Outcomes \ {o} : held(t'[tb], p, Slots) = held(t[tb], p, Slots)
         /\ \A a \in Tables \ {tb} : \A y \in Slots : t'[a][y] = t[a][y]
<1>1. PICK i \in Slots : AddedAt(tb, o, c, i)
  BY AddedIsAt
<1> DEFINE x == slot(o, i)
<1>2. /\ i \in Nat /\ x \in Slots
      /\ \A a \in Tables, y \in Slots : a # tb \/ y # x => t'[a][y] = t[a][y]
      /\ t'[tb][x].key = o
      /\ used(tb, x) => /\ t[tb][x].key = o
                        /\ t'[tb][x].c = t[tb][x].c + c
      /\ ~used(tb, x) => t'[tb][x].c = c
  BY <1>1, AddedEntries
<1>3. probe(tb, o, i)
  BY <1>1 DEF AddedAt
<1> HIDE DEF x
<1>4. t[tb][x].c \in Nat
  <2>1. t[tb][x] \in Entry
    BY <1>2 DEF TypeOK
  <2> QED  BY <2>1 DEF Entry
<1>5. ASSUME NEW y \in Slots, inTable(t[tb], y, o) PROVE y = x
  BY <1>2, <1>3, <1>5, Found DEF TableInv, inTable, used, x
<1>6. inTable(t'[tb], x, o) /\ \A y \in Slots : inTable(t'[tb], y, o) => y = x
  <2>1. inTable(t'[tb], x, o)
    BY <1>2, <1>4 DEF inTable, used
  <2>2. ASSUME NEW y \in Slots, inTable(t'[tb], y, o), y # x PROVE FALSE
    <3>1. t'[tb][y] = t[tb][y]
      BY <1>2, <2>2
    <3> QED  BY <3>1, <2>2, <1>5 DEF inTable
  <2> QED  BY <2>1, <2>2
<1>7. held(t'[tb], o, Slots) = t'[tb][x].c
  BY <1>2, <1>6, HeldBy
<1>8. held(t'[tb], o, Slots) = held(t[tb], o, Slots) + c
  <2>1. CASE used(tb, x)
    <3>1. inTable(t[tb], x, o)
      BY <2>1, <1>2 DEF inTable, used
    <3>2. held(t[tb], o, Slots) = t[tb][x].c
      BY <3>1, <1>2, <1>5, HeldBy
    <3> QED  BY <2>1, <3>2, <1>2, <1>7
  <2>2. CASE ~used(tb, x)
    <3>1. \A y \in Slots : ~inTable(t[tb], y, o)
      BY <2>2, <1>5 DEF inTable, used
    <3>2. held(t[tb], o, Slots) = 0
      BY <3>1, HeldNot
    <3> QED  BY <2>2, <3>2, <1>2, <1>7
  <2> QED  BY <2>1, <2>2
<1>9. ASSUME NEW p \in Outcomes \ {o}
      PROVE  held(t'[tb], p, Slots) = held(t[tb], p, Slots)
  <2>1. \A y \in Slots : inTable(t[tb], y, p) => y # x
    BY <1>2 DEF inTable, used
  <2>2. \A y \in Slots : inTable(t'[tb], y, p) => y # x
    BY <1>2 DEF inTable
  <2>3. \A y \in Slots : y # x => t'[tb][y] = t[tb][y]
    BY <1>2
  <2>4. \A y \in Slots : inTable(t[tb], y, p) <=> inTable(t'[tb], y, p)
    BY <2>1, <2>2, <2>3 DEF inTable
  <2>5. \A y \in Slots : inTable(t[tb], y, p) => t'[tb][y].c = t[tb][y].c
    BY <2>1, <2>3
  <2>6. \A y, z \in Slots : inTable(t[tb], y, p) /\ inTable(t[tb], z, p) => y = z
    BY DEF TableInv, OneEntry, inTable, used
  <2> QED  BY <2>4, <2>5, <2>6, HeldSame
<1>10. \A a \in Tables \ {tb} : \A y \in Slots : t'[a][y] = t[a][y]
  BY <1>2
<1> QED  BY <1>8, <1>9, <1>10

(* A table that does not change.                                           *)
LEMMA HeldKept ==
  ASSUME TypeOK, TableInv, NEW a \in Tables, \A y \in Slots : t'[a][y] = t[a][y],
         NEW o, NEW S \in SUBSET Slots
  PROVE  held(t'[a], o, S) = held(t[a], o, S)
<1>1. \A y \in Slots : inTable(t[a], y, o) <=> inTable(t'[a], y, o)
  BY DEF inTable
<1>2. \A y \in Slots : inTable(t[a], y, o) => t'[a][y].c = t[a][y].c
  OBVIOUS
<1>3. \A y, z \in Slots : inTable(t[a], y, o) /\ inTable(t[a], z, o) => y = z
  BY DEF TableInv, OneEntry, inTable, used
<1> QED  BY <1>1, <1>2, <1>3, HeldSame

(* Giving c outcomes o to a table, which counts them (d = c) or does not   *)
(* (d = 0).                                                                *)
LEMMA GivenCounts ==
  ASSUME NEW tb \in Tables, NEW o \in Outcomes, NEW c \in Nat \ {0}, NEW d \in {0, c},
         TypeOK, TableInv, AtMost, Short, see(tb, o, c),
         held(t'[tb], o, Slots) = held(t[tb], o, Slots) + d,
         \A p \in Outcomes \ {o} : held(t'[tb], p, Slots) = held(t[tb], p, Slots),
         \A a \in Tables \ {tb} : \A y \in Slots : t'[a][y] = t[a][y],
         d = 0 \/ (hash_ok' = hash_ok /\ r' = r)
  PROVE  AtMost' /\ Short'
<1>1. /\ seen \in [Tables -> [Outcomes -> Nat]]
      /\ \A a \in Tables, p \in Outcomes : held(t[a], p, Slots) \in Nat
  BY HeldType DEF TypeOK
<1>2. /\ seen'[tb][o] = seen[tb][o] + c
      /\ \A a \in Tables, p \in Outcomes : a # tb \/ p # o => seen'[a][p] = seen[a][p]
  BY <1>1 DEF see
<1>3. \A a \in Tables, p \in Outcomes : a # tb \/ p # o =>
        held(t'[a], p, Slots) = held(t[a], p, Slots)
  BY HeldKept
<1>4. AtMost'
  <2> SUFFICES ASSUME NEW a \in Tables, NEW p \in Outcomes
               PROVE  held(t'[a], p, Slots) <= seen'[a][p]
    BY DEF AtMost
  <2>1. held(t[a], p, Slots) <= seen[a][p] /\ held(t[a], p, Slots) \in Nat
        /\ seen[a][p] \in Nat
    BY <1>1 DEF AtMost
  <2>2. CASE a = tb /\ p = o
    BY <2>1, <2>2, <1>2
  <2>3. CASE a # tb \/ p # o
    BY <2>1, <2>3, <1>2, <1>3
  <2> QED  BY <2>2, <2>3
<1>5. Short'
  <2>0. SUFFICES (hash_ok' /\ r') \/ \E a \in Tables, p \in Outcomes :
                    held(t'[a], p, Slots) < seen'[a][p]
    BY DEF Short
  <2>1. CASE d = 0
    <3>1. held(t[tb], o, Slots) <= seen[tb][o] /\ held(t[tb], o, Slots) \in Nat
          /\ seen[tb][o] \in Nat
      BY <1>1 DEF AtMost
    <3>2. held(t'[tb], o, Slots) < seen'[tb][o]
      BY <3>1, <2>1, <1>2
    <3> QED  BY <3>2
  <2>2. CASE d = c /\ hash_ok' = hash_ok /\ r' = r /\ ~(hash_ok /\ r)
    <3>1. PICK a \in Tables, p \in Outcomes : held(t[a], p, Slots) < seen[a][p]
      BY <2>2 DEF Short
    <3>2. held(t[a], p, Slots) \in Nat /\ seen[a][p] \in Nat
      BY <1>1
    <3>3. held(t'[a], p, Slots) < seen'[a][p]
      <4>1. CASE a = tb /\ p = o
        BY <2>2, <3>1, <3>2, <4>1, <1>2
      <4>2. CASE a # tb \/ p # o
        BY <3>1, <4>2, <1>2, <1>3
      <4> QED  BY <4>1, <4>2
    <3> QED  BY <3>3
  <2>3. CASE hash_ok' = hash_ok /\ r' = r /\ hash_ok /\ r
    BY <2>3
  <2> QED  BY <2>1, <2>2, <2>3
<1> QED  BY <1>4, <1>5

(* The contributions, entry by entry.                                      *)
LEMMA MovedType ==
  ASSUME TypeOK, TableInv, NEW l, NEW n, NEW o
  PROVE  \A i \in Insts : moved(t, l, n, o)[i] \in Nat
<1> SUFFICES ASSUME NEW i \in Insts PROVE moved(t, l, n, o)[i] \in Nat
  OBVIOUS
<1>1. i \in Tables /\ scanned(l, n, i) \in SUBSET Slots
  BY SumIsNoInst DEF scanned
<1>2. moved(t, l, n, o)[i] = held(t[i], o, scanned(l, n, i))
  BY DEF moved
<1> QED  BY <1>1, <1>2, HeldType

(* The instances keep their tables, and have contributed as much.          *)
LEMMA MovedSame ==
  ASSUME TypeOK, TableInv, Moved, NEW o \in Outcomes,
         seen'[Sum][o] = seen[Sum][o],
         \A i \in Insts : held(t'[i], o, scanned(k', e', i))
                            = held(t[i], o, scanned(k, e, i))
  PROVE  seen'[Sum][o] = sumOf(moved(t', k', e', o), Insts)
<1>1. moved(t', k', e', o) = moved(t, k, e, o)
  BY DEF moved
<1> QED  BY <1>1 DEF Moved

(* Before the instances are joined nothing has been added up.              *)
LEMMA NothingMoved ==
  ASSUME NEW i \in Insts, NEW T, NEW o, NEW l \in {-1, 0}
  PROVE  held(T, o, scanned(l, 0, i)) = 0
<1>1. scanned(l, 0, i) = {}
  BY HashAssumption DEF scanned, Slots, Insts
<1> QED  BY <1>1, HeldNot

(* hash_adds goes past entry e, which may be in use.                       *)
LEMMA ScannedNext ==
  ASSUME TypeOK, TableInv, Merging, NEW o,
         NEW i \in Insts, i # k \/ ~inTable(t[k], e, o)
  PROVE  held(t[i], o, scanned(k, e + 1, i)) = held(t[i], o, scanned(k, e, i))
<1>1. /\ i \in Tables /\ k \in Int /\ e \in Slots /\ HASHSZ \in Nat
      /\ scanned(k, e, i) \in SUBSET Slots /\ scanned(k, e + 1, i) \in SUBSET Slots
  BY SumIsNoInst, HashAssumption DEF scanned, Merging, TypeOK, Slots
<1>2. CASE i # k
  <2>1. scanned(k, e + 1, i) = scanned(k, e, i)
    BY <1>2 DEF scanned
  <2> QED  BY <2>1
<1>3. CASE i = k
  <2>1. scanned(k, e + 1, i) = scanned(k, e, i) \cup {e}
    BY <1>1, <1>3 DEF scanned, Slots
  <2>2. CASE \E x \in Slots : inTable(t[i], x, o)
    <3>1. PICK x \in Slots : inTable(t[i], x, o)
      BY <2>2
    <3>2. x # e
      BY <3>1, <1>3
    <3>3. held(t[i], o, scanned(k, e, i)) = IF x \in scanned(k, e, i) THEN t[i][x].c ELSE 0
      BY <1>1, <3>1, HeldAt
    <3>4. held(t[i], o, scanned(k, e + 1, i))
            = IF x \in scanned(k, e + 1, i) THEN t[i][x].c ELSE 0
      BY <1>1, <3>1, HeldAt
    <3> QED  BY <2>1, <3>2, <3>3, <3>4
  <2>3. CASE ~\E x \in Slots : inTable(t[i], x, o)
    <3>1. held(t[i], o, scanned(k, e, i)) = 0
      BY <1>1, <2>3, HeldNot
    <3>2. held(t[i], o, scanned(k, e + 1, i)) = 0
      BY <1>1, <2>3, HeldNot
    <3> QED  BY <3>1, <3>2
  <2> QED  BY <2>2, <2>3
<1> QED  BY <1>2, <1>3

(* hash_adds gives entry e of instance k to the sum.                       *)
LEMMA EntryMoved ==
  ASSUME TypeOK, TableInv, Moved, Merging, used(k, e), next_entry,
         see(Sum, t[k][e].key, t[k][e].c),
         \A i \in Insts : \A y \in Slots : t'[i][y] = t[i][y]
  PROVE  Moved'
<1> SUFFICES ASSUME NEW o \in Outcomes
             PROVE  seen'[Sum][o] = sumOf(moved(t', k', e', o), Insts)
  BY DEF Moved
<1>1. /\ k \in Insts /\ k \in Tables /\ k \in Int /\ e \in Slots /\ HASHSZ \in Nat
      /\ k' = k /\ e' = e + 1
  BY SumIsNoInst, HashAssumption DEF Merging, TypeOK, Slots, next_entry
<1>2. PICK p \in Outcomes, c \in Nat \ {0} : p = t[k][e].key /\ c = t[k][e].c
  <2>1. t[k][e] \in Entry
    BY <1>1 DEF TypeOK
  <2>2. t[k][e].c \in Nat \ {0}
    BY <2>1 DEF Entry, used
  <2>3. t[k][e].key \in Outcomes
    BY <1>1 DEF TableInv, Reachable
  <2> QED  BY <2>2, <2>3
<1>3. /\ seen'[Sum][p] = seen[Sum][p] + c
      /\ o # p => seen'[Sum][o] = seen[Sum][o]
  BY <1>2, SumIsNoInst DEF see, TypeOK
<1>4. inTable(t[k], e, p)
  BY <1>2 DEF inTable, used
<1>5. ASSUME NEW i \in Insts
      PROVE  held(t'[i], o, scanned(k', e', i)) = held(t[i], o, scanned(k, e + 1, i))
  <2>1. i \in Tables /\ scanned(k, e + 1, i) \in SUBSET Slots
    BY SumIsNoInst DEF scanned
  <2> QED  BY <1>1, <2>1, HeldKept
<1>6. CASE o # p
  <2>1. ~inTable(t[k], e, o)
    BY <1>4, <1>6 DEF inTable
  <2>2. \A i \in Insts : held(t'[i], o, scanned(k', e', i))
                           = held(t[i], o, scanned(k, e, i))
    BY <1>5, <2>1, ScannedNext
  <2> QED  BY <1>3, <1>6, <2>2, MovedSame
<1>7. CASE o = p
  <2> DEFINE g == moved(t, k, e, o)
             h == moved(t', k', e', o)
  <2>1. \A i \in Insts : g[i] \in Nat
    BY MovedType
  <2>2. scanned(k, e, k) \in SUBSET Slots /\ scanned(k, e + 1, k) \in SUBSET Slots
        /\ e \notin scanned(k, e, k) /\ e \in scanned(k, e + 1, k)
    BY <1>1 DEF scanned, Slots
  <2>3. held(t[k], o, scanned(k, e, k)) = 0
    BY <1>1, <1>4, <1>7, <2>2, HeldAt
  <2>4. held(t[k], o, scanned(k, e + 1, k)) = c
    BY <1>1, <1>2, <1>4, <1>7, <2>2, HeldAt
  <2>5. g[k] = 0 /\ h[k] = c
    BY <1>1, <1>5, <2>3, <2>4 DEF moved
  <2>6. ASSUME NEW i \in Insts \ {k} PROVE h[i] = g[i]
    <3>1. held(t[i], o, scanned(k, e + 1, i)) = held(t[i], o, scanned(k, e, i))
      BY <2>6, ScannedNext
    <3> QED  BY <2>6, <1>5, <3>1 DEF moved
  <2> HIDE DEF g, h
  <2>7. sumOf(h, Insts) = sumOf(g, Insts) + c
    <3>1. h[k] \in Nat /\ h[k] - g[k] = c
      BY <2>5
    <3>2. \A i \in Insts \ {k} : h[i] = g[i]
      BY <2>6
    <3>3. k \in Insts /\ IsFiniteSet(Insts)
      BY <1>1, InstsFinite
    <3>4. sumOf(h, Insts) = sumOf(g, Insts) + (h[k] - g[k])
      BY <2>1, <3>1, <3>2, <3>3, SumAdd
    <3> QED  BY <3>1, <3>4
  <2>8. seen[Sum][o] = sumOf(g, Insts)
    BY DEF Moved, g
  <2> QED  BY <1>3, <1>7, <2>7, <2>8 DEF h
<1> QED  BY <1>6, <1>7

LEMMA InitMergeInv == Init => MergeInv
<1> SUFFICES ASSUME Init PROVE MergeInv
  OBVIOUS
<1>1. PICK ok \in BOOLEAN : t = [tb \in Tables |-> hash_init(ok)]
  BY DEF Init
<1>2. \A tb \in Tables, x \in Slots : ~(t[tb][x].c > 0)
  BY <1>1 DEF hash_init
<1>3. \A tb \in Tables, o \in Outcomes : held(t[tb], o, Slots) = 0 /\ seen[tb][o] = 0
  BY <1>2, HeldNot DEF inTable, Init
<1>4. Phase /\ AtMost /\ Short
  BY <1>3 DEF Init, Phase, AtMost, Short
<1>5. Moved
  <2> SUFFICES ASSUME NEW o \in Outcomes
               PROVE  seen[Sum][o] = sumOf(moved(t, k, e, o), Insts)
    BY DEF Moved
  <2>1. \A i \in Insts : moved(t, k, e, o)[i] = 0
    BY NothingMoved DEF moved, Init
  <2>2. sumOf(moved(t, k, e, o), Insts) = 0
    BY <2>1, InstsFinite, SumNone
  <2> QED  BY <2>2, <1>3, SumIsNoInst
<1> QED  BY <1>4, <1>5 DEF MergeInv

LEMMA NextMergeInv == IInv /\ MergeInv /\ [Next]_vars => MergeInv'
<1> SUFFICES ASSUME IInv, MergeInv, [Next]_vars PROVE MergeInv'
  OBVIOUS
<1>0. TypeOK /\ TableInv /\ Phase /\ Moved /\ AtMost /\ Short
  BY DEF IInv, MergeInv
<1>1. ASSUME k = -1, k' = k, e' = e, \A o \in Outcomes : seen'[Sum][o] = seen[Sum][o]
      PROVE  Moved'
  <2> SUFFICES ASSUME NEW o \in Outcomes
               PROVE  seen'[Sum][o] = sumOf(moved(t', k', e', o), Insts)
    BY DEF Moved
  <2>1. e = 0
    BY <1>0, <1>1 DEF Phase
  <2>2. \A i \in Insts : held(t'[i], o, scanned(k', e', i))
                           = held(t[i], o, scanned(k, e, i))
    BY <1>1, <2>1, NothingMoved
  <2> QED  BY <1>0, <1>1, <2>2, MovedSame
<1>2. ASSUME NEW i \in Insts, NEW o \in Outcomes, Collected(i, o)
      PROVE  MergeInv'
  <2>1. /\ i \in Tables /\ i # Sum
        /\ added(i, o, 1, o \in cond) /\ see(i, o, 1)
        /\ UNCHANGED <<hash_ok, k, e, r>> /\ k = -1
    BY <1>2, SumIsNoInst DEF Collected
  <2>2. \A p \in Outcomes : seen'[Sum][p] = seen[Sum][p]
    BY <2>1, <1>0, SumIsNoInst DEF see, TypeOK
  <2>3. Moved'
    BY <1>1, <2>1, <2>2
  <2>4. Phase'
    BY <1>0, <2>1 DEF Phase
  <2>5. 1 \in Nat \ {0} /\ 1 \in {0, 1}
    OBVIOUS
  <2>6. /\ held(t'[i], o, Slots) = held(t[i], o, Slots) + 1
        /\ \A p \in Outcomes \ {o} : held(t'[i], p, Slots) = held(t[i], p, Slots)
        /\ \A a \in Tables \ {i} : \A y \in Slots : t'[a][y] = t[a][y]
    BY <1>0, <2>1, <2>5, AddedHeld
  <2>7. AtMost' /\ Short'
    BY <1>0, <2>1, <2>5, <2>6, GivenCounts
  <2> QED  BY <2>3, <2>4, <2>7 DEF MergeInv
<1>3. ASSUME NEW i \in Insts, NEW o \in Outcomes, Dropped(i, o)
      PROVE  MergeInv'
  <2>1. /\ i \in Tables /\ i # Sum /\ see(i, o, 1)
        /\ UNCHANGED <<t, k, e, r>> /\ k = -1
    BY <1>3, SumIsNoInst DEF Dropped
  <2>2. \A p \in Outcomes : seen'[Sum][p] = seen[Sum][p]
    BY <2>1, <1>0, SumIsNoInst DEF see, TypeOK
  <2>3. Moved'
    BY <1>1, <2>1, <2>2
  <2>4. Phase'
    BY <1>0, <2>1 DEF Phase
  <2>5. 1 \in Nat \ {0} /\ 0 \in {0, 1}
    OBVIOUS
  <2>6. /\ held(t'[i], o, Slots) = held(t[i], o, Slots) + 0
        /\ \A p \in Outcomes \ {o} : held(t'[i], p, Slots) = held(t[i], p, Slots)
        /\ \A a \in Tables \ {i} : \A y \in Slots : t'[a][y] = t[a][y]
    <3>1. held(t[i], o, Slots) \in Nat
      BY <1>0, <2>1, HeldType
    <3> QED  BY <2>1, <3>1
  <2>7. AtMost' /\ Short'
    BY <1>0, <2>1, <2>5, <2>6, GivenCounts
  <2> QED  BY <2>3, <2>4, <2>7 DEF MergeInv
<1>4. ASSUME UNCHANGED <<t, seen>>, r /\ hash_ok => r' /\ hash_ok'
      PROVE  AtMost' /\ Short'
  BY <1>0, <1>4 DEF AtMost, Short
<1>5. ASSUME UNCHANGED <<t, seen>>,
             \A o \in Outcomes, i \in Insts : held(t[i], o, scanned(k', e', i))
                                                = held(t[i], o, scanned(k, e, i))
      PROVE  Moved'
  BY <1>0, <1>5, MovedSame DEF Moved
<1>6. CASE Join
  <2>1. k = -1 /\ e = 0 /\ k' = 0 /\ e' = 0 /\ r /\ UNCHANGED <<t, seen, r, hash_ok>>
    <3>1. k \notin Insts
      BY <1>6, HashAssumption DEF Join, Insts
    <3> QED  BY <1>0, <1>6, <3>1 DEF Join, Phase
  <2>2. \A o \in Outcomes, i \in Insts : held(t[i], o, scanned(k', e', i))
                                           = held(t[i], o, scanned(k, e, i))
    BY <2>1, NothingMoved
  <2>3. Moved' /\ AtMost' /\ Short'
    BY <1>4, <1>5, <2>1, <2>2
  <2> QED  BY <2>1, <2>3 DEF MergeInv, Phase
<1>7. CASE SkipEntry
  <2>1. /\ Merging /\ ~used(k, e) /\ k' = k /\ e' = e + 1 /\ k \in Insts
        /\ UNCHANGED <<t, seen, r, hash_ok>>
    BY <1>7 DEF SkipEntry, next_entry, Merging
  <2>2. \A o \in Outcomes, i \in Insts : held(t[i], o, scanned(k', e', i))
                                           = held(t[i], o, scanned(k, e, i))
    BY <1>0, <2>1, ScannedNext DEF inTable, used
  <2>3. Moved' /\ AtMost' /\ Short'
    BY <1>4, <1>5, <2>1, <2>2
  <2>4. k' # -1 /\ k' \in Insts
    BY <2>1, HashAssumption DEF Insts
  <2> QED  BY <2>3, <2>4 DEF MergeInv, Phase
<1>8. ASSUME AddEntry \/ DropEntry
      PROVE  MergeInv'
  <2>1. /\ Merging /\ used(k, e) /\ next_entry
        /\ see(Sum, t[k][e].key, t[k][e].c)
        /\ Sum \in Tables /\ k' = k /\ k \in Insts /\ k # -1
    BY <1>8, SumIsNoInst, HashAssumption DEF AddEntry, DropEntry, next_entry, Merging, Insts
  <2>2. PICK o \in Outcomes, c \in Nat \ {0} :
          /\ o = t[k][e].key /\ c = t[k][e].c
          /\ t[k][e].ok = (o \in cond)
    <3>1. k \in Tables /\ e \in Slots
      BY <1>0, <2>1, SumIsNoInst, HashAssumption DEF TypeOK, Merging, Slots
    <3>2. t[k][e] \in Entry
      BY <3>1, <1>0 DEF TypeOK
    <3>3. t[k][e].c \in Nat \ {0}
      BY <3>2, <2>1 DEF Entry, used
    <3>4. t[k][e].key \in Outcomes
      BY <3>1, <1>0, <2>1 DEF TableInv, Reachable
    <3>5. t[k][e].ok = (t[k][e].key \in cond)
      BY <3>1, <1>0, <2>1 DEF TableInv, Flags
    <3> QED  BY <3>3, <3>4, <3>5
  <2>3. see(Sum, o, c)
    BY <2>1, <2>2
  <2>4. /\ \A i \in Insts : \A y \in Slots : t'[i][y] = t[i][y]
        /\ AtMost' /\ Short'
    <3>1. CASE AddEntry
      <4>1. added(Sum, o, c, o \in cond) /\ hash_ok' = hash_ok /\ r' = r /\ c \in {0, c}
        BY <3>1, <2>2 DEF AddEntry, next_entry
      <4>2. /\ held(t'[Sum], o, Slots) = held(t[Sum], o, Slots) + c
            /\ \A p \in Outcomes \ {o} : held(t'[Sum], p, Slots) = held(t[Sum], p, Slots)
            /\ \A a \in Tables \ {Sum} : \A y \in Slots : t'[a][y] = t[a][y]
        BY <1>0, <2>1, <4>1, AddedHeld
      <4>3. AtMost' /\ Short'
        BY <1>0, <2>1, <2>3, <4>1, <4>2, GivenCounts
      <4> QED  BY <4>2, <4>3, SumIsNoInst
    <3>2. CASE DropEntry
      <4>1. t' = t /\ 0 \in {0, c}
        BY <3>2 DEF DropEntry
      <4>2. /\ held(t'[Sum], o, Slots) = held(t[Sum], o, Slots) + 0
            /\ \A p \in Outcomes \ {o} : held(t'[Sum], p, Slots) = held(t[Sum], p, Slots)
            /\ \A a \in Tables \ {Sum} : \A y \in Slots : t'[a][y] = t[a][y]
        <5>1. held(t[Sum], o, Slots) \in Nat
          BY <1>0, <2>1, HeldType
        <5> QED  BY <4>1, <5>1
      <4>3. AtMost' /\ Short'
        BY <1>0, <2>1, <2>3, <4>1, <4>2, GivenCounts
      <4> QED  BY <4>1, <4>3
    <3> QED  BY <1>8, <3>1, <3>2
  <2>5. Moved'
    BY <1>0, <2>1, <2>4, EntryMoved
  <2>6. Phase'
    BY <2>1 DEF Phase
  <2> QED  BY <2>4, <2>5, <2>6 DEF MergeInv
<1>9. CASE NextTable
  <2>1. /\ k \in Insts /\ e = HASHSZ /\ k' = k + 1 /\ e' = 0 /\ r' = TRUE
        /\ hash_ok' = (r /\ hash_ok) /\ UNCHANGED <<t, seen>>
    BY <1>9 DEF NextTable
  <2>2. ASSUME NEW i \in Insts PROVE scanned(k', e', i) = scanned(k, e, i)
    BY <2>1, <2>2, HashAssumption DEF scanned, Insts, Slots
  <2>3. Moved'
    BY <1>5, <2>1, <2>2
  <2>4. AtMost' /\ Short'
    BY <1>4, <2>1
  <2>5. k' # -1
    BY <2>1, HashAssumption DEF Insts
  <2> QED  BY <2>1, <2>3, <2>4, <2>5 DEF MergeInv, Phase
<1>10. CASE UNCHANGED vars
  <2>1. Moved' /\ AtMost' /\ Short'
    BY <1>4, <1>5, <1>10 DEF vars
  <2> QED  BY <1>0, <1>10, <2>1 DEF MergeInv, Phase, vars
<1> QED  BY <1>2, <1>3, <1>6, <1>7, <1>8, <1>9, <1>10 DEF Next

(* What the summary says of an outcome is what its table holds.            *)
LEMMA CountedHeld ==
  ASSUME TypeOK, TableInv, NEW o \in Outcomes
  PROVE  counted(o) = held(t[Sum], o, Slots)
<1> DEFINE S == {x \in Slots : t[Sum][x].key = o}
           g == [x \in Slots |-> t[Sum][x].c]
<1>1. counted(o) = sumOf(g, S)
  BY DEF counted, count
<1>2. IsFiniteSet(S) /\ \A x \in Slots : g[x] \in Nat
  <2>1. IsFiniteSet(S)
    BY InstsFinite, FS_Subset
  <2> QED  BY <2>1, SumIsNoInst DEF TypeOK, Entry
<1>3. CASE \E x \in Slots : inTable(t[Sum], x, o)
  <2>1. PICK x \in Slots : inTable(t[Sum], x, o)
    BY <1>3
  <2>2. held(t[Sum], o, Slots) = g[x]
    BY <2>1, SumIsNoInst, HeldAt
  <2>3. x \in S /\ g[x] \in Nat
    BY <2>1, <1>2 DEF inTable
  <2>4. \A y \in S \ {x} : g[y] = 0
    <3> SUFFICES ASSUME NEW y \in S, y # x PROVE g[y] = 0
      OBVIOUS
    <3>1. ~(t[Sum][y].c > 0)
      BY <2>1, SumIsNoInst DEF TableInv, OneEntry, used, inTable
    <3> QED  BY <3>1, <1>2
  <2> HIDE DEF S, g
  <2>5. sumOf(g, S) = g[x]
    BY <1>2, <2>3, <2>4, SumOne
  <2> QED  BY <1>1, <2>2, <2>5
<1>4. CASE ~\E x \in Slots : inTable(t[Sum], x, o)
  <2>1. held(t[Sum], o, Slots) = 0
    BY <1>4, HeldNot
  <2>2. \A x \in S : g[x] = 0
    BY <1>2, <1>4 DEF inTable
  <2> HIDE DEF S, g
  <2>3. sumOf(g, S) = 0
    BY <1>2, <2>2, SumNone
  <2> QED  BY <1>1, <2>1, <2>3
<1> QED  BY <1>3, <1>4

(* A table that is exact holds what it was given.                          *)
LEMMA ExactHeld ==
  ASSUME TypeOK, TableInv, NEW tb \in Tables, Exact(tb), NEW o \in Outcomes
  PROVE  held(t[tb], o, Slots) = seen[tb][o]
<1>1. seen[tb][o] \in Nat
  BY DEF TypeOK
<1>2. CASE \E x \in Slots : inTable(t[tb], x, o)
  <2>1. PICK x \in Slots : inTable(t[tb], x, o)
    BY <1>2
  <2>2. held(t[tb], o, Slots) = t[tb][x].c
    BY <2>1, HeldAt
  <2> QED  BY <2>1, <2>2 DEF Exact, used, inTable
<1>3. CASE ~\E x \in Slots : inTable(t[tb], x, o)
  <2>1. held(t[tb], o, Slots) = 0
    BY <1>3, HeldNot
  <2>2. ~(seen[tb][o] > 0)
    BY <1>3 DEF Exact, used, inTable
  <2> QED  BY <1>1, <2>1, <2>2
<1> QED  BY <1>2, <1>3

(* The entries whose flag is b are those of a set C of outcomes: the sum   *)
(* of their counts is the number of times that outcomes of C were seen.    *)
LEMMA FlaggedSum ==
  ASSUME TypeOK, TableInv, NEW C \in SUBSET Outcomes, NEW S \in SUBSET Slots,
         \A x \in Slots : used(Sum, x) => (x \in S <=> t[Sum][x].key \in C),
         \A o \in Outcomes : held(t[Sum], o, Slots) = observed[o] /\ observed[o] \in Nat
  PROVE  count(S) = sumOf(observed, C)
<1> DEFINE g == [x \in Slots |-> t[Sum][x].c]
           name == [x \in Slots |-> t[Sum][x].key]
<1>1. count(S) = sumOf(g, S)
  BY DEF count
<1>2. IsFiniteSet(S) /\ IsFiniteSet(C)
  BY InstsFinite, HashAssumption, FS_Subset
<1>3. \A x \in Slots : g[x] \in Nat
  BY SumIsNoInst DEF TypeOK, Entry
<1>4. \A x \in Slots : g[x] > 0 => /\ used(Sum, x) /\ name[x] \in Outcomes
                                   /\ inTable(t[Sum], x, name[x])
  BY SumIsNoInst DEF TableInv, Reachable, used, inTable
<1>5. \A x \in S : g[x] > 0 => name[x] \in C /\ observed[name[x]] = g[x]
  <2> SUFFICES ASSUME NEW x \in S, g[x] > 0
               PROVE  name[x] \in C /\ observed[name[x]] = g[x]
    OBVIOUS
  <2>1. held(t[Sum], name[x], Slots) = g[x]
    BY <1>4, SumIsNoInst, HeldAt
  <2> QED  BY <1>4, <2>1
<1>6. \A x, y \in S : g[x] > 0 /\ g[y] > 0 /\ name[x] = name[y] => x = y
  BY SumIsNoInst DEF TableInv, OneEntry, used
<1>7. \A o \in C : observed[o] > 0 => \E x \in S : g[x] > 0 /\ name[x] = o
  <2> SUFFICES ASSUME NEW o \in C, observed[o] > 0
               PROVE  \E x \in S : g[x] > 0 /\ name[x] = o
    OBVIOUS
  <2>1. held(t[Sum], o, Slots) # 0
    OBVIOUS
  <2>2. PICK x \in Slots : inTable(t[Sum], x, o)
    BY <2>1, HeldNot
  <2> QED  BY <2>2 DEF inTable, used
<1> HIDE DEF g, name
<1>8. (\A x \in S : g[x] \in Nat) /\ (\A o \in C : observed[o] \in Nat)
  BY <1>3
<1>9. sumOf(g, S) = sumOf(observed, C)
  BY <1>2, <1>5, <1>6, <1>7, <1>8, SumRenamed
<1> QED  BY <1>1, <1>9

LEMMA ReportHolds == IInv /\ MergeInv => Report
<1> SUFFICES ASSUME IInv, MergeInv, Done
             PROVE  /\ hash_ok <=> \A o \in Outcomes : counted(o) = observed[o]
                    /\ \A o \in Outcomes : counted(o) <= observed[o]
                    /\ hash_ok =>
                         /\ count({x \in Slots : t[Sum][x].ok}) = sumOf(observed, cond)
                         /\ count({x \in Slots : ~t[Sum][x].ok})
                              = sumOf(observed, Outcomes \ cond)
  BY DEF Report
<1>0. TypeOK /\ TableInv /\ NothingLost /\ Phase /\ Moved /\ AtMost /\ Short
  BY DEF IInv, MergeInv
<1>1. k = nexe /\ r
  BY <1>0, HashAssumption DEF Done, Phase, Insts
<1>2. ASSUME NEW o \in Outcomes
      PROVE  /\ counted(o) = held(t[Sum], o, Slots)
             /\ counted(o) \in Nat /\ observed[o] \in Nat
             /\ counted(o) <= seen[Sum][o] /\ seen[Sum][o] <= observed[o]
             /\ seen[Sum][o] \in Nat
             /\ (\E i \in Insts : held(t[i], o, Slots) < seen[i][o]) =>
                  seen[Sum][o] < observed[o]
  <2> DEFINE g == moved(t, k, e, o)
             h == [i \in Insts |-> seen[i][o]]
  <2>1. counted(o) = held(t[Sum], o, Slots) /\ counted(o) \in Nat
    BY <1>0, CountedHeld, HeldType, SumIsNoInst
  <2>2. counted(o) <= seen[Sum][o] /\ seen[Sum][o] \in Nat
    BY <1>0, <2>1, SumIsNoInst DEF AtMost, TypeOK
  <2>3. \A i \in Insts : g[i] = held(t[i], o, Slots)
    <3> SUFFICES ASSUME NEW i \in Insts PROVE g[i] = held(t[i], o, Slots)
      OBVIOUS
    <3>1. scanned(k, e, i) = Slots
      BY <1>1, HashAssumption DEF scanned, Insts
    <3> QED  BY <3>1 DEF moved
  <2>4. \A i \in Insts : g[i] \in Nat /\ h[i] \in Nat /\ g[i] <= h[i]
    BY <1>0, <2>3, MovedType, SumIsNoInst DEF AtMost, TypeOK
  <2>5. seen[Sum][o] = sumOf(g, Insts) /\ observed[o] = sumOf(h, Insts)
    BY <1>0 DEF Moved, observed
  <2>6. ASSUME NEW i \in Insts, held(t[i], o, Slots) < seen[i][o]
        PROVE  g[i] < h[i]
    BY <2>3, <2>6
  <2> HIDE DEF g, h
  <2>7. /\ sumOf(g, Insts) <= sumOf(h, Insts)
        /\ (\E i \in Insts : g[i] < h[i]) => sumOf(g, Insts) < sumOf(h, Insts)
    BY <2>4, InstsFinite, SumBelow
  <2>8. \A i \in Insts : h[i] \in Nat
    BY <2>4
  <2>9. sumOf(h, Insts) \in Nat
    BY <2>8, InstsFinite, SumType
  <2> QED  BY <2>1, <2>2, <2>5, <2>6, <2>7, <2>9
<1>3. ASSUME hash_ok, NEW o \in Outcomes
      PROVE  counted(o) = observed[o]
  <2>1. \A tb \in Tables : Exact(tb)
    BY <1>0, <1>1, <1>3 DEF NothingLost
  <2>2. \A tb \in Tables : held(t[tb], o, Slots) = seen[tb][o]
    BY <1>0, <2>1, ExactHeld
  <2> DEFINE g == moved(t, k, e, o)
             h == [i \in Insts |-> seen[i][o]]
  <2>3. \A i \in Insts : g[i] \in Nat /\ h[i] = g[i]
    <3> SUFFICES ASSUME NEW i \in Insts PROVE g[i] \in Nat /\ h[i] = g[i]
      OBVIOUS
    <3>1. scanned(k, e, i) = Slots /\ i \in Tables
      BY <1>1, HashAssumption, SumIsNoInst DEF scanned, Insts
    <3>2. g[i] = held(t[i], o, Slots)
      BY <3>1 DEF moved
    <3> QED  BY <1>0, <2>2, <3>1, <3>2, HeldType
  <2>4. seen[Sum][o] = sumOf(g, Insts) /\ observed[o] = sumOf(h, Insts)
    BY <1>0 DEF Moved, observed
  <2> HIDE DEF g, h
  <2>5. sumOf(g, Insts) = sumOf(h, Insts)
    BY <2>3, InstsFinite, SumSame
  <2> QED  BY <1>2, <2>2, <2>4, <2>5, SumIsNoInst
<1>4. ASSUME ~hash_ok
      PROVE  \E o \in Outcomes : counted(o) # observed[o]
  <2>1. PICK tb \in Tables, o \in Outcomes : held(t[tb], o, Slots) < seen[tb][o]
    BY <1>0, <1>4 DEF Short
  <2>2. CASE tb = Sum
    <3>1. counted(o) < seen[Sum][o]
      BY <1>2, <2>1, <2>2
    <3> QED  BY <1>2, <3>1
  <2>3. CASE tb \in Insts
    <3>1. seen[Sum][o] < observed[o]
      BY <1>2, <2>1, <2>3
    <3> QED  BY <1>2, <3>1
  <2> QED  BY <2>2, <2>3 DEF Tables
<1>5. ASSUME hash_ok
      PROVE  /\ count({x \in Slots : t[Sum][x].ok}) = sumOf(observed, cond)
             /\ count({x \in Slots : ~t[Sum][x].ok}) = sumOf(observed, Outcomes \ cond)
  <2>1. \A o \in Outcomes : held(t[Sum], o, Slots) = observed[o] /\ observed[o] \in Nat
    BY <1>2, <1>3, <1>5
  <2>2. \A x \in Slots : used(Sum, x) => /\ t[Sum][x].ok = (t[Sum][x].key \in cond)
                                         /\ t[Sum][x].key \in Outcomes
    BY <1>0, SumIsNoInst DEF TableInv, Flags, Reachable
  <2>3. count({x \in Slots : t[Sum][x].ok}) = sumOf(observed, cond)
    <3> DEFINE S == {x \in Slots : t[Sum][x].ok}
    <3>1. cond \in SUBSET Outcomes /\ S \in SUBSET Slots
      BY HashAssumption
    <3>2. \A x \in Slots : used(Sum, x) => (x \in S <=> t[Sum][x].key \in cond)
      BY <2>2
    <3> HIDE DEF S
    <3>3. count(S) = sumOf(observed, cond)
      BY <1>0, <2>1, <3>1, <3>2, FlaggedSum
    <3> QED  BY <3>3 DEF S
  <2>4. count({x \in Slots : ~t[Sum][x].ok}) = sumOf(observed, Outcomes \ cond)
    <3> DEFINE S == {x \in Slots : ~t[Sum][x].ok}
               C == Outcomes \ cond
    <3>1. C \in SUBSET Outcomes /\ S \in SUBSET Slots
      OBVIOUS
    <3>2. \A x \in Slots : used(Sum, x) => (x \in S <=> t[Sum][x].key \in C)
      BY <2>2
    <3> HIDE DEF S, C
    <3>3. count(S) = sumOf(observed, C)
      BY <1>0, <2>1, <3>1, <3>2, FlaggedSum
    <3> QED  BY <3>3 DEF S, C
  <2> QED  BY <2>3, <2>4
<1>6. \A o \in Outcomes : counted(o) <= observed[o]
  BY <1>2
<1> QED  BY <1>3, <1>4, <1>5, <1>6

(* The final report of RUN is right, whatever the number of instances, of  *)
(* outcomes and of entries, and the hash function: the warning is printed  *)
(* if and only if some outcome is counted short, nothing is counted twice, *)
(* and without the warning p_true and p_false add up what was observed.    *)
THEOREM ReportCorrect == Spec => []Report
<1>1. Init => IInv /\ MergeInv
  BY InitIInv, InitMergeInv
<1>2. IInv /\ MergeInv /\ [Next]_vars => (IInv /\ MergeInv)'
  BY NextIInv, NextMergeInv
<1>3. IInv /\ MergeInv => Report
  BY ReportHolds
<1> QED  BY <1>1, <1>2, <1>3, PTL DEF Spec

=============================================================================
