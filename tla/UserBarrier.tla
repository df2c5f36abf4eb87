---------------------------- MODULE UserBarrier ----------------------------
(***************************************************************************)
(* The "soft barriers" of generated tests (litmus/skel.ml): at each index  *)
(* of the test loop one thread, the leader, raises a flag without waiting  *)
(* and the others spin until they see it.  The leadership goes round the   *)
(* threads with the index.                                                 *)
(*                                                                         *)
(* Two versions: user has one flag per index of the loop; user2, the       *)
(* compact one, has N flags in all, and each use of a flag reverses it.    *)
(* The loop scans the indices downwards, possibly by strides.              *)
(*                                                                         *)
(* A flag is a single cell, and a thread stores into a flag only after it  *)
(* left the loops that precede it, so the accesses of flags interleave     *)
(* even without fences.  The code of the test itself is one step.          *)
(***************************************************************************)
EXTENDS Integers, FiniteSets

CONSTANTS N,         \* number of threads
          Size,      \* size_of_test: the indices are Size-1 .. 0
          Modes      \* the combinations of a barrier and a stride

ASSUME NAssumption == N \in Nat \ {0}
ASSUME SizeAssumption == Size \in Nat \ {0}
ASSUME ModesAssumption == Modes \subseteq [compact : BOOLEAN, stride : 1..Size]

VARIABLES mode,      \* the barrier and the stride of this test
          b,         \* the flags
          i,         \* each thread's loop index, Done at the end
          at         \* each thread is at the "barrier" or in the "code"

uvars == <<mode, b, i, at>>

Compact == mode.compact    \* user2 (TRUE) or user (FALSE)
Stride == mode.stride      \* stride of the scan, 1 when there is none

Threads == 0..(N-1)
Indices == 0..(Size-1)
Done == -1

\* the leader is always thread 0, which then never waits for anyone
leader_Fixed(k) == 0

leader(k) == k % N

(* The flag used at index k, and the value that its leader gives it.       *)
cell(k) == IF Compact THEN k % N ELSE k
free(k) == IF Compact THEN (IF k % (2*N) < N THEN 1 ELSE 0) ELSE 1

(* Order of the scan: for each segment j, from Stride down to 1, the       *)
(* indices Size-j, Size-j-Stride, ...                                      *)
first == Size - Stride
segment(k) == ((Size - k - 1) % Stride) + 1

succ(k) == IF k - Stride >= 0 THEN k - Stride
           ELSE IF segment(k) > 1 THEN Size - (segment(k) - 1)
           ELSE Done

(* k is scanned before l.                                                  *)
before(k, l) == \/ segment(k) > segment(l)
                \/ segment(k) = segment(l) /\ k > l

\* the initialisation forgets that the last index is Size - 1
reinit_OffByOne == IF Compact
  THEN [c \in Threads |-> IF (Size - c) % (2*N) < N THEN 0 ELSE 1]
  ELSE [k \in Indices |-> 0]

(* reinit: a flag is initially different from the value its first user     *)
(* waits for.                                                              *)
reinit == IF Compact
  THEN [c \in Threads |-> IF (Size - c - 1) % (2*N) < N THEN 0 ELSE 1]
  ELSE [k \in Indices |-> 0]

UserInit == /\ mode \in Modes
            /\ b = reinit
            /\ i = [p \in Threads |-> first]
            /\ at = [p \in Threads |-> "barrier"]

-----------------------------------------------------------------------------
\* followers forget that flags are reversed: raised is enough
Follow_AnyUse(p) == /\ at[p] = "barrier" /\ i[p] # Done
                    /\ p # leader(i[p])
                    /\ b[cell(i[p])] # reinit[cell(i[p])]
                    /\ at' = [at EXCEPT ![p] = "code"]
                    /\ UNCHANGED <<mode, b, i>>

-----------------------------------------------------------------------------

(* if (idx == id) b[idx] = free                                            *)
Lead(p) == /\ at[p] = "barrier" /\ i[p] # Done
           /\ p = leader(i[p])
           /\ b' = [b EXCEPT ![cell(i[p])] = free(i[p])]
           /\ at' = [at EXCEPT ![p] = "code"]
           /\ UNCHANGED <<mode, i>>

(* else while (b[idx] != free);                                            *)
Follow(p) == /\ at[p] = "barrier" /\ i[p] # Done
             /\ p # leader(i[p])
             /\ b[cell(i[p])] = free(i[p])
             /\ at' = [at EXCEPT ![p] = "code"]
             /\ UNCHANGED <<mode, b, i>>

(* The body of the test, and the next index.                               *)
Code(p) == /\ at[p] = "code"
           /\ i' = [i EXCEPT ![p] = succ(i[p])]
           /\ at' = [at EXCEPT ![p] = "barrier"]
           /\ UNCHANGED <<mode, b>>

UserNext == \E p \in Threads : Lead(p) \/ Follow(p) \/ Code(p)

UserSpec == UserInit /\ [][UserNext]_uvars

(* Each thread keeps running: the flags are polled by running processors.  *)
UserFairSpec == /\ UserSpec
                /\ \A p \in Threads : WF_uvars(Lead(p) \/ Follow(p) \/ Code(p))

-----------------------------------------------------------------------------

(* Thread q has passed the barrier of index k.                             *)
HasPassed(q, k) == \/ i[q] = Done
                   \/ before(k, i[q])
                   \/ i[q] = k /\ at[q] = "code"

(* No thread runs the code of an index that its leader has not reached.    *)
LeaderFirst == \A p \in Threads : at[p] = "code" => HasPassed(leader(i[p]), i[p])

(* A thread that leads an index does not wait there, but it waits for the  *)
(* other leaders in turn, so that nobody can run away: when a thread runs  *)
(* an index, all have passed the indices scanned N or more iterations      *)
(* before.  (For a scan without strides.)                                  *)
BoundedSkew == Stride = 1 => \A p, q \in Threads : \A k \in Indices :
  (at[p] = "code" /\ i[p] + N <= k) => HasPassed(q, k)

(* The threads synchronise on every index and reach the end of the loop.   *)
AllDone == <>(\A p \in Threads : i[p] = Done)

=============================================================================
