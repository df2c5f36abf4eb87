------------------------------ MODULE ZyvaHist ------------------------------
(***************************************************************************)
(* The histograms of a standard test: the run loop of Zyva together with   *)
(* the trees of Outs in which its instances count the outcomes, each       *)
(* twice: hist by the instance, one outcome after the other, and hist0 by  *)
(* its threads, in a tree per run that is then merged (litmus/skel.ml,     *)
(* Collect.Both; the other settings have one of them).                     *)
(***************************************************************************)
EXTENDS Zyva, Outs

CONSTANTS NOUTS, Outcomes, Positive

ASSUME OutcomesAssumption ==
  /\ Positive \subseteq Outcomes
  /\ \A o \in Outcomes : o \in [0..(NOUTS-1) -> Int]

VARIABLES outs, outs0,  \* the trees of hist and of hist0, by instance
          seen          \* how often it has seen each outcome: a history variable

allVars == <<vars, outs, outs0, seen>>

NULL == <<>>

HistInit == /\ Init
            /\ outs = [z \in Zyvas |-> NULL]
            /\ outs0 = [z \in Zyvas |-> NULL]
            /\ seen = [z \in Zyvas |-> [o \in Outcomes |-> 0]]

add_outcome(p, o) == add_outcome_outs(p, o, NOUTS, 1, o \in Positive)

(* The iterations of a run end with the outcomes s.                        *)
Log(z) ==
  \E s \in [1..size_of_test -> Outcomes] :
    LET phist == FoldLeft(add_outcome, NULL, s)
    IN  /\ EndRun(z)
        /\ hist'[z].pos - hist[z].pos = Quantify(1..size_of_test, LAMBDA i : s[i] \in Positive)
        /\ outs0' = [outs0 EXCEPT ![z] = merge_outs(@, phist)]
        /\ outs' = [outs EXCEPT ![z] = FoldLeft(add_outcome, @, s)]
        /\ seen' = [seen EXCEPT ![z] = [o \in Outcomes |->
                      @[o] + Quantify(1..size_of_test, LAMBDA i : s[i] = o)]]

(* The steps of zyva that leave the trees alone.                           *)
Other(z) == /\ Steps(z)
            /\ UNCHANGED <<outs, outs0, seen>>

last == n_exe - 1

(* main merges the histogram of an instance into the one of the last.      *)
Merge(z) == /\ Join(z)
            /\ outs' = [outs EXCEPT ![last] = merge_outs(@, outs[z])]
            /\ UNCHANGED <<outs0, seen>>

(* Then it prints.                                                         *)
End == /\ Postlude \/ (Done /\ UNCHANGED vars)
       /\ UNCHANGED <<outs, outs0, seen>>

HistNext == /\ \/ \E z \in Zyvas : Log(z) \/ Other(z) \/ Merge(z)
               \/ End
            /\ UNCHANGED prm

HistSpec == HistInit /\ [][HistNext]_allVars

(* The instances and the main thread are threads of the system.            *)
HistFairSpec ==
  /\ HistSpec
  /\ \A z \in Zyvas : /\ WF_allVars((Log(z) \/ Other(z)) /\ UNCHANGED prm)
                      /\ WF_allVars(Merge(z) /\ UNCHANGED prm)
  /\ WF_allVars(End /\ UNCHANGED prm)

-----------------------------------------------------------------------------

(* "check summed hist" and "sum_hist" never fail: trees made of the same   *)
(* outcomes in different ways are the same, and miss none of them.         *)
Checks == /\ main = 0 => \A z \in Zyvas : same_outs(outs[z], outs0[z])
          /\ ~speedcheck =>
               /\ \A z \in Zyvas \ {last} : pc[z] = "done" => sum_outs(outs[z]) = n_outs
               /\ Done => sum_outs(outs[last]) = n_outs * n_exe

lexical(k, l) == \E i \in 0..(NOUTS-1) : k[i] < l[i] /\ \A j \in (i+1)..(NOUTS-1) : k[j] = l[j]

(* What is printed in the end: each outcome that some instance has seen,   *)
(* once, in lexical order, with the number of times it was seen and the    *)
(* mark of those that satisfy the condition; as many as finals_outs says.  *)
Printed == Done =>
  LET out == dump_outs(outs[last], [i \in 0..(NOUTS-1) |-> 0], NOUTS)
      times(o) == MapThenSumSet(LAMBDA z : seen[z][o], Zyvas)
  IN  /\ \A i \in 1..(Len(out)-1) : lexical(out[i].o, out[i+1].o)
      /\ Range(out) = {[o |-> o, c |-> times(o), show |-> o \in Positive] :
                         o \in {k \in Outcomes : times(k) > 0}}
      /\ finals_outs(outs[last]) = Len(out)

(* The histogram of the whole test is right.                               *)
Histogram == SumHist /\ Checks /\ Printed

=============================================================================
