---------------------------- MODULE DeltaSearch ----------------------------
(***************************************************************************)
(* The search of sensitivity.ml for the WCET margins of a task set: for    *)
(* every total number of deadline misses i, the largest factor by which    *)
(* all worst-case execution times can grow before more than i deadlines    *)
(* are missed in k consecutive jobs.  The module is the main function from *)
(* the moment delta_sup is known: one analysis at delta_sup fixes M and    *)
(* the arrays delta_min and delta_max, iter_bsearch picks one interval     *)
(* after the other, and bsearch halves it by calling calculate_misses.     *)
(*                                                                         *)
(* A scaling factor is a float in the code; here it is a whole number of   *)
(* grid steps in 0..DeltaSup, and halving rounds down to the grid the way  *)
(* a float division rounds to its own (far finer) grid.                    *)
(*                                                                         *)
(* calculate_misses ends in an external tool.  Its answer is any number up *)
(* to MaxMisses; when Sustainable holds, longer execution times never give *)
(* fewer misses than shorter ones gave, which the algorithm relies on.     *)
(***************************************************************************)
EXTENDS Integers

CONSTANTS DeltaSup,     \* delta_sup, in grid steps
          Epsilon,      \* epsilon = epsilon_resolution *. delta_sup, in grid steps
          MaxMisses,    \* the sum of the k's: no analysis counts more misses
          MaxCalls,     \* bound on sa_time, so that unsustainable searches end
          Sustainable   \* TRUE: misses never decrease as the factor grows

ASSUME DeltaSupAssumption == DeltaSup \in Nat \ {0}
ASSUME EpsilonAssumption == Epsilon \in Nat /\ Epsilon >= 2
ASSUME MaxMissesAssumption == MaxMisses \in Nat
ASSUME MaxCallsAssumption == MaxCalls \in Nat
ASSUME SustainableAssumption == Sustainable \in BOOLEAN

VARIABLES pc,         \* where the program is
          M,          \* misses at DeltaSup: the arrays have indices 0..M
          delta_min,  \* smallest factor known to give exactly i misses
          delta_max,  \* largest factor known to give exactly i misses
          l,          \* index of the lower end of the interval (i of iter_bsearch)
          u,          \* index of the upper end of the interval
          slist,      \* every analysis made: its factor and its misses
          sa_time     \* number of calls of the schedulability analysis

vars == <<pc, M, delta_min, delta_max, l, u, slist, sa_time>>

Deltas == 0..DeltaSup
Misses == 0..MaxMisses
Analyses == [delta : Deltas, m : Misses]

TypeOK ==
  /\ pc \in {"start", "iterate", "bsearch", "done", "crashed"}
  /\ M \in Misses
  /\ pc = "start" => M = 0
  /\ pc # "start" => /\ delta_min \in [0..M -> Deltas]
                     /\ delta_max \in [0..M -> Deltas]
  /\ l \in 0..M
  /\ u \in 0..M
  /\ slist \in SUBSET Analyses
  /\ sa_time \in Nat

-----------------------------------------------------------------------------
Midpoint(low, high) == (low + high) \div 2

Smaller(a, b) == IF a <= b THEN a ELSE b
Larger(a, b) == IF a >= b THEN a ELSE b

(* The answers the analysis may give for delta after those in slist. *)
Possible(delta, m) ==
  /\ m \in Misses
  /\ Sustainable => \A a \in slist : /\ a.delta <= delta => a.m <= m
                                     /\ delta <= a.delta => m <= a.m

(* scale_input, nptest, sa_time + 1 and the count of misses in windows. *)
CalculateMisses(delta, m) ==
  /\ sa_time < MaxCalls
  /\ Possible(delta, m)
  /\ sa_time' = sa_time + 1

(* k is the index bsearch starts from: min_index goes on after the first   *)
(* index that has been found and overwrites cmin with every later one, so  *)
(* the last one below M wins, and M when there is none.                    *)
IsMinIndex(k, from) ==
  \/ k = M /\ \A i \in from..(M - 1) : delta_min[i] >= DeltaSup
  \/ /\ k \in from..(M - 1)
     /\ delta_min[k] < DeltaSup
     /\ \A i \in (k + 1)..(M - 1) : delta_min[i] >= DeltaSup

Gap == delta_min[u] - delta_max[l]

NarrowAtEpsilon == Gap <= Epsilon
NarrowAtTwiceEpsilon == Gap < 2 * Epsilon

(* bsearch stops halving. *)
Narrow == Gap < Epsilon

-----------------------------------------------------------------------------
(* delta_sup has been computed, with one call of the analysis when the     *)
(* utilization is below the cap and none otherwise.                        *)
Init ==
  /\ pc = "start"
  /\ M = 0
  /\ delta_min = <<>>
  /\ delta_max = <<>>
  /\ l = 0
  /\ u = 0
  /\ slist = {}
  /\ sa_time \in {0, 1}

(* The two arrays when there are m misses at delta_sup. *)
InitialMinTooShort(m) == [i \in 0..(m - 1) |-> IF i = 0 THEN 0 ELSE DeltaSup]
InitialMin(m) == [i \in 0..m |-> IF i = 0 THEN 0 ELSE DeltaSup]

InitialMax(m) == [i \in 0..m |-> IF i = m THEN DeltaSup ELSE 0]

(* The analysis at delta_sup fixes M and the two arrays. *)
Start ==
  /\ pc = "start"
  /\ \E m \in Misses :
       /\ CalculateMisses(DeltaSup, m)
       /\ M' = m
       /\ delta_min' = InitialMin(m)
       /\ delta_max' = InitialMax(m)
       /\ slist' = {[delta |-> DeltaSup, m |-> m]}
  /\ pc' = "iterate"
  /\ UNCHANGED <<l, u>>

(* iter_bsearch, i < m: the next interval. *)
NextInterval ==
  /\ pc = "iterate"
  /\ l < M
  /\ \E k \in (l + 1)..M : IsMinIndex(k, l + 1) /\ u' = k
  /\ pc' = "bsearch"
  /\ UNCHANGED <<M, delta_min, delta_max, l, slist, sa_time>>

(* iter_bsearch, i >= m: the tables are printed and the program ends. *)
Report ==
  /\ pc = "iterate"
  /\ l >= M
  /\ pc' = "done"
  /\ UNCHANGED <<M, delta_min, delta_max, l, u, slist, sa_time>>

ReturnSameIndex ==
  /\ pc = "bsearch"
  /\ Narrow
  /\ l' = l
  /\ pc' = "iterate"
  /\ UNCHANGED <<M, delta_min, delta_max, u, slist, sa_time>>

(* bsearch, the interval is narrow enough: its upper index is returned and *)
(* becomes the lower index of the next interval.                           *)
Return ==
  /\ pc = "bsearch"
  /\ Narrow
  /\ l' = u
  /\ pc' = "iterate"
  /\ UNCHANGED <<M, delta_min, delta_max, u, slist, sa_time>>

NextUpperAlways(m) == m
NextUpperNever(m) == u

(* bsearch, one halving. *)
NextUpper(m) == IF l = m THEN u ELSE m

RecordAtLower(mid, m) ==
  /\ delta_min' = [delta_min EXCEPT ![m] = Smaller(@, mid)]
  /\ delta_max' = [delta_max EXCEPT ![l] = Larger(@, mid)]
  /\ slist' = slist \cup {[delta |-> mid, m |-> m]}
  /\ u' = NextUpper(m)
RecordLatest(mid, m) ==
  /\ delta_min' = [delta_min EXCEPT ![m] = mid]
  /\ delta_max' = [delta_max EXCEPT ![m] = Larger(@, mid)]
  /\ slist' = slist \cup {[delta |-> mid, m |-> m]}
  /\ u' = NextUpper(m)

Record(mid, m) ==
  /\ delta_min' = [delta_min EXCEPT ![m] = Smaller(@, mid)]
  /\ delta_max' = [delta_max EXCEPT ![m] = Larger(@, mid)]
  /\ slist' = slist \cup {[delta |-> mid, m |-> m]}
  /\ u' = NextUpper(m)

Probe ==
  /\ pc = "bsearch"
  /\ ~Narrow
  /\ \E m \in 0..M :
       LET mid == Midpoint(delta_max[l], delta_min[u])
       IN  CalculateMisses(mid, m) /\ Record(mid, m)
  /\ UNCHANGED <<pc, M, l>>

(* bsearch, more misses than at delta_sup: the array index is out of       *)
(* bounds and the uncaught Invalid_argument ends the program.              *)
ProbeOutOfBounds ==
  /\ pc = "bsearch"
  /\ ~Narrow
  /\ \E m \in Misses \ 0..M :
       CalculateMisses(Midpoint(delta_max[l], delta_min[u]), m)
  /\ pc' = "crashed"
  /\ UNCHANGED <<M, delta_min, delta_max, l, u, slist>>

(* The process has ended. *)
Ended ==
  /\ pc \in {"done", "crashed"}
  /\ UNCHANGED vars

Next ==
  \/ Start
  \/ NextInterval
  \/ Report
  \/ Return
  \/ Probe
  \/ ProbeOutOfBounds
  \/ Ended

(* One thread; every nptest call returns, its own time limit is 1800 s. *)
Spec == Init /\ [][Next]_vars /\ WF_vars(Next)

-----------------------------------------------------------------------------
(* What is printed at the end. *)

SummaryRowsNotZero == {i \in 0..M : delta_min[i] # 0 /\ delta_max[i] # 0}

(* print_delta_min_max: the misses for which a margin is printed. *)
SummaryRows == {i \in 0..M : delta_min[i] # DeltaSup /\ delta_max[i] # 0}

(* print_sm: the analyses whose per-task misses are printed. *)
TableRows == {a \in slist : \E i \in 0..M : delta_max[i] = a.delta}

-----------------------------------------------------------------------------
(* Nothing is invented: every factor the arrays hold for i misses was      *)
(* analysed, and that analysis counted exactly i misses, whatever the      *)
(* analysis answers (bsearch writes both arrays at the answer's index).    *)
Witnessed ==
  pc # "start" =>
    \A i \in 0..M :
      /\ delta_max[i] # 0 => [delta |-> delta_max[i], m |-> i] \in slist
      /\ i # 0 /\ delta_min[i] # DeltaSup
           => [delta |-> delta_min[i], m |-> i] \in slist

(* Nothing is forgotten: every analysis lies between the two factors its   *)
(* number of misses has in the arrays, so delta_max.(i) is the largest     *)
(* factor ever seen to give i misses and delta_min.(i) the smallest.       *)
Bracketed ==
  \A a \in slist : /\ a.m <= M
                   /\ delta_min[a.m] <= a.delta
                   /\ a.delta <= delta_max[a.m]

(* The intervals of two numbers of misses do not touch: what i misses were *)
(* seen at is below all that more misses were seen at.  This is what makes *)
(* the half-way factor of bsearch lie strictly inside its interval.        *)
Separated ==
  pc # "start" => \A i, j \in 0..M : i < j => delta_max[i] < delta_min[j]

(* bsearch only ever works on a proper interval of indices of the arrays,  *)
(* and a sustainable analysis never drives it out of their bounds.         *)
InBounds ==
  /\ pc # "crashed"
  /\ pc = "bsearch" => l < u

(* The margins printed are tight: for every number of misses below M, some *)
(* analysis less than epsilon above the largest factor that was seen to    *)
(* give at most i misses gave more than i.  Also for the i that have no    *)
(* row of their own, although iter_bsearch skips indices.                  *)
Tight ==
  pc = "done" =>
    \A i \in 0..(M - 1) :
      \E a \in slist : /\ a.m > i
                      /\ \E j \in 0..i : a.delta < delta_max[j] + Epsilon

(* The per-task table and the summary tell the same story: each row of the *)
(* table is the margin of its own number of misses, and only the row of    *)
(* DeltaSup itself may have no counterpart in the summary.                 *)
TablesAgree ==
  pc = "done" =>
    /\ \A a \in TableRows : /\ a.delta = delta_max[a.m]
                            /\ a.m \in SummaryRows \/ a.delta = DeltaSup
    /\ \A i \in SummaryRows : \E a \in TableRows : a.m = i

(* Every call of the analysis by bsearch pays: it leaves at most half of   *)
(* the interval, rounded up to the grid.                                   *)
EveryProbeHalves ==
  [][pc = "bsearch" /\ pc' = "bsearch" => 2 * Gap' <= Gap + 1]_vars

(* The search ends with its tables printed. *)
Terminates == <>(pc = "done")

(* The search is a sensitivity analysis in the sense of MarginTable: every *)
(* probe lies inside an interval still too wide, the tables are printed    *)
(* only when no such interval is left, and they hold the largest factors.  *)
Promise == INSTANCE MarginTable WITH
  Top <- DeltaSup,
  Tolerance <- Epsilon,
  known <- slist,
  published <- (pc = "done"),
  margins <- IF pc = "done" THEN [i \in SummaryRows |-> delta_max[i]] ELSE <<>>

ImplementsMarginTable == Promise!Spec

-----------------------------------------------------------------------------
(* The inductive invariant behind the properties above, for a sustainable  *)
(* analysis: see DeltaSearch_proofs.                                       *)

(* More execution time never gave fewer misses, and factors are positive. *)
Ordered ==
  /\ \A a \in slist : a.delta > 0
  /\ \A a, b \in slist : a.delta <= b.delta => a.m <= b.m

(* The analysis at DeltaSup is the upper end, nothing is below 0. *)
Ends ==
  pc # "start" => /\ [delta |-> DeltaSup, m |-> M] \in slist
                  /\ delta_max[M] = DeltaSup
                  /\ delta_min[0] = 0

(* Both ends of the interval at hand have been analysed, or are 0 and M. *)
Placed ==
  pc # "start" =>
    /\ l # 0 => delta_max[l] # 0
    /\ pc = "bsearch" /\ u # M => delta_min[u] # DeltaSup

(* Tight, for the numbers of misses the search has already passed. *)
TightSoFar ==
  pc # "start" =>
    \A i \in 0..(l - 1) :
      \E a \in slist : /\ a.m > i
                      /\ \E j \in 0..i : a.delta < delta_max[j] + Epsilon

IInv ==
  /\ TypeOK /\ Witnessed /\ Bracketed /\ Separated /\ InBounds
  /\ Ordered /\ Ends /\ Placed /\ TightSoFar
  /\ pc = "start" => slist = {}
  /\ pc = "done" => l = M

=============================================================================
