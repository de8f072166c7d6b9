------------------------- MODULE DeltaSearch_proofs -------------------------
(***************************************************************************)
(* Proofs about the margin search of DeltaSearch, for every delta_sup,     *)
(* epsilon and number of misses.  TypeCorrect, WitnessedAlways and         *)
(* ProbesHalve hold whatever the schedulability analysis answers; the rest *)
(* needs a sustainable analysis and follows from the inductive invariant   *)
(* IInv.                                                                   *)
(***************************************************************************)
EXTENDS DeltaSearch, TLAPS

(* The half-way factor of two factors on the grid is on the grid. *)
LEMMA MidpointInDeltas ==
  ASSUME NEW a \in Deltas, NEW b \in Deltas
  PROVE  Midpoint(a, b) \in Deltas
BY DeltaSupAssumption DEF Midpoint, Deltas

(* Two factors at least two grid steps apart have the half-way factor      *)
(* strictly between them, and neither half is more than half the distance. *)
LEMMA MidpointBetween ==
  ASSUME NEW a \in Int, NEW b \in Int, b - a >= 2
  PROVE  /\ Midpoint(a, b) \in Int
         /\ a < Midpoint(a, b) /\ Midpoint(a, b) < b
         /\ 2 * (Midpoint(a, b) - a) <= b - a
         /\ 2 * (b - Midpoint(a, b)) <= b - a + 1
BY DEF Midpoint

(* Every step keeps every variable in its type, whatever is answered. *)
LEMMA TypeStep == TypeOK /\ [Next]_vars => TypeOK'
<1> SUFFICES ASSUME TypeOK, [Next]_vars PROVE TypeOK'
  OBVIOUS
<1> USE DEF TypeOK
<1>1. CASE Start
  <2>1. PICK m \in Misses :
          /\ CalculateMisses(DeltaSup, m)
          /\ M' = m
          /\ delta_min' = [i \in 0..m |-> IF i = 0 THEN 0 ELSE DeltaSup]
          /\ delta_max' = [i \in 0..m |-> IF i = m THEN DeltaSup ELSE 0]
          /\ slist' = {[delta |-> DeltaSup, m |-> m]}
    BY <1>1 DEF Start, InitialMin, InitialMax
  <2>2. 0 \in Deltas /\ DeltaSup \in Deltas
    BY DeltaSupAssumption DEF Deltas
  <2>3. delta_min' \in [0..M' -> Deltas] /\ delta_max' \in [0..M' -> Deltas]
    BY <2>1, <2>2
  <2>4. slist' \in SUBSET Analyses
    BY <2>1, <2>2 DEF Analyses
  <2>5. M' \in Misses /\ pc' = "iterate" /\ l' = l /\ u' = u /\ l = 0 /\ u = 0
    BY <1>1, <2>1 DEF Start, InitialMin, InitialMax
  <2>6. sa_time' \in Nat
    BY <2>1 DEF CalculateMisses
  <2> QED BY <2>3, <2>4, <2>5, <2>6, MaxMissesAssumption DEF Misses
<1>2. CASE NextInterval
  BY <1>2 DEF NextInterval
<1>3. CASE Report
  BY <1>3 DEF Report
<1>4. CASE Return
  BY <1>4 DEF Return
<1>5. CASE Probe
  <2> DEFINE mid == Midpoint(delta_max[l], delta_min[u])
  <2>1. PICK m \in 0..M : CalculateMisses(mid, m) /\ Record(mid, m)
    BY <1>5 DEF Probe
  <2>2. /\ delta_min \in [0..M -> Deltas]
        /\ delta_max \in [0..M -> Deltas]
        /\ UNCHANGED <<pc, M, l>>
    BY <1>5 DEF Probe
  <2>3. mid \in Deltas
    BY <2>2, MidpointInDeltas
  <2> HIDE DEF mid
  <2>4. Smaller(delta_min[m], mid) \in Deltas /\ Larger(delta_max[m], mid) \in Deltas
    BY <2>2, <2>3 DEF Smaller, Larger
  <2>5. delta_min' \in [0..M -> Deltas] /\ delta_max' \in [0..M -> Deltas]
    BY <2>1, <2>2, <2>4 DEF Record
  <2>6. slist' \in SUBSET Analyses /\ sa_time' \in Nat
    BY <2>1, <2>3 DEF Record, CalculateMisses, Possible, Analyses
  <2>7. u' \in 0..M
    BY <2>1 DEF Record, NextUpper
  <2> QED BY <2>2, <2>5, <2>6, <2>7
<1>6. CASE ProbeOutOfBounds
  BY <1>6 DEF ProbeOutOfBounds, CalculateMisses
<1>7. CASE UNCHANGED vars
  BY <1>7 DEF vars
<1>8. CASE Ended
  BY <1>8 DEF Ended, vars
<1> QED
  BY <1>1, <1>2, <1>3, <1>4, <1>5, <1>6, <1>7, <1>8 DEF Next

LEMMA TypeInit == Init => TypeOK
BY MaxMissesAssumption DEF Init, TypeOK, Misses

(* The arrays always have the indices 0..M and hold factors between 0 and  *)
(* delta_sup, and l and u stay inside them.                                *)
THEOREM TypeCorrect == Spec => []TypeOK
<1>1. Init => TypeOK
  BY TypeInit
<1>2. TypeOK /\ [Next]_vars => TypeOK'
  BY TypeStep
<1> QED BY <1>1, <1>2, PTL DEF Spec

-----------------------------------------------------------------------------
(* A step keeps every array entry backed by an analysis of as many misses. *)
LEMMA WitnessedStep == TypeOK /\ Witnessed /\ [Next]_vars => Witnessed'
<1> SUFFICES ASSUME TypeOK, Witnessed, [Next]_vars PROVE Witnessed'
  OBVIOUS
<1>1. CASE Start
  <2>1. PICK m \in Misses :
          /\ M' = m
          /\ delta_min' = [i \in 0..m |-> IF i = 0 THEN 0 ELSE DeltaSup]
          /\ delta_max' = [i \in 0..m |-> IF i = m THEN DeltaSup ELSE 0]
          /\ slist' = {[delta |-> DeltaSup, m |-> m]}
    BY <1>1 DEF Start, InitialMin, InitialMax
  <2> QED BY <2>1 DEF Witnessed
<1>2. CASE Probe
  <2> DEFINE mid == Midpoint(delta_max[l], delta_min[u])
  <2>1. PICK m \in 0..M : Record(mid, m)
    BY <1>2 DEF Probe
  <2>2. pc = "bsearch" /\ M' = M
    BY <1>2 DEF Probe
  <2> HIDE DEF mid
  <2>3. SUFFICES ASSUME NEW i \in 0..M
                 PROVE  /\ delta_max'[i] # 0 => [delta |-> delta_max'[i], m |-> i] \in slist'
                        /\ i # 0 /\ delta_min'[i] # DeltaSup
                             => [delta |-> delta_min'[i], m |-> i] \in slist'
    BY <2>2 DEF Witnessed
  <2>4. delta_max'[i] = delta_max[i] \/ (i = m /\ delta_max'[i] = mid)
    BY <2>1, <2>2 DEF Record, Larger, TypeOK
  <2>5. delta_min'[i] = delta_min[i] \/ (i = m /\ delta_min'[i] = mid)
    BY <2>1, <2>2 DEF Record, Smaller, TypeOK
  <2>6. slist' = slist \cup {[delta |-> mid, m |-> m]}
    BY <2>1 DEF Record
  <2> QED BY <2>2, <2>4, <2>5, <2>6 DEF Witnessed
<1>3. ASSUME NextInterval \/ Report \/ Return \/ ProbeOutOfBounds \/ Ended \/ UNCHANGED vars
      PROVE  Witnessed'
  BY <1>3 DEF NextInterval, Report, Return, ProbeOutOfBounds, Ended, vars, Witnessed
<1> QED BY <1>1, <1>2, <1>3 DEF Next

(* Whatever the schedulability analysis answers, also when it answers less *)
(* for longer execution times, each factor in the arrays was analysed and  *)
(* counted as many misses as its index says.                               *)
THEOREM WitnessedAlways == Spec => []Witnessed
<1>1. Init => Witnessed
  BY DEF Init, Witnessed
<1>2. TypeOK /\ Witnessed /\ [Next]_vars => Witnessed'
  BY WitnessedStep
<1> QED BY <1>1, <1>2, TypeCorrect, PTL DEF Spec

-----------------------------------------------------------------------------
HalfWay == Midpoint(delta_max[l], delta_min[u])

(* The factor bsearch analyses lies strictly inside its interval, and a    *)
(* sustainable analysis answers with an index of that interval.            *)
LEMMA ProbeStaysInside ==
  ASSUME Sustainable, IInv, pc = "bsearch", ~Narrow,
         NEW m \in Misses, Possible(HalfWay, m)
  PROVE  /\ HalfWay \in Deltas
         /\ delta_max[l] < HalfWay /\ HalfWay < delta_min[u]
         /\ l <= m /\ m <= u
<1> USE DEF Deltas, Misses
<1>1. /\ M \in Nat /\ l \in 0..M /\ u \in 0..M /\ l < u
      /\ delta_min \in [0..M -> Deltas] /\ delta_max \in [0..M -> Deltas]
  BY MaxMissesAssumption DEF IInv, TypeOK, InBounds
<1>2. delta_min[u] - delta_max[l] >= 2
  BY <1>1, EpsilonAssumption, DeltaSupAssumption DEF Narrow, Gap
<1>3. HalfWay \in Deltas /\ delta_max[l] < HalfWay /\ HalfWay < delta_min[u]
  <2>1. delta_max[l] \in Int /\ delta_min[u] \in Int
    BY <1>1, DeltaSupAssumption
  <2>2. delta_max[l] < HalfWay /\ HalfWay < delta_min[u]
    BY <1>2, <2>1, MidpointBetween DEF HalfWay
  <2>3. HalfWay \in Deltas
    BY <1>1, MidpointInDeltas DEF HalfWay
  <2> QED BY <2>2, <2>3
<1>4. ASSUME NEW d, NEW i, [delta |-> d, m |-> i] \in slist
      PROVE  /\ d <= HalfWay => i <= m
             /\ HalfWay <= d => m <= i
  BY <1>4 DEF Possible
<1>5. l <= m
  <2>1. CASE l = 0
    BY <2>1, MaxMissesAssumption
  <2>2. CASE l # 0
    <3>1. [delta |-> delta_max[l], m |-> l] \in slist
      BY <2>2, <1>1 DEF IInv, Placed, Witnessed
    <3>2. delta_max[l] <= HalfWay
      BY <1>1, <1>3, DeltaSupAssumption
    <3> QED BY <3>1, <3>2, <1>4
  <2> QED BY <2>1, <2>2
<1>6. m <= u
  <2>1. CASE delta_min[u] = DeltaSup
    <3>1. u = M
      BY <2>1 DEF IInv, Placed
    <3>2. [delta |-> DeltaSup, m |-> M] \in slist
      BY DEF IInv, Ends
    <3>3. HalfWay <= DeltaSup
      BY <1>1, <1>3, DeltaSupAssumption
    <3> QED BY <3>1, <3>2, <3>3, <1>4
  <2>2. CASE delta_min[u] # DeltaSup
    <3>1. u # 0
      BY <1>1
    <3>2. [delta |-> delta_min[u], m |-> u] \in slist
      BY <2>2, <3>1, <1>1 DEF IInv, Witnessed
    <3>3. HalfWay <= delta_min[u]
      BY <1>1, <1>3, DeltaSupAssumption
    <3> QED BY <3>2, <3>3, <1>4
  <2> QED BY <2>1, <2>2
<1> QED BY <1>3, <1>5, <1>6

(* So the out-of-bounds write of bsearch cannot happen. *)
LEMMA NoProbeOutOfBounds == Sustainable /\ IInv => ~ProbeOutOfBounds
<1> SUFFICES ASSUME Sustainable, IInv, ProbeOutOfBounds PROVE FALSE
  OBVIOUS
<1>1. PICK m \in Misses \ 0..M : Possible(HalfWay, m)
  BY DEF ProbeOutOfBounds, CalculateMisses, HalfWay
<1>2. l <= m /\ m <= u
  BY <1>1, ProbeStaysInside DEF ProbeOutOfBounds
<1> QED BY <1>1, <1>2, MaxMissesAssumption DEF IInv, TypeOK, Misses

-----------------------------------------------------------------------------
(* What one halving does to the arrays and to slist. *)
LEMMA RecordEffect ==
  ASSUME TypeOK, pc # "start", NEW mid \in Deltas, NEW m \in 0..M, Record(mid, m)
  PROVE  /\ slist' = slist \cup {[delta |-> mid, m |-> m]}
         /\ u' = NextUpper(m)
         /\ \A i \in 0..M : i # m => /\ delta_min'[i] = delta_min[i]
                                    /\ delta_max'[i] = delta_max[i]
         /\ delta_min'[m] \in {delta_min[m], mid}
         /\ delta_max'[m] \in {delta_max[m], mid}
         /\ delta_min'[m] <= delta_min[m] /\ delta_min'[m] <= mid
         /\ delta_max'[m] >= delta_max[m] /\ delta_max'[m] >= mid
<1>1. /\ delta_min \in [0..M -> Deltas] /\ delta_max \in [0..M -> Deltas]
      /\ mid \in Int /\ delta_min[m] \in Int /\ delta_max[m] \in Int
  BY DeltaSupAssumption DEF TypeOK, Deltas
<1>2. delta_min'[m] = Smaller(delta_min[m], mid) /\ delta_max'[m] = Larger(delta_max[m], mid)
  BY <1>1 DEF Record
<1>3. \A i \in 0..M : i # m => /\ delta_min'[i] = delta_min[i]
                             /\ delta_max'[i] = delta_max[i]
  BY <1>1 DEF Record
<1> QED BY <1>1, <1>2, <1>3 DEF Record, Smaller, Larger

(* A halving between the two ends of the interval keeps the invariant. *)
LEMMA ProbeKeepsIInv ==
  ASSUME Sustainable, IInv, Probe, TypeOK', Witnessed'
  PROVE  IInv'
<1>1. PICK m \in 0..M : CalculateMisses(HalfWay, m) /\ Record(HalfWay, m)
  BY DEF Probe, HalfWay
<1>2. /\ pc = "bsearch" /\ ~Narrow
      /\ pc' = pc /\ M' = M /\ l' = l
  BY DEF Probe
<1>3. /\ M \in Nat /\ l \in 0..M /\ u \in 0..M /\ l < u
      /\ slist \in SUBSET Analyses
      /\ \A i \in 0..M : delta_min[i] \in Int /\ delta_max[i] \in Int
      /\ \A i \in 0..M : delta_min[i] <= DeltaSup /\ 0 <= delta_max[i]
  BY <1>2, MaxMissesAssumption, DeltaSupAssumption
     DEF IInv, TypeOK, InBounds, Misses, Deltas
<1>4. Possible(HalfWay, m) /\ m \in Misses
  BY <1>1 DEF CalculateMisses, Possible
<1>5. /\ HalfWay \in Deltas
      /\ delta_max[l] < HalfWay /\ HalfWay < delta_min[u]
      /\ l <= m /\ m <= u
  BY <1>2, <1>4, ProbeStaysInside
<1>6. HalfWay \in Int /\ 0 < HalfWay /\ HalfWay < DeltaSup
  BY <1>3, <1>5, DeltaSupAssumption DEF Deltas
<1>7. /\ slist' = slist \cup {[delta |-> HalfWay, m |-> m]}
      /\ u' = NextUpper(m)
      /\ \A i \in 0..M : i # m => /\ delta_min'[i] = delta_min[i]
                                 /\ delta_max'[i] = delta_max[i]
      /\ delta_min'[m] \in {delta_min[m], HalfWay}
      /\ delta_max'[m] \in {delta_max[m], HalfWay}
      /\ delta_min'[m] <= delta_min[m] /\ delta_min'[m] <= HalfWay
      /\ delta_max'[m] >= delta_max[m] /\ delta_max'[m] >= HalfWay
  BY <1>1, <1>2, <1>5, RecordEffect DEF IInv
<1>8. ASSUME NEW a \in slist
      PROVE  /\ a.delta <= HalfWay => a.m <= m
             /\ HalfWay <= a.delta => m <= a.m
  BY <1>4 DEF Possible
<1>8a. ASSUME NEW d, NEW i, [delta |-> d, m |-> i] \in slist
      PROVE  /\ d <= HalfWay => i <= m
             /\ HalfWay <= d => m <= i
  BY <1>8, <1>8a
<1>9. \A i \in 0..M : /\ delta_min'[i] \in Int /\ delta_max'[i] \in Int
                     /\ delta_min'[i] <= delta_min[i]
                     /\ delta_max[i] <= delta_max'[i]
  BY <1>3, <1>6, <1>7
<1> HIDE DEF HalfWay
<1>10. Bracketed'
  <2> SUFFICES ASSUME NEW a \in slist'
               PROVE  a.m <= M /\ delta_min'[a.m] <= a.delta /\ a.delta <= delta_max'[a.m]
    BY <1>2 DEF Bracketed
  <2>1. CASE a \in slist
    <3>1. a.m \in 0..M /\ a.delta \in Int /\ a.m <= M
          /\ delta_min[a.m] <= a.delta /\ a.delta <= delta_max[a.m]
      BY <2>1, <1>3, DeltaSupAssumption, MaxMissesAssumption
         DEF IInv, Bracketed, Analyses, Misses, Deltas
    <3> QED BY <3>1, <1>3, <1>9
  <2>2. CASE a = [delta |-> HalfWay, m |-> m]
    BY <2>2, <1>3, <1>6, <1>7
  <2> QED BY <1>7, <2>1, <2>2
<1>11. Ordered'
  <2>1. \A a \in slist' : a.delta > 0
    BY <1>6, <1>7 DEF IInv, Ordered
  <2>2. ASSUME NEW a \in slist', NEW b \in slist', a.delta <= b.delta
        PROVE  a.m <= b.m
    <3>1. CASE a \in slist /\ b \in slist
      BY <3>1, <2>2 DEF IInv, Ordered
    <3>2. CASE a \in slist /\ b = [delta |-> HalfWay, m |-> m]
      <4>1. a.delta <= HalfWay /\ b.m = m
        BY <3>2, <2>2
      <4> QED BY <4>1, <3>2, <1>8
    <3>3. CASE b \in slist /\ a = [delta |-> HalfWay, m |-> m]
      <4>1. HalfWay <= b.delta /\ a.m = m
        BY <3>3, <2>2
      <4> QED BY <4>1, <3>3, <1>8
    <3>4. CASE a = [delta |-> HalfWay, m |-> m] /\ b = [delta |-> HalfWay, m |-> m]
      BY <3>4, <1>3
    <3> QED BY <1>7, <3>1, <3>2, <3>3, <3>4
  <2> QED BY <2>1, <2>2 DEF Ordered
<1>12. Separated'
  <2> SUFFICES ASSUME NEW i \in 0..M, NEW j \in 0..M, i < j
               PROVE  delta_max'[i] < delta_min'[j]
    BY <1>2 DEF Separated
  <2>1. delta_max[i] < delta_min[j]
    BY <1>2 DEF IInv, Separated
  <2>2. ASSUME j = m PROVE delta_max[i] < HalfWay
    <3>1. CASE delta_max[i] = 0
      BY <3>1, <1>6
    <3>2. CASE delta_max[i] # 0
      <4>1. [delta |-> delta_max[i], m |-> i] \in slist
        BY <3>2, <1>2 DEF IInv, Witnessed
      <4>2. HalfWay <= delta_max[i] => m <= i
        BY <4>1, <1>8a
      <4> QED BY <4>2, <2>2, <1>3, <1>6
    <3> QED BY <3>1, <3>2
  <2>3. ASSUME i = m PROVE HalfWay < delta_min[j]
    <3>1. CASE delta_min[j] = DeltaSup
      BY <3>1, <1>6
    <3>2. CASE delta_min[j] # DeltaSup
      <4>1. j # 0
        BY <1>3
      <4>2. [delta |-> delta_min[j], m |-> j] \in slist
        BY <3>2, <4>1, <1>2 DEF IInv, Witnessed
      <4>3. delta_min[j] <= HalfWay => j <= m
        BY <4>2, <1>8a
      <4> QED BY <4>3, <2>3, <1>3, <1>6
    <3> QED BY <3>1, <3>2
  <2>4. CASE i = m
    <3>1. delta_min'[j] = delta_min[j]
      BY <2>4, <1>7, <1>3
    <3> QED BY <2>1, <2>3, <2>4, <3>1, <1>7
  <2>5. CASE j = m
    <3>1. delta_max'[i] = delta_max[i]
      BY <2>5, <1>7, <1>3
    <3> QED BY <2>1, <2>2, <2>5, <3>1, <1>7
  <2>6. CASE i # m /\ j # m
    BY <2>1, <2>6, <1>7
  <2> QED BY <2>4, <2>5, <2>6
<1>13. InBounds'
  BY <1>2, <1>3, <1>5, <1>7 DEF InBounds, NextUpper
<1>14. Ends'
  <2>1. [delta |-> DeltaSup, m |-> M] \in slist /\ delta_max[M] = DeltaSup /\ delta_min[0] = 0
    BY <1>2 DEF IInv, Ends
  <2>2. 0 \in 0..M /\ M \in 0..M
    BY <1>3
  <2>3. delta_max'[M] = DeltaSup
    <3>1. CASE M = m
      BY <3>1, <1>6, <1>7, <2>1, DeltaSupAssumption
    <3>2. CASE M # m
      BY <3>2, <1>7, <2>1, <2>2
    <3> QED BY <3>1, <3>2
  <2>4. delta_min'[0] = 0
    BY <1>6, <1>7, <2>1, <2>2
  <2> QED BY <2>1, <2>3, <2>4, <1>2, <1>7 DEF Ends
<1>15. Placed'
  <2>1. l # 0 => delta_max'[l] # 0
    BY <1>2, <1>3, <1>9 DEF IInv, Placed
  <2>2. u' # M => delta_min'[u'] # DeltaSup
    <3>1. CASE u' = m
      <4>1. delta_min'[m] <= HalfWay /\ delta_min'[m] \in Int
        BY <1>7, <1>9
      <4> QED BY <3>1, <4>1, <1>6, DeltaSupAssumption
    <3>2. CASE u' = u /\ u # m
      BY <3>2, <1>2, <1>3, <1>7 DEF IInv, Placed
    <3> QED BY <3>1, <3>2, <1>7 DEF NextUpper
  <2> QED BY <2>1, <2>2, <1>2 DEF Placed
<1>16. TightSoFar'
  <2> SUFFICES ASSUME NEW i \in 0..(l - 1)
               PROVE  \E a \in slist' : /\ a.m > i
                                       /\ \E j \in 0..i : a.delta < delta_max'[j] + Epsilon
    BY <1>2 DEF TightSoFar
  <2>1. PICK a \in slist : a.m > i /\ \E j \in 0..i : a.delta < delta_max[j] + Epsilon
    BY <1>2 DEF IInv, TightSoFar
  <2>2. PICK j \in 0..i : a.delta < delta_max[j] + Epsilon
    BY <2>1
  <2>3. j \in 0..M /\ a.delta \in Int
    BY <1>3, DeltaSupAssumption DEF Analyses, Deltas
  <2>4. a.delta < delta_max'[j] + Epsilon
    BY <2>2, <2>3, <1>3, <1>9, EpsilonAssumption
  <2> QED BY <2>1, <2>4, <1>7
<1> QED
  BY <1>2, <1>10, <1>11, <1>12, <1>13, <1>14, <1>15, <1>16 DEF IInv

(* The analysis at delta_sup establishes the invariant. *)
LEMMA StartKeepsIInv ==
  ASSUME IInv, Start, TypeOK', Witnessed'
  PROVE  IInv'
<1>1. PICK m \in Misses :
        /\ M' = m
        /\ delta_min' = [i \in 0..m |-> IF i = 0 THEN 0 ELSE DeltaSup]
        /\ delta_max' = [i \in 0..m |-> IF i = m THEN DeltaSup ELSE 0]
        /\ slist' = {[delta |-> DeltaSup, m |-> m]}
  BY DEF Start, InitialMin, InitialMax
<1>2. pc' = "iterate" /\ l' = 0 /\ u' = 0 /\ m \in Nat
  BY MaxMissesAssumption DEF Start, InitialMin, InitialMax, IInv, TypeOK, Misses
<1>3. \A i \in 0..m : /\ delta_min'[i] = IF i = 0 THEN 0 ELSE DeltaSup
                     /\ delta_max'[i] = IF i = m THEN DeltaSup ELSE 0
  BY <1>1
<1>4. 0 \in 0..m /\ m \in 0..m
  BY <1>2
<1>5. Bracketed' /\ Ordered'
  BY <1>1, <1>2, <1>3, <1>4, DeltaSupAssumption DEF Bracketed, Ordered
<1>6. Separated'
  BY <1>1, <1>2, <1>3, DeltaSupAssumption DEF Separated
<1>7. InBounds' /\ Ends' /\ Placed' /\ TightSoFar'
  BY <1>1, <1>2, <1>3, <1>4 DEF InBounds, Ends, Placed, TightSoFar
<1> QED BY <1>2, <1>5, <1>6, <1>7 DEF IInv

(* Choosing the next interval keeps the invariant: its upper end has been  *)
(* found or is M, and lies above l.                                        *)
LEMMA NextIntervalKeepsIInv ==
  ASSUME IInv, NextInterval, TypeOK', Witnessed'
  PROVE  IInv'
<1>1. PICK k \in (l + 1)..M : IsMinIndex(k, l + 1) /\ u' = k
  BY DEF NextInterval
<1>2. /\ pc = "iterate" /\ pc' = "bsearch"
      /\ UNCHANGED <<M, delta_min, delta_max, l, slist>>
  BY DEF NextInterval
<1>3. M \in Nat /\ l \in 0..M
  BY MaxMissesAssumption DEF IInv, TypeOK, Misses
<1>4. Bracketed' /\ Separated' /\ Ordered' /\ Ends' /\ TightSoFar'
  BY <1>2 DEF IInv, Bracketed, Separated, Ordered, Ends, TightSoFar
<1>5. InBounds'
  BY <1>1, <1>2, <1>3 DEF InBounds
<1>6. u' # M => delta_min[u'] # DeltaSup
  <2>1. k # M => delta_min[k] < DeltaSup
    BY <1>1 DEF IsMinIndex
  <2>2. k \in 0..M
    BY <1>1, <1>3
  <2>3. delta_min[k] \in Int
    BY <1>2, <2>2, DeltaSupAssumption DEF IInv, TypeOK, Deltas
  <2> QED BY <1>1, <2>1, <2>3, DeltaSupAssumption
<1>7. Placed'
  BY <1>2, <1>6 DEF IInv, Placed
<1> QED BY <1>2, <1>4, <1>5, <1>7 DEF IInv

(* Closing an interval keeps the invariant: its upper end was analysed,    *)
(* counts more misses than every index passed, and lies less than epsilon  *)
(* above the largest factor known for the lower index.                     *)
LEMMA ReturnKeepsIInv ==
  ASSUME IInv, Return, TypeOK', Witnessed'
  PROVE  IInv'
<1>1. /\ pc = "bsearch" /\ pc' = "iterate" /\ Narrow /\ l' = u
      /\ UNCHANGED <<M, delta_min, delta_max, u, slist>>
  BY DEF Return
<1>2. M \in Nat /\ l \in 0..M /\ u \in 0..M /\ l < u
  BY <1>1, MaxMissesAssumption DEF IInv, TypeOK, InBounds, Misses
<1>3. /\ delta_min \in [0..M -> Deltas] /\ delta_max \in [0..M -> Deltas]
      /\ delta_min[u] \in Int /\ delta_max[l] \in Int /\ delta_max[u] \in Int
  BY <1>1, <1>2, DeltaSupAssumption DEF IInv, TypeOK, Deltas
<1>4. [delta |-> delta_min[u], m |-> u] \in slist
  <2>1. CASE delta_min[u] = DeltaSup
    BY <2>1, <1>1 DEF IInv, Placed, Ends
  <2>2. CASE delta_min[u] # DeltaSup
    <3>1. u # 0
      BY <1>2
    <3> QED BY <2>2, <3>1, <1>1, <1>2 DEF IInv, Witnessed
  <2> QED BY <2>1, <2>2
<1>5. Bracketed' /\ Separated' /\ Ordered' /\ Ends' /\ InBounds'
  BY <1>1 DEF IInv, Bracketed, Separated, Ordered, Ends, InBounds
<1>6. Placed'
  <2> DEFINE a == [delta |-> delta_min[u], m |-> u]
  <2>1. a.delta > 0 /\ a.delta <= delta_max[a.m]
    BY <1>4 DEF IInv, Ordered, Bracketed
  <2>2. delta_max[u] # 0
    BY <2>1, <1>3
  <2> QED BY <1>1, <2>2 DEF Placed
<1>7. TightSoFar'
  <2> SUFFICES ASSUME NEW i \in 0..(u - 1)
               PROVE  \E a \in slist : /\ a.m > i
                                      /\ \E j \in 0..i : a.delta < delta_max[j] + Epsilon
    BY <1>1 DEF TightSoFar
  <2>1. CASE i \in 0..(l - 1)
    BY <2>1, <1>1 DEF IInv, TightSoFar
  <2>2. CASE i >= l
    <3>1. l \in 0..i /\ u > i
      BY <2>2, <1>2
    <3>2. delta_min[u] < delta_max[l] + Epsilon
      BY <1>1, <1>3, EpsilonAssumption DEF Narrow, Gap
    <3> DEFINE a == [delta |-> delta_min[u], m |-> u]
    <3>3. a.m > i /\ a.delta < delta_max[l] + Epsilon
      BY <3>1, <3>2
    <3> HIDE DEF a
    <3>4. a \in slist
      BY <1>4 DEF a
    <3> QED BY <3>1, <3>3, <3>4
  <2> QED BY <1>2, <2>1, <2>2
<1> QED BY <1>1, <1>5, <1>6, <1>7 DEF IInv

LEMMA IInvInit == Init => IInv
<1> SUFFICES ASSUME Init PROVE IInv
  OBVIOUS
<1>1. TypeOK
  BY TypeInit
<1> QED
  BY <1>1 DEF Init, IInv, Witnessed, Bracketed, Separated, InBounds, Ordered,
              Ends, Placed, TightSoFar

(* With a sustainable analysis every step keeps the invariant. *)
LEMMA IInvStep ==
  ASSUME Sustainable
  PROVE  IInv /\ [Next]_vars => IInv'
<1> SUFFICES ASSUME IInv, [Next]_vars PROVE IInv'
  OBVIOUS
<1>0. TypeOK' /\ Witnessed'
  BY TypeStep, WitnessedStep DEF IInv
<1>1. CASE Start
  BY <1>0, <1>1, StartKeepsIInv
<1>2. CASE NextInterval
  BY <1>0, <1>2, NextIntervalKeepsIInv
<1>3. CASE Return
  BY <1>0, <1>3, ReturnKeepsIInv
<1>4. CASE Probe
  BY <1>0, <1>4, ProbeKeepsIInv
<1>5. CASE ProbeOutOfBounds
  BY <1>5, NoProbeOutOfBounds
<1>6. CASE Report
  <2>1. /\ pc = "iterate" /\ pc' = "done" /\ l >= M
        /\ UNCHANGED <<M, delta_min, delta_max, l, u, slist>>
    BY <1>6 DEF Report
  <2>2. l = M
    BY <2>1, MaxMissesAssumption DEF IInv, TypeOK, Misses
  <2> QED
    BY <1>0, <2>1, <2>2 DEF IInv, Bracketed, Separated, InBounds, Ordered, Ends,
                            Placed, TightSoFar
<1>7. CASE Ended \/ UNCHANGED vars
  BY <1>0, <1>7 DEF Ended, vars, IInv, Bracketed, Separated, InBounds, Ordered,
                    Ends, Placed, TightSoFar
<1> QED BY <1>1, <1>2, <1>3, <1>4, <1>5, <1>6, <1>7 DEF Next

(* A sustainable analysis: IInv holds throughout iter_bsearch and bsearch. *)
THEOREM Invariance ==
  ASSUME Sustainable
  PROVE  Spec => []IInv
<1>1. Init => IInv
  BY IInvInit
<1>2. IInv /\ [Next]_vars => IInv'
  BY IInvStep
<1> QED BY <1>1, <1>2, PTL DEF Spec

-----------------------------------------------------------------------------
(* A sustainable analysis: every answer lies between delta_min and         *)
(* delta_max of its number of misses.                                      *)
THEOREM AlwaysBracketed == ASSUME Sustainable PROVE Spec => []Bracketed
<1>1. IInv => Bracketed
  BY DEF IInv
<1> QED BY <1>1, Invariance, PTL

(* A sustainable analysis: the intervals of different numbers of misses    *)
(* stay apart.                                                             *)
THEOREM AlwaysSeparated == ASSUME Sustainable PROVE Spec => []Separated
<1>1. IInv => Separated
  BY DEF IInv
<1> QED BY <1>1, Invariance, PTL

(* A sustainable analysis: bsearch never writes outside the arrays and     *)
(* never works on an empty interval of indices.                            *)
THEOREM AlwaysInBounds == ASSUME Sustainable PROVE Spec => []InBounds
<1>1. IInv => InBounds
  BY DEF IInv
<1> QED BY <1>1, Invariance, PTL

(* A sustainable analysis: the margins found are within epsilon of the     *)
(* best ones, for every number of misses below M.                          *)
THEOREM AlwaysTight == ASSUME Sustainable PROVE Spec => []Tight
<1>1. IInv => Tight
  BY DEF IInv, TightSoFar, Tight
<1> QED BY <1>1, Invariance, PTL

(* A sustainable analysis: the two printed tables agree, but for the row   *)
(* of delta_sup.                                                           *)
THEOREM TablesAlwaysAgree == ASSUME Sustainable PROVE Spec => []TablesAgree
<1>1. IInv => TablesAgree
  <2> SUFFICES ASSUME IInv, pc = "done" PROVE TablesAgree
    BY DEF TablesAgree
  <2>0. /\ M \in Nat
        /\ \A i \in 0..M : delta_max[i] \in Int
        /\ \A a \in slist : a \in Analyses /\ a.delta \in 0..DeltaSup /\ a.m \in 0..M
    BY MaxMissesAssumption, DeltaSupAssumption
       DEF IInv, TypeOK, Bracketed, Analyses, Deltas, Misses
  <2>1. ASSUME NEW a \in TableRows
        PROVE  /\ a.delta = delta_max[a.m]
               /\ a.m \in SummaryRows \/ a.delta = DeltaSup
    <3>1. PICK i \in 0..M : a \in slist /\ delta_max[i] = a.delta
      BY DEF TableRows
    <3>2. a.delta > 0
      BY <3>1 DEF IInv, Ordered
    <3>3. [delta |-> delta_max[i], m |-> i] \in slist
      <4>1. delta_max[i] # 0
        BY <2>0, <3>1, <3>2
      <4> QED BY <3>1, <4>1 DEF IInv, Witnessed
    <3>4. a.m <= i /\ i <= a.m
      <4> DEFINE b == [delta |-> delta_max[i], m |-> i]
      <4>1. b.delta <= a.delta /\ a.delta <= b.delta
        BY <2>0, <3>1
      <4>2. b \in slist /\ b.m = i
        BY <3>3
      <4> QED BY <3>1, <4>1, <4>2 DEF IInv, Ordered
    <3>5. a.m = i
      BY <2>0, <3>1, <3>4
    <3>6. CASE delta_min[i] # DeltaSup
      <4>1. delta_max[i] # 0
        BY <2>0, <3>1, <3>2
      <4> QED BY <3>1, <3>5, <3>6, <4>1 DEF SummaryRows
    <3>7. CASE delta_min[i] = DeltaSup
      <4>1. DeltaSup <= a.delta
        BY <3>1, <3>5, <3>7 DEF IInv, Bracketed
      <4> QED BY <2>0, <3>1, <3>5, <4>1, DeltaSupAssumption
    <3> QED BY <3>1, <3>5, <3>6, <3>7
  <2>2. ASSUME NEW i \in SummaryRows
        PROVE  \E a \in TableRows : a.m = i
    <3> DEFINE a == [delta |-> delta_max[i], m |-> i]
    <3>1. i \in 0..M /\ delta_max[i] # 0
      BY DEF SummaryRows
    <3>2. a \in slist
      BY <3>1 DEF IInv, Witnessed
    <3>3. a.m = i /\ a.delta = delta_max[i]
      OBVIOUS
    <3>4. a \in TableRows
      BY <3>1, <3>2, <3>3 DEF TableRows
    <3> QED BY <3>3, <3>4
  <2> QED BY <2>1, <2>2 DEF TablesAgree
<1> QED BY <1>1, Invariance, PTL

(* One halving, whatever the answer: it takes over one end of the interval *)
(* and leaves the other, so the smaller half goes on, up to rounding.      *)
LEMMA RecordHalves ==
  ASSUME TypeOK, pc = "bsearch", ~Narrow, u # l,
         NEW m \in 0..M, Record(HalfWay, m), l' = l
  PROVE  /\ HalfWay \in Deltas /\ HalfWay > delta_max[l]
         /\ Gap \in 2..DeltaSup /\ Gap' \in Int
         /\ 2 * Gap' <= Gap + 1
         /\ u' # l'
<1>1. /\ l \in 0..M /\ u \in 0..M /\ Deltas \subseteq Int
      /\ delta_min \in [0..M -> Deltas] /\ delta_max \in [0..M -> Deltas]
  BY DeltaSupAssumption DEF TypeOK, Deltas
<1>2. /\ \A i \in 0..M : delta_min[i] \in Int /\ delta_max[i] \in Int
      /\ delta_min[u] \in 0..DeltaSup /\ delta_max[l] \in 0..DeltaSup
  BY <1>1 DEF Deltas
<1>3. delta_min[u] - delta_max[l] >= 2
  <2>1. delta_min[u] \in Int /\ delta_max[l] \in Int
    BY <1>1
  <2> QED BY <2>1, EpsilonAssumption DEF Narrow, Gap
<1>4. /\ HalfWay \in Int /\ HalfWay > delta_max[l]
      /\ 2 * (HalfWay - delta_max[l]) <= delta_min[u] - delta_max[l]
      /\ 2 * (delta_min[u] - HalfWay) <= delta_min[u] - delta_max[l] + 1
  <2>1. delta_min[u] \in Int /\ delta_max[l] \in Int
    BY <1>1
  <2> QED BY <2>1, <1>3, MidpointBetween DEF HalfWay
<1>5. HalfWay \in Deltas
  BY <1>1, MidpointInDeltas DEF HalfWay
<1>6. /\ u' = NextUpper(m)
      /\ \A i \in 0..M : i # m => /\ delta_min'[i] = delta_min[i]
                                 /\ delta_max'[i] = delta_max[i]
      /\ delta_min'[m] \in Int /\ delta_min'[m] <= HalfWay
      /\ delta_max'[m] \in Int /\ delta_max'[m] >= HalfWay
  BY <1>1, <1>2, <1>4, <1>5, RecordEffect
<1>7. Gap \in 2..DeltaSup
  BY <1>2, <1>3, DeltaSupAssumption DEF Gap
<1> HIDE DEF HalfWay
<1>8. CASE l = m
  <2>1. u' = u /\ u # m /\ delta_min'[u] = delta_min[u]
    BY <1>1, <1>6, <1>8 DEF NextUpper
  <2>2. Gap' = delta_min[u] - delta_max'[m]
    BY <1>8, <2>1 DEF Gap
  <2>3. Gap' \in Int /\ 2 * Gap' <= Gap + 1
    BY <1>2, <1>4, <1>6, <2>2 DEF Gap
  <2> QED BY <1>4, <1>5, <1>7, <2>1, <2>3
<1>9. CASE l # m
  <2>1. u' = m /\ delta_max'[l] = delta_max[l]
    BY <1>1, <1>6, <1>9 DEF NextUpper
  <2>2. Gap' = delta_min'[m] - delta_max[l]
    BY <2>1 DEF Gap
  <2>3. Gap' \in Int /\ 2 * Gap' <= Gap + 1
    BY <1>2, <1>4, <1>6, <2>2 DEF Gap
  <2> QED BY <1>4, <1>5, <1>7, <1>9, <2>1, <2>3
<1> QED BY <1>8, <1>9

(* bsearch has an interval between two different numbers of misses. *)
Apart == pc = "bsearch" => u # l

(* So does an analysis of bsearch, and the ends stay apart. *)
LEMMA ProbeHalves ==
  ASSUME TypeOK, Apart, Probe
  PROVE  u' # l' /\ 2 * Gap' <= Gap + 1
<1>1. PICK m \in 0..M : Record(HalfWay, m)
  BY DEF Probe, HalfWay
<1>2. pc = "bsearch" /\ ~Narrow /\ l' = l /\ u # l
  BY DEF Probe, Apart
<1> QED BY <1>1, <1>2, RecordHalves

(* The next interval ends above the index it starts from. *)
LEMMA ApartStep == TypeOK /\ Apart /\ [Next]_vars => Apart'
<1> SUFFICES ASSUME TypeOK, Apart, [Next]_vars PROVE Apart'
  OBVIOUS
<1>1. CASE Probe
  BY <1>1, ProbeHalves DEF Apart
<1>2. CASE NextInterval
  BY <1>2, MaxMissesAssumption DEF NextInterval, Apart, TypeOK, Misses
<1>3. CASE Start \/ Report \/ Return \/ ProbeOutOfBounds
  BY <1>3 DEF Start, Report, Return, ProbeOutOfBounds, Apart
<1>4. CASE Ended \/ UNCHANGED vars
  BY <1>4 DEF Ended, vars, Apart
<1> QED BY <1>1, <1>2, <1>3, <1>4 DEF Next

(* Whatever the analysis answers: every analysis made by bsearch at least  *)
(* halves the interval at hand, up to rounding, so that bsearch itself     *)
(* always comes to an end.                                                 *)
THEOREM ProbesHalve == Spec => EveryProbeHalves
<1>1. TypeOK /\ Apart /\ [Next]_vars
        => [pc = "bsearch" /\ pc' = "bsearch" => 2 * Gap' <= Gap + 1]_vars
  <2> SUFFICES ASSUME TypeOK, Apart, Next, pc = "bsearch", pc' = "bsearch"
               PROVE  2 * Gap' <= Gap + 1 \/ UNCHANGED vars
    OBVIOUS
  <2>1. CASE Probe
    BY <2>1, ProbeHalves
  <2>2. CASE Start \/ NextInterval \/ Report \/ Return \/ ProbeOutOfBounds \/ Ended
    BY <2>2 DEF Start, NextInterval, Report, Return, ProbeOutOfBounds, Ended
  <2> QED BY <2>1, <2>2 DEF Next
<1>2. Init => Apart
  BY DEF Init, Apart
<1> QED BY <1>1, <1>2, ApartStep, TypeCorrect, PTL DEF Spec, EveryProbeHalves

-----------------------------------------------------------------------------
(* The search makes progress with every step, and few analyses.            *)

(* The interval bsearch works on is never empty nor longer than the whole. *)
Proper == pc = "bsearch" => Gap \in 1..DeltaSup /\ l < u

(* The invariant makes it so. *)
LEMMA IntervalsProper == IInv => Proper
<1> SUFFICES ASSUME IInv, pc = "bsearch"
             PROVE  Gap \in 1..DeltaSup /\ l < u
  BY DEF Proper
<1>1. /\ M \in Nat /\ l \in 0..M /\ u \in 0..M /\ l < u
      /\ delta_min \in [0..M -> Deltas] /\ delta_max \in [0..M -> Deltas]
      /\ delta_max[l] < delta_min[u]
  BY MaxMissesAssumption DEF IInv, TypeOK, InBounds, Separated, Misses
<1>2. delta_min[u] \in 0..DeltaSup /\ delta_max[l] \in 0..DeltaSup
  BY <1>1 DEF Deltas
<1> QED BY <1>1, <1>2, DeltaSupAssumption DEF Gap

(* A product as an operator, so that the provers need no nonlinear terms. *)
Multiple(n, w) == n * w

(* Multiples of a number grow by that number. *)
LEMMA MultiplesGrow ==
  ASSUME NEW w \in Nat
  PROVE  /\ \A n \in Nat : Multiple(n, w) \in Nat
         /\ \A n \in Nat : Multiple(n + 1, w) = Multiple(n, w) + w
         /\ \A m, n \in Nat : m <= n => Multiple(m, w) <= Multiple(n, w)
<1>1. \A n \in Nat : Multiple(n, w) \in Nat
  <2>1. \A d \in Nat, p \in Nat : d * p \in Nat
    BY Z3
  <2> QED BY <2>1 DEF Multiple
<1>2. \A n \in Nat : Multiple(n + 1, w) = Multiple(n, w) + w
  BY DEF Multiple
<1>3. \A m, n \in Nat : m <= n => Multiple(m, w) <= Multiple(n, w)
  <2> SUFFICES ASSUME NEW m \in Nat, NEW n \in Nat, m <= n
               PROVE  Multiple(m, w) <= Multiple(n, w)
    OBVIOUS
  <2> DEFINE d == n - m
  <2>1. d \in Nat /\ n = m + d
    OBVIOUS
  <2> HIDE DEF d
  <2>2. Multiple(n, w) = Multiple(m, w) + Multiple(d, w)
    BY <2>1 DEF Multiple
  <2> QED BY <1>1, <2>1, <2>2
<1> QED BY <1>1, <1>2, <1>3

(* The most steps n more intervals can take, and what is left of a search: *)
(* each analysis takes at least one grid step off the interval at hand.    *)
Passes(n) == Multiple(n, DeltaSup + 2)

StepsLeft ==
  CASE pc = "start"   -> Passes(MaxMisses + 1) + 1
    [] pc = "iterate" -> Passes(M - l + 1)
    [] pc = "bsearch" -> Passes(M - l) + Gap
    [] OTHER          -> 0

(* An interval more takes DeltaSup + 2 steps more. *)
LEMMA PassesGrow == /\ \A n \in Nat : Passes(n) \in Nat
                    /\ \A n \in Nat : Passes(n + 1) = Passes(n) + DeltaSup + 2
                    /\ \A m, n \in Nat : m <= n => Passes(m) <= Passes(n)
<1>1. DeltaSup + 2 \in Nat
  BY DeltaSupAssumption
<1>2. /\ \A n \in Nat : Passes(n) \in Nat
      /\ \A n \in Nat : Passes(n + 1) = Passes(n) + (DeltaSup + 2)
      /\ \A m, n \in Nat : m <= n => Passes(m) <= Passes(n)
  BY <1>1, MultiplesGrow DEF Passes
<1>3. \A n \in Nat : Passes(n) + (DeltaSup + 2) = Passes(n) + DeltaSup + 2
  BY <1>2, DeltaSupAssumption
<1> QED BY <1>2, <1>3

(* What is left of a search is a natural number. *)
LEMMA StepsLeftIsNatural == IInv => StepsLeft \in Nat
<1> SUFFICES ASSUME IInv PROVE StepsLeft \in Nat
  OBVIOUS
<1>1. M - l \in Nat /\ M - l + 1 \in Nat /\ MaxMisses + 1 \in Nat
  BY MaxMissesAssumption DEF IInv, TypeOK, Misses
<1>2. pc = "bsearch" => Gap \in Nat
  BY IntervalsProper DEF Proper
<1>3. Passes(M - l) \in Nat /\ Passes(M - l + 1) \in Nat /\ Passes(MaxMisses + 1) \in Nat
  BY <1>1, PassesGrow
<1> QED BY <1>2, <1>3 DEF StepsLeft

(* Every action but the stuttering of an ended search lowers it. *)
LEMMA StepPays == ASSUME Sustainable, IInv, [Next]_vars
                  PROVE  [StepsLeft' < StepsLeft]_vars
<1> SUFFICES ASSUME Next, ~ UNCHANGED vars PROVE StepsLeft' < StepsLeft
  OBVIOUS
<1>1. IInv'
  BY IInvStep
<1>2. Proper /\ Proper'
  BY <1>1, IntervalsProper, PTL
<1>3. /\ M \in 0..MaxMisses /\ l \in 0..M /\ u \in 0..M
      /\ M' \in 0..MaxMisses /\ l' \in 0..M' /\ MaxMisses \in Nat /\ DeltaSup \in Nat
      /\ M - l \in Nat /\ M' - l' \in Nat /\ M' - l' + 1 \in Nat
      /\ MaxMisses + 1 \in Nat /\ M' - l' + 1 <= MaxMisses + 1
  <2>1. \A b \in Nat : \A m \in 0..b : \A k \in 0..m : /\ m - k \in Nat /\ m - k + 1 \in Nat
                                                  /\ b + 1 \in Nat /\ m - k + 1 <= b + 1
    OBVIOUS
  <2>2. /\ M \in 0..MaxMisses /\ l \in 0..M /\ u \in 0..M
        /\ M' \in 0..MaxMisses /\ l' \in 0..M' /\ MaxMisses \in Nat /\ DeltaSup \in Nat
    BY <1>1, DeltaSupAssumption, MaxMissesAssumption DEF IInv, TypeOK, Misses
  <2> QED BY <2>1, <2>2
<1>4. CASE Start
  <2>1. StepsLeft = Passes(MaxMisses + 1) + 1 /\ StepsLeft' = Passes(M' - l' + 1)
    BY <1>4 DEF Start, StepsLeft
  <2>2. /\ Passes(M' - l' + 1) \in Nat /\ Passes(MaxMisses + 1) \in Nat
        /\ Passes(M' - l' + 1) <= Passes(MaxMisses + 1)
    <3> DEFINE a == M' - l' + 1
               b == MaxMisses + 1
    <3>1. a \in Nat /\ b \in Nat /\ a <= b
      BY <1>3
    <3> HIDE DEF a, b
    <3>2. Passes(a) \in Nat /\ Passes(b) \in Nat /\ Passes(a) <= Passes(b)
      BY <3>1, PassesGrow
    <3> QED BY <3>2 DEF a, b
  <2> QED BY <2>1, <2>2
<1>5. CASE NextInterval
  <2>1. pc = "iterate" /\ pc' = "bsearch" /\ M' = M /\ l' = l
    BY <1>5 DEF NextInterval
  <2>2. Gap' \in 1..DeltaSup
    BY <1>2, <2>1 DEF Proper
  <2>3. StepsLeft = Passes(M - l + 1) /\ StepsLeft' = Passes(M' - l') + Gap'
    BY <2>1 DEF StepsLeft
  <2>4. Passes(M - l) \in Nat /\ Passes(M - l + 1) = Passes(M - l) + DeltaSup + 2
    BY <1>3, PassesGrow
  <2> QED BY <1>3, <2>1, <2>2, <2>3, <2>4
<1>6. CASE Report
  <2>1. StepsLeft = Passes(M - l + 1) /\ StepsLeft' = 0
    BY <1>6 DEF Report, StepsLeft
  <2>2. Passes(M - l) \in Nat /\ Passes(M - l + 1) = Passes(M - l) + DeltaSup + 2
    BY <1>3, PassesGrow
  <2> QED BY <1>3, <2>1, <2>2
<1>7. CASE Return
  <2>1. pc = "bsearch" /\ pc' = "iterate" /\ M' = M /\ l' = u
    BY <1>7 DEF Return
  <2>2. Gap \in 1..DeltaSup /\ l < u
    BY <1>2, <2>1 DEF Proper
  <2>3. StepsLeft = Passes(M - l) + Gap /\ StepsLeft' = Passes(M - u + 1)
    BY <2>1 DEF StepsLeft
  <2>4. M - u + 1 \in Nat /\ M - l \in Nat /\ M - u + 1 <= M - l
    BY <1>3, <2>2
  <2>5. /\ Passes(M - u + 1) \in Nat /\ Passes(M - l) \in Nat
        /\ Passes(M - u + 1) <= Passes(M - l)
    BY <2>4, PassesGrow
  <2> QED BY <1>3, <2>2, <2>3, <2>5
<1>8. CASE Probe
  <2>1. pc = "bsearch" /\ pc' = "bsearch" /\ M' = M /\ l' = l /\ ~Narrow
    BY <1>8 DEF Probe
  <2>2. 2 * Gap' <= Gap + 1
    BY <1>2, <1>8, <2>1, <1>3, ProbeHalves DEF IInv, Proper, Apart
  <2>3. Gap \in 1..DeltaSup /\ Gap' \in 1..DeltaSup
    BY <1>2, <2>1 DEF Proper
  <2>4. Gap >= 2
    BY <1>3, <2>1, <2>3, EpsilonAssumption DEF Narrow
  <2>5. StepsLeft = Passes(M - l) + Gap /\ StepsLeft' = Passes(M' - l') + Gap'
    BY <2>1 DEF StepsLeft
  <2>6. Passes(M - l) \in Nat
    BY <1>3, PassesGrow
  <2>7. Gap' < Gap /\ Gap \in Nat /\ Gap' \in Nat
    <3> DEFINE g == Gap
               h == Gap'
    <3>1. g \in 1..DeltaSup /\ h \in 1..DeltaSup /\ g >= 2 /\ 2 * h <= g + 1
      BY <2>2, <2>3, <2>4
    <3> HIDE DEF g, h
    <3>2. h < g /\ g \in Nat /\ h \in Nat
      BY <1>3, <3>1
    <3> QED BY <3>2 DEF g, h
  <2> QED BY <2>1, <2>5, <2>6, <2>7
<1>9. CASE ProbeOutOfBounds
  BY <1>9, NoProbeOutOfBounds
<1>10. CASE Ended
  BY <1>10 DEF Ended
<1> QED BY <1>4, <1>5, <1>6, <1>7, <1>8, <1>9, <1>10 DEF Next

(* A sustainable analysis: every step of iter_bsearch and bsearch lowers a *)
(* natural number, so that no search goes on for ever.                     *)
THEOREM EveryStepPays ==
  ASSUME Sustainable
  PROVE  Spec => /\ [](StepsLeft \in Nat)
                 /\ [][StepsLeft' < StepsLeft]_vars
<1>1. IInv /\ [Next]_vars => [StepsLeft' < StepsLeft]_vars
  BY StepPays
<1> QED BY <1>1, StepsLeftIsNatural, Invariance, PTL DEF Spec

(* H counts halvings: it is lower for an interval half as long, rounded up. *)
CountsHalvings(H) ==
  /\ H \in [Nat -> Nat]
  /\ \A m, n \in Nat : m <= n => H[m] <= H[n]
  /\ \A m, n \in Nat : m >= 1 /\ n >= 2 /\ 2 * m <= n + 1 => H[m] < H[n]

(* What the analyses made so far may be: those before iter_bsearch, and    *)
(* for each interval done as many as the whole can be halved.              *)
Thrifty(H) ==
  /\ pc # "crashed"
  /\ pc = "start" => sa_time <= 1
  /\ pc \in {"iterate", "done"} => sa_time <= 2 + Multiple(l, H[DeltaSup])
  /\ pc = "bsearch" => sa_time + H[Gap] <= 2 + Multiple(l + 1, H[DeltaSup])

(* The bound is kept: an analysis is paid for by the halved interval.      *)
LEMMA ThriftyStep ==
  ASSUME Sustainable, NEW H, CountsHalvings(H), IInv, [Next]_vars, Thrifty(H)
  PROVE  Thrifty(H)'
<1>1. IInv'
  BY IInvStep
<1>2. Proper /\ Proper'
  BY <1>1, IntervalsProper, PTL
<1> DEFINE w == H[DeltaSup]
<1>3. /\ l \in Nat /\ l' \in Nat /\ u \in Nat /\ sa_time \in Nat /\ sa_time' \in Nat
      /\ DeltaSup \in Nat /\ w \in Nat
  <2>1. M \in Nat /\ M' \in Nat /\ DeltaSup \in Nat
    BY <1>1, DeltaSupAssumption, MaxMissesAssumption DEF IInv, TypeOK, Misses
  <2>2. l \in Nat /\ l' \in Nat /\ u \in Nat /\ sa_time \in Nat /\ sa_time' \in Nat
    BY <1>1, <2>1 DEF IInv, TypeOK
  <2>3. w \in Nat
    BY <2>1 DEF CountsHalvings
  <2> QED BY <2>1, <2>2, <2>3
<1> HIDE DEF w
<1>4. /\ \A n \in Nat : Multiple(n, w) \in Nat
      /\ \A n \in Nat : Multiple(n + 1, w) = Multiple(n, w) + w
      /\ \A m, n \in Nat : m <= n => Multiple(m, w) <= Multiple(n, w)
  BY <1>3, MultiplesGrow
<1>5. Multiple(l, w) \in Nat /\ Multiple(l + 1, w) = Multiple(l, w) + w
  BY <1>3, <1>4
<1>6. CASE Start
  <2>1. /\ pc = "start" /\ pc' = "iterate" /\ sa_time' = sa_time + 1 /\ l' = l
    BY <1>6 DEF Start, CalculateMisses
  <2> QED BY <1>3, <1>5, <2>1 DEF Thrifty, w
<1>7. CASE NextInterval
  <2>1. pc = "iterate" /\ pc' = "bsearch" /\ sa_time' = sa_time /\ l' = l
    BY <1>7 DEF NextInterval
  <2>2. Gap' \in 1..DeltaSup
    BY <1>2, <2>1 DEF Proper
  <2>3. H[Gap'] \in Nat /\ H[Gap'] <= w
    BY <1>3, <2>2 DEF CountsHalvings, w
  <2>4. sa_time <= 2 + Multiple(l, w)
    BY <2>1 DEF Thrifty, w
  <2>5. sa_time' + H[Gap'] <= 2 + Multiple(l' + 1, w)
    BY <1>3, <1>5, <2>1, <2>3, <2>4
  <2> QED BY <2>1, <2>5 DEF Thrifty, w
<1>8. CASE Report
  BY <1>8 DEF Report, Thrifty
<1>9. CASE Return
  <2>1. pc = "bsearch" /\ pc' = "iterate" /\ sa_time' = sa_time /\ l' = u
    BY <1>9 DEF Return
  <2>2. Gap \in Nat /\ l < u
    BY <1>2, <1>3, <2>1 DEF Proper
  <2>3. H[Gap] \in Nat
    BY <2>2 DEF CountsHalvings
  <2>4. sa_time + H[Gap] <= 2 + Multiple(l + 1, w)
    BY <2>1 DEF Thrifty, w
  <2>5. l + 1 \in Nat /\ l + 1 <= u
    BY <1>3, <2>2
  <2>6. Multiple(l + 1, w) \in Nat /\ Multiple(u, w) \in Nat /\ Multiple(l + 1, w) <= Multiple(u, w)
    BY <1>3, <1>4, <2>5
  <2>7. sa_time' <= 2 + Multiple(l', w)
    BY <1>3, <2>1, <2>3, <2>4, <2>6
  <2> QED BY <2>1, <2>7 DEF Thrifty, w
<1>10. CASE Probe
  <2>1. /\ pc = "bsearch" /\ pc' = "bsearch" /\ sa_time' = sa_time + 1 /\ l' = l /\ ~Narrow
    BY <1>10 DEF Probe, CalculateMisses
  <2>2. Gap \in 1..DeltaSup /\ Gap' \in 1..DeltaSup /\ 2 * Gap' <= Gap + 1
    <3>1. Gap \in 1..DeltaSup /\ Gap' \in 1..DeltaSup /\ l < u
      BY <1>2, <2>1 DEF Proper
    <3>2. TypeOK /\ Apart
      BY <1>3, <3>1 DEF IInv, Apart
    <3> QED BY <1>10, <3>1, <3>2, ProbeHalves
  <2>3. Gap >= 2
    BY <1>3, <2>1, <2>2, EpsilonAssumption DEF Narrow
  <2>4. /\ H[Gap] \in Nat /\ H[Gap'] \in Nat /\ H[Gap'] < H[Gap]
    <3> DEFINE g == Gap
               h == Gap'
    <3>1. g \in 1..DeltaSup /\ h \in 1..DeltaSup /\ g >= 2 /\ 2 * h <= g + 1
      BY <2>2, <2>3
    <3> HIDE DEF g, h
    <3>2. H[g] \in Nat /\ H[h] \in Nat /\ H[h] < H[g]
      BY <1>3, <3>1 DEF CountsHalvings
    <3> QED BY <3>2 DEF g, h
  <2>5. sa_time + H[Gap] <= 2 + Multiple(l + 1, w)
    BY <2>1 DEF Thrifty, w
  <2>6. sa_time' + H[Gap'] <= 2 + Multiple(l' + 1, w)
    BY <1>3, <1>5, <2>1, <2>4, <2>5
  <2> QED BY <2>1, <2>6 DEF Thrifty, w
<1>11. CASE ProbeOutOfBounds
  BY <1>11, NoProbeOutOfBounds
<1>12. CASE UNCHANGED vars
  BY <1>12 DEF vars, Thrifty, Gap
<1> QED BY <1>6, <1>7, <1>8, <1>9, <1>10, <1>11, <1>12 DEF Next, Ended

(* A sustainable analysis: the schedulability analysis is called at most   *)
(* twice before iter_bsearch, counting that of the initial upper bound,    *)
(* and for each of the at most M intervals as often as the range up to     *)
(* delta_sup can be halved.                                                *)
THEOREM AnalysesFew ==
  ASSUME Sustainable, NEW H, CountsHalvings(H)
  PROVE  Spec => [](sa_time <= 2 + M * H[DeltaSup])
<1>1. Init => Thrifty(H)
  BY DEF Init, Thrifty
<1>2. ASSUME IInv, Thrifty(H)
      PROVE  sa_time <= 2 + M * H[DeltaSup]
  <2> DEFINE w == H[DeltaSup]
  <2>1. /\ M \in Nat /\ l \in 0..M /\ u \in 0..M /\ sa_time \in Nat /\ w \in Nat
        /\ pc \in {"start", "iterate", "bsearch", "done", "crashed"}
    BY <1>2, DeltaSupAssumption, MaxMissesAssumption DEF IInv, TypeOK, Misses, CountsHalvings
  <2> HIDE DEF w
  <2>2. \A n \in 0..M : /\ Multiple(n, w) \in Nat /\ Multiple(M, w) \in Nat
                        /\ Multiple(n, w) <= Multiple(M, w)
    BY <2>1, MultiplesGrow
  <2>3. sa_time <= 2 + Multiple(M, w)
    <3>1. CASE pc = "start"
      BY <1>2, <2>1, <2>2, <3>1 DEF Thrifty
    <3>2. CASE pc \in {"iterate", "done"}
      BY <1>2, <2>1, <2>2, <3>2 DEF Thrifty, w
    <3>3. CASE pc = "bsearch"
      <4>1. Gap \in Nat /\ l < u
        BY <1>2, <3>3, IntervalsProper, DeltaSupAssumption DEF Proper
      <4>2. l + 1 \in 0..M /\ H[Gap] \in Nat
        BY <2>1, <4>1 DEF CountsHalvings
      <4>3. sa_time + H[Gap] <= 2 + Multiple(l + 1, w)
        BY <1>2, <3>3 DEF Thrifty, w
      <4> QED BY <2>1, <2>2, <4>2, <4>3
    <3> QED BY <1>2, <2>1, <3>1, <3>2, <3>3 DEF Thrifty
  <2> QED BY <2>3 DEF Multiple, w
<1>3. IInv /\ [Next]_vars /\ Thrifty(H) => Thrifty(H)'
  BY ThriftyStep
<1> QED BY <1>1, <1>2, <1>3, Invariance, PTL DEF Spec

-----------------------------------------------------------------------------
(* The largest factor analysed that gave i misses is delta_max.(i). *)
LEMMA LargestIsDeltaMax ==
  ASSUME IInv, pc # "start", NEW i \in 0..M, delta_max[i] # 0
  PROVE  Promise!Largest(i) = delta_max[i]
<1> DEFINE D == {a.delta : a \in {b \in slist : b.m = i}}
           a0 == [delta |-> delta_max[i], m |-> i]
<1>1. a0 \in slist
  BY DEF IInv, Witnessed
<1>2. a0.m = i /\ a0.delta = delta_max[i]
  OBVIOUS
<1>3. delta_max[i] \in D
  <2>1. a0 \in {b \in slist : b.m = i}
    BY <1>1, <1>2
  <2> QED BY <1>2, <2>1
<1>4. \A a \in slist : a.m = i => a.delta <= delta_max[i]
  BY DEF IInv, Bracketed
<1>5. \A a \in slist : a.delta \in Int
  BY DeltaSupAssumption DEF IInv, TypeOK, Analyses, Deltas
<1>6. ASSUME NEW d \in D, \A a \in slist : a.m = i => a.delta <= d
      PROVE  d = delta_max[i]
  <2>1. PICK a \in slist : a.m = i /\ a.delta = d
    OBVIOUS
  <2>2. d <= delta_max[i] /\ delta_max[i] <= d
    BY <1>1, <1>2, <1>4, <1>6, <2>1
  <2>3. d \in Int /\ delta_max[i] \in Int
    BY <1>1, <1>2, <1>5, <2>1
  <2> QED BY <2>2, <2>3
<1> HIDE DEF a0
<1>7. \E d \in D : \A a \in slist : a.m = i => a.delta <= d
  BY <1>3, <1>4
<1>8. Promise!Largest(i) = CHOOSE d \in D : \A a \in slist : a.m = i => a.delta <= d
  BY DEF Promise!Largest
<1> HIDE DEF D
<1> QED BY <1>6, <1>7, <1>8

(* When the search ends, nothing between two neighbouring analyses is open *)
(* any more: an open pair would have one of the witnesses of TightSoFar    *)
(* between its ends.                                                       *)
LEMMA NothingOpen ==
  ASSUME IInv, pc = "iterate", l = M,
         NEW a \in Promise!Anchored, NEW b \in Promise!Anchored,
         Promise!Neighbours(a, b)
  PROVE  ~Promise!Open(a, b)
<1> SUFFICES ASSUME a.m < b.m, b.delta - a.delta >= Epsilon PROVE FALSE
  BY DEF Promise!Open
<1>1. /\ M \in Nat
      /\ \A c \in slist : c.delta \in Int /\ c.delta > 0 /\ c.m \in Nat /\ c.m <= M
      /\ \A i \in 0..M : delta_max[i] \in Int
  BY DeltaSupAssumption, MaxMissesAssumption
     DEF IInv, TypeOK, Ordered, Bracketed, Analyses, Deltas, Misses
<1>2. a \in slist \/ (a.delta = 0 /\ a.m = 0)
  BY DEF Promise!Anchored
<1>3. b \in slist
  <2>1. a.m >= 0
    BY <1>1, <1>2
  <2>2. b \in slist \/ (b.delta = 0 /\ b.m = 0)
    BY DEF Promise!Anchored
  <2>3. a.m \in Int
    BY <1>1, <1>2
  <2> QED BY <2>1, <2>2, <2>3
<1>4. a.m \in 0..(l - 1) /\ a.delta \in Int /\ b.delta \in Int /\ b.m \in Nat
  BY <1>1, <1>2, <1>3
<1>5. PICK c \in slist : c.m > a.m /\ \E j \in 0..(a.m) : c.delta < delta_max[j] + Epsilon
  BY <1>4 DEF IInv, TightSoFar
<1>6. PICK j \in 0..(a.m) : c.delta < delta_max[j] + Epsilon
  BY <1>5
<1>7. c.delta > a.delta
  <2>1. CASE a \in slist
    <3>1. c.delta <= a.delta => c.m <= a.m
      BY <2>1 DEF IInv, Ordered
    <3> QED BY <1>1, <1>4, <1>5, <3>1
  <2>2. CASE a.delta = 0
    BY <1>1, <2>2
  <2> QED BY <1>2, <2>1, <2>2
<1>8. delta_max[j] <= a.delta
  <2>1. CASE delta_max[j] = 0
    BY <1>1, <1>2, <2>1
  <2>2. CASE delta_max[j] # 0
    <3> DEFINE d == [delta |-> delta_max[j], m |-> j]
    <3>1. j \in 0..M /\ j < b.m
      BY <1>1, <1>4
    <3>2. d \in slist /\ d.delta = delta_max[j] /\ d.m = j
      BY <2>2, <3>1 DEF IInv, Witnessed
    <3> HIDE DEF d
    <3>3. b.delta <= d.delta => b.m <= d.m
      BY <1>3, <3>2 DEF IInv, Ordered
    <3>4. d.delta < b.delta
      <4>1. ~(b.delta <= d.delta)
        BY <1>4, <3>1, <3>2, <3>3
      <4>2. d.delta \in Int
        BY <1>1, <3>2
      <4> QED BY <1>4, <4>1, <4>2
    <3>5. ~(a.delta < d.delta /\ d.delta < b.delta)
      BY <3>2 DEF Promise!Neighbours
    <3> QED BY <1>1, <1>4, <3>2, <3>4, <3>5
  <2> QED BY <2>1, <2>2
<1>9. c.delta < b.delta
  <2>1. delta_max[j] \in Int /\ c.delta \in Int
    BY <1>1, <1>4
  <2> QED BY <1>4, <1>6, <1>8, <2>1, EpsilonAssumption
<1> QED BY <1>7, <1>9 DEF Promise!Neighbours

(* The steps of the search are steps of MarginTable, or change nothing of  *)
(* what it speaks of.                                                      *)
LEMMA StartRefines ==
  ASSUME IInv, Start
  PROVE  Promise!Next
<1>1. PICK m \in Misses : slist' = {[delta |-> DeltaSup, m |-> m]}
  BY DEF Start, InitialMin, InitialMax
<1>2. pc = "start" /\ pc' = "iterate" /\ slist = {}
  BY DEF Start, InitialMin, InitialMax, IInv
<1>3. Promise!Consistent(DeltaSup, m)
  BY <1>1, <1>2, DeltaSupAssumption, MaxMissesAssumption
     DEF Promise!Consistent, Promise!Anchored, Misses
<1>4. Promise!Analyse(DeltaSup, m)
  BY <1>1, <1>2, <1>3 DEF Promise!Analyse
<1>5. DeltaSup \in 0..DeltaSup
  BY DeltaSupAssumption
<1> QED BY <1>4, <1>5 DEF Promise!Next

LEMMA ProbeRefines ==
  ASSUME Sustainable, IInv, Probe
  PROVE  Promise!Next
<1>1. PICK m \in 0..M : CalculateMisses(HalfWay, m) /\ Record(HalfWay, m)
  BY DEF Probe, HalfWay
<1>2. /\ pc = "bsearch" /\ pc' = "bsearch" /\ ~Narrow
      /\ Possible(HalfWay, m) /\ m \in Misses
      /\ slist' = slist \cup {[delta |-> HalfWay, m |-> m]}
  BY <1>1 DEF Probe, CalculateMisses, Possible, Record
<1>3. /\ HalfWay \in Deltas
      /\ delta_max[l] < HalfWay /\ HalfWay < delta_min[u]
  BY <1>2, ProbeStaysInside
<1>4. /\ l \in 0..M /\ u \in 0..M /\ l < u /\ m \in Nat
      /\ delta_min[u] \in Int /\ delta_max[l] \in Nat
  BY <1>2, MaxMissesAssumption, DeltaSupAssumption
     DEF IInv, TypeOK, InBounds, Misses, Deltas
<1> DEFINE a == [delta |-> delta_max[l], m |-> l]
           b == [delta |-> delta_min[u], m |-> u]
<1>5. a \in Promise!Anchored
  <2>1. CASE delta_max[l] = 0
    BY <2>1, <1>2 DEF IInv, Placed, Promise!Anchored
  <2>2. CASE delta_max[l] # 0
    BY <2>2, <1>2, <1>4 DEF IInv, Witnessed, Promise!Anchored
  <2> QED BY <2>1, <2>2
<1>6. b \in Promise!Anchored
  <2>1. CASE delta_min[u] = DeltaSup
    BY <2>1, <1>2 DEF IInv, Placed, Ends, Promise!Anchored
  <2>2. CASE delta_min[u] # DeltaSup
    <3>1. u # 0
      BY <1>4
    <3> QED BY <2>2, <3>1, <1>2, <1>4 DEF IInv, Witnessed, Promise!Anchored
  <2> QED BY <2>1, <2>2
<1>7. /\ Promise!Open(a, b)
      /\ a.delta < HalfWay /\ HalfWay < b.delta
  BY <1>2, <1>3, <1>4, EpsilonAssumption DEF Promise!Open, Narrow, Gap
<1>8. Promise!Consistent(HalfWay, m)
  <2>1. ASSUME NEW c \in slist
        PROVE  (c.delta <= HalfWay => c.m <= m) /\ (HalfWay <= c.delta => m <= c.m)
    BY <1>2 DEF Possible
  <2>2. 0 < HalfWay /\ HalfWay \in Int
    BY <1>3, <1>4, DeltaSupAssumption DEF Deltas
  <2>3. ASSUME NEW c, c = [delta |-> 0, m |-> 0]
        PROVE  (c.delta <= HalfWay => c.m <= m) /\ (HalfWay <= c.delta => m <= c.m)
    BY <2>2, <2>3, <1>4
  <2> QED BY <2>1, <2>3 DEF Promise!Consistent, Promise!Anchored
<1> HIDE DEF a, b
<1>9. Promise!Analyse(HalfWay, m)
  BY <1>2, <1>5, <1>6, <1>7, <1>8 DEF Promise!Analyse
<1> QED BY <1>2, <1>3, <1>9 DEF Promise!Next, Deltas

LEMMA ReportRefines ==
  ASSUME IInv, Report, IInv'
  PROVE  Promise!Next
<1>1. /\ pc = "iterate" /\ pc' = "done"
      /\ UNCHANGED <<M, delta_min, delta_max, l, u, slist>>
  BY DEF Report
<1>2. l = M
  BY <1>1, MaxMissesAssumption DEF Report, IInv, TypeOK, Misses
<1>3. slist # {}
  BY <1>1 DEF IInv, Ends
<1>4. \A a, b \in Promise!Anchored : Promise!Neighbours(a, b) => ~Promise!Open(a, b)
  BY <1>1, <1>2, NothingOpen
<1>5. SummaryRows \in SUBSET {a.m : a \in slist}
  <2> SUFFICES ASSUME NEW i \in SummaryRows PROVE i \in {a.m : a \in slist}
    OBVIOUS
  <2> DEFINE a == [delta |-> delta_max[i], m |-> i]
  <2>1. a \in slist /\ a.m = i
    BY <1>1 DEF SummaryRows, IInv, Witnessed
  <2> QED BY <2>1
<1>6. ASSUME NEW a \in slist, a.delta < DeltaSup
      PROVE  a.m \in SummaryRows
  <2>1. /\ a.m \in 0..M /\ a.delta \in Int /\ a.delta > 0
        /\ delta_min[a.m] <= a.delta /\ a.delta <= delta_max[a.m]
        /\ delta_min[a.m] \in Int /\ delta_max[a.m] \in Int
    BY <1>1, DeltaSupAssumption, MaxMissesAssumption
       DEF IInv, TypeOK, Ordered, Bracketed, Analyses, Deltas, Misses
  <2>2. delta_min[a.m] # DeltaSup /\ delta_max[a.m] # 0
    BY <1>6, <2>1, DeltaSupAssumption
  <2> QED BY <2>1, <2>2 DEF SummaryRows
<1>7. SummaryRows' = SummaryRows
  BY <1>1 DEF SummaryRows
<1>8. \A i \in SummaryRows : Promise!Largest(i) = delta_max[i]
  <2> SUFFICES ASSUME NEW i \in SummaryRows PROVE Promise!Largest(i) = delta_max[i]
    OBVIOUS
  <2>1. i \in 0..M /\ delta_max[i] # 0
    BY DEF SummaryRows
  <2> QED BY <1>1, <2>1, LargestIsDeltaMax
<1>9. [i \in SummaryRows' |-> delta_max'[i]] = [i \in SummaryRows |-> Promise!Largest(i)]
  BY <1>1, <1>7, <1>8
<1>10. Promise!Publish
  BY <1>1, <1>3, <1>4, <1>5, <1>6, <1>9 DEF Promise!Publish
<1> QED BY <1>10 DEF Promise!Next

(* With a sustainable analysis the search is a sensitivity analysis in the *)
(* sense of MarginTable: what it prints are the largest analysed factors,  *)
(* and only when no interval is left that needs another analysis.          *)
THEOREM SearchImplementsMarginTable ==
  ASSUME Sustainable
  PROVE  Spec => Promise!Safety
<1>1. Init => Promise!Init
  BY DEF Init, Promise!Init
<1>2. IInv /\ IInv' /\ [Next]_vars => [Promise!Next]_(Promise!varsMT)
  <2> SUFFICES ASSUME IInv, IInv', [Next]_vars
               PROVE  Promise!Next \/ UNCHANGED Promise!varsMT
    OBVIOUS
  <2>1. CASE Start
    BY <2>1, StartRefines
  <2>2. CASE Probe
    BY <2>2, ProbeRefines
  <2>3. CASE Report
    BY <2>3, ReportRefines
  <2>4. CASE NextInterval \/ Return
    BY <2>4 DEF NextInterval, Return, Promise!varsMT
  <2>5. CASE ProbeOutOfBounds
    BY <2>5, NoProbeOutOfBounds
  <2>6. CASE Ended \/ UNCHANGED vars
    BY <2>6 DEF Ended, vars, SummaryRows, Promise!varsMT
  <2> QED BY <2>1, <2>2, <2>3, <2>4, <2>5, <2>6 DEF Next
<1> QED BY <1>1, <1>2, Invariance, PTL DEF Spec, Promise!Safety
=============================================================================
