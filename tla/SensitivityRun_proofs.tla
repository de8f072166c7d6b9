----------------------- MODULE SensitivityRun_proofs -----------------------
(***************************************************************************)
(* Proofs about the sensitivity program with its files: what failed calls  *)
(* of nptest can spoil (DamageBounded), that before the first failure each *)
(* entry of the result is an answer of nptest whatever file an earlier run *)
(* left (FreshAnswers), that the program takes the steps of the search of  *)
(* DeltaSearch and no others until then, and why it ends although calls    *)
(* have failed (EveryRunStepPays).                                         *)
(***************************************************************************)
EXTENDS SensitivityRun, DeltaSearch_proofs, FiniteSetTheorems

(* What the program will enter into its result for the analysis at hand. *)
Pending == [delta |-> job, m |-> rta.m]

(* The entries of the result, the one about to be made included. *)
Entries == slist \cup IF step = "analysed" THEN {Pending} ELSE {}

(* The failures pay for the entries nptest did not compute, and the first  *)
(* analysis is at delta_sup: its entry may replace the whole result.       *)
DamageInv ==
  /\ IsFiniteSet(slist)
  /\ failed \in 0..MaxFailures
  /\ Cardinality(Entries \ truth) <= failed
  /\ pc = "start" /\ step # "idle" => job = DeltaSup

-----------------------------------------------------------------------------
(* Fewer entries that were never computed are no more than more of them. *)
LEMMA FewerSpoiled ==
  ASSUME NEW S, NEW T, IsFiniteSet(T), S \subseteq T
  PROVE  IsFiniteSet(S) /\ Cardinality(S) \in Nat /\ Cardinality(T) \in Nat
         /\ Cardinality(S) <= Cardinality(T)
BY FS_Subset, FS_CardinalityType

(* One more entry is at most one more that was never computed. *)
LEMMA OneMoreSpoiled ==
  ASSUME NEW S, IsFiniteSet(S), NEW a, NEW T
  PROVE  /\ IsFiniteSet((S \cup {a}) \ T)
         /\ Cardinality((S \cup {a}) \ T) <= Cardinality(S \ T) + 1
<1>1. IsFiniteSet(S \ T)
  BY FewerSpoiled, S \ T \subseteq S
<1>2. /\ IsFiniteSet((S \ T) \cup {a})
      /\ Cardinality((S \ T) \cup {a}) <= Cardinality(S \ T) + 1
  <2>1. Cardinality(S \ T) \in Nat
    BY <1>1, FS_CardinalityType
  <2>2. /\ IsFiniteSet((S \ T) \cup {a})
        /\ \/ Cardinality((S \ T) \cup {a}) = Cardinality(S \ T)
           \/ Cardinality((S \ T) \cup {a}) = Cardinality(S \ T) + 1
    BY <1>1, FS_AddElement
  <2> QED BY <2>1, <2>2
<1>3. (S \cup {a}) \ T \subseteq (S \ T) \cup {a}
  OBVIOUS
<1>4. /\ IsFiniteSet((S \cup {a}) \ T)
      /\ Cardinality((S \cup {a}) \ T) \in Nat
      /\ Cardinality((S \ T) \cup {a}) \in Nat
      /\ Cardinality((S \cup {a}) \ T) <= Cardinality((S \ T) \cup {a})
  BY <1>2, <1>3, FewerSpoiled
<1>5. Cardinality(S \ T) \in Nat
  BY <1>1, FS_CardinalityType
<1> QED BY <1>2, <1>4, <1>5

(* A step that makes no new entry and forgets no answer spoils nothing. *)
LEMMA NoNewDamage ==
  ASSUME DamageInv, IsFiniteSet(slist'), failed' = failed,
         Entries' \ truth' \subseteq Entries \ truth,
         pc' = "start" /\ step' # "idle" => job' = DeltaSup
  PROVE  DamageInv'
<1>1. IsFiniteSet(Entries \ truth)
  <2>1. IsFiniteSet(Entries)
    BY FS_AddElement DEF DamageInv, Entries
  <2> QED BY <2>1, FewerSpoiled, Entries \ truth \subseteq Entries
<1>2. /\ Cardinality(Entries' \ truth') <= Cardinality(Entries \ truth)
      /\ Cardinality(Entries' \ truth') \in Nat
      /\ Cardinality(Entries \ truth) \in Nat
  BY <1>1, FewerSpoiled
<1>3. Cardinality(Entries \ truth) <= failed /\ failed \in Nat
  BY MaxFailuresAssumption DEF DamageInv
<1>4. Cardinality(Entries' \ truth') <= failed'
  BY <1>2, <1>3
<1> QED BY <1>4 DEF DamageInv

LEMMA DamageInit == RunInit => DamageInv
<1> SUFFICES ASSUME RunInit PROVE DamageInv
  OBVIOUS
<1>1. Entries \ truth = {} /\ slist = {} /\ failed = 0 /\ step = "idle"
  BY DEF RunInit, Init, Entries
<1> QED BY <1>1, FS_EmptySet, MaxFailuresAssumption DEF DamageInv

(* Nptest: a success enters the answer into truth, a failure pays for the  *)
(* entry that will be made from the file of an earlier analysis.           *)
LEMMA DamageNptest == DamageInv /\ Nptest => DamageInv'
<1> SUFFICES ASSUME DamageInv, Nptest PROVE DamageInv'
  OBVIOUS
<1>1. /\ step = "scaled" /\ step' = "analysed"
      /\ pc' = pc /\ slist' = slist /\ job' = job
  BY DEF Nptest, search
<1>2. IsFiniteSet(slist') /\ (pc' = "start" /\ step' # "idle" => job' = DeltaSup)
  BY <1>1 DEF DamageInv
<1>3. CASE NptestOk
  <2>1. PICK m \in Misses :
          /\ rta' = [delta |-> job, m |-> m]
          /\ truth' = truth \cup {[delta |-> job, m |-> m]}
          /\ failed' = failed
    BY <1>3 DEF NptestOk
  <2>2. Pending' \in truth' /\ truth \subseteq truth'
    BY <1>1, <2>1 DEF Pending
  <2>3. Entries' = slist \cup {Pending'}
    BY <1>1 DEF Entries
  <2>4. Entries' \ truth' \subseteq Entries \ truth
    BY <2>2, <2>3 DEF Entries
  <2> QED BY <1>2, <2>1, <2>4, NoNewDamage
<1>4. CASE NptestFails
  <2>1. truth' = truth /\ failed < MaxFailures /\ failed' = failed + 1
    BY <1>4 DEF NptestFails
  <2>2. Entries' = slist \cup {Pending'} /\ Entries = slist
    BY <1>1 DEF Entries
  <2>3. Cardinality(Entries' \ truth') <= Cardinality(slist \ truth) + 1
    <3>1. IsFiniteSet(slist)
      BY DEF DamageInv
    <3> HIDE DEF Pending
    <3>2. Cardinality((slist \cup {Pending'}) \ truth)
            <= Cardinality(slist \ truth) + 1
      BY <3>1, OneMoreSpoiled
    <3> QED BY <2>1, <2>2, <3>2
  <2>4. Cardinality(slist \ truth) <= failed /\ failed \in 0..MaxFailures
    BY <2>2 DEF DamageInv
  <2>5. Cardinality(slist \ truth) \in Nat
    BY FewerSpoiled, slist \ truth \subseteq slist DEF DamageInv
  <2>6. IsFiniteSet(Entries' \ truth')
    BY <2>1, <2>2, OneMoreSpoiled DEF DamageInv
  <2>7. Cardinality(Entries' \ truth') \in Nat
    BY <2>6, FS_CardinalityType
  <2>8. Cardinality(Entries' \ truth') <= failed' /\ failed' \in 0..MaxFailures
    BY <2>1, <2>3, <2>4, <2>5, <2>7, MaxFailuresAssumption
  <2> QED BY <1>2, <2>8 DEF DamageInv
<1> QED BY <1>3, <1>4 DEF Nptest

(* Count: the entry made is the one that was pending. *)
LEMMA DamageCount == DamageInv /\ Count => DamageInv'
<1> SUFFICES ASSUME DamageInv, Count PROVE DamageInv'
  OBVIOUS
<1>1. /\ step = "analysed" /\ step' = "idle"
      /\ truth' = truth /\ failed' = failed /\ job' = job
  BY DEF Count
<1>2. Entries = slist \cup {Pending} /\ Entries' = slist'
  BY <1>1 DEF Entries
<1>3. slist' \subseteq Entries
  <2>1. CASE CountFirst
    <3>1. job = DeltaSup
      BY <1>1, <2>1 DEF CountFirst, DamageInv
    <3> QED BY <1>2, <2>1, <3>1 DEF CountFirst, Pending
  <2>2. CASE CountProbe
    BY <1>2, <2>2 DEF CountProbe, Record, Pending
  <2>3. CASE CountOutOfBounds
    BY <1>2, <2>3 DEF CountOutOfBounds
  <2> QED BY <2>1, <2>2, <2>3 DEF Count
<1>4. IsFiniteSet(slist')
  <2>1. IsFiniteSet(Entries)
    BY <1>2, FS_AddElement DEF DamageInv
  <2> QED BY <1>3, <2>1, FewerSpoiled
<1> QED BY <1>1, <1>2, <1>3, <1>4, NoNewDamage

LEMMA DamageStep == DamageInv /\ [RunNext]_varsRun => DamageInv'
<1> SUFFICES ASSUME DamageInv, [RunNext]_varsRun PROVE DamageInv'
  OBVIOUS
<1>1. CASE ScaleInput
  <2>1. /\ slist' = slist /\ truth' = truth /\ failed' = failed /\ pc' = pc
        /\ step = "idle" /\ step' = "scaled"
        /\ pc = "start" => job' = DeltaSup
    BY <1>1 DEF ScaleInput, vars
  <2>2. Entries' = slist /\ Entries = slist
    BY <2>1 DEF Entries
  <2> QED BY <2>1, <2>2, NoNewDamage DEF DamageInv
<1>2. CASE Nptest
  BY <1>2, DamageNptest
<1>3. CASE Count
  BY <1>3, DamageCount
<1>4. CASE CountUnusable
  <2>1. /\ slist' = slist /\ truth' = truth /\ failed' = failed /\ pc' = pc
        /\ job' = job /\ step = "analysed" /\ step' = "unusable"
    BY <1>4 DEF CountUnusable, vars
  <2>2. Entries' = slist /\ slist \subseteq Entries
    BY <2>1 DEF Entries
  <2>3. pc' = "start" /\ step' # "idle" => job' = DeltaSup
    BY <2>1 DEF DamageInv
  <2>4. IsFiniteSet(slist')
    BY <2>1 DEF DamageInv
  <2>5. Entries' \ truth' \subseteq Entries \ truth
    BY <2>1, <2>2
  <2> QED BY <2>1, <2>3, <2>4, <2>5, NoNewDamage
<1>5. CASE Elsewhere
  <2>1. /\ step = "idle" /\ step' = "idle"
        /\ truth' = truth /\ failed' = failed /\ slist' = slist
    BY <1>5 DEF Elsewhere, files, NextInterval, Report, Return, Ended, vars
  <2>2. Entries' = slist /\ Entries = slist
    BY <2>1 DEF Entries
  <2> QED BY <2>1, <2>2, NoNewDamage DEF DamageInv
<1>6. CASE UNCHANGED varsRun
  <2>1. /\ slist' = slist /\ truth' = truth /\ failed' = failed /\ pc' = pc
        /\ job' = job /\ step' = step /\ rta' = rta
    BY <1>6 DEF varsRun, files, vars
  <2>2. Entries' = Entries
    BY <2>1 DEF Entries, Pending
  <2>3. IsFiniteSet(slist') /\ (pc' = "start" /\ step' # "idle" => job' = DeltaSup)
    BY <2>1 DEF DamageInv
  <2> QED BY <2>1, <2>2, <2>3, NoNewDamage
<1> QED
  BY <1>1, <1>2, <1>3, <1>4, <1>5, <1>6 DEF RunNext, Stopped

(* Before the first failure there is nothing to pay for. *)
LEMMA NothingSpoiled ==
  ASSUME failed = 0, DamageInv
  PROVE  Entries \subseteq truth
<1>1. IsFiniteSet(Entries \ truth)
  <2>1. IsFiniteSet(Entries)
    BY FS_AddElement DEF DamageInv, Entries
  <2> QED BY <2>1, FewerSpoiled, Entries \ truth \subseteq Entries
<1>2. Cardinality(Entries \ truth) = 0
  BY <1>1, FS_CardinalityType DEF DamageInv
<1> QED BY <1>1, <1>2, FS_EmptySet

(* However often the return code of nptest is ignored, the result has no   *)
(* more entries that nptest never computed than nptest failed.             *)
THEOREM DamageAlwaysBounded == RunSpec => []DamageBounded
<1>1. RunInit => DamageInv
  BY DamageInit
<1>2. DamageInv /\ [RunNext]_varsRun => DamageInv'
  BY DamageStep
<1>3. DamageInv => DamageBounded
  <2> SUFFICES ASSUME DamageInv PROVE DamageBounded
    OBVIOUS
  <2>1. IsFiniteSet(Entries \ truth)
    <3>1. IsFiniteSet(Entries)
      BY FS_AddElement DEF DamageInv, Entries
    <3> QED BY <3>1, FewerSpoiled, Entries \ truth \subseteq Entries
  <2>2. slist \ truth \subseteq Entries \ truth
    BY DEF Entries
  <2>3. /\ Cardinality(slist \ truth) <= Cardinality(Entries \ truth)
        /\ Cardinality(slist \ truth) \in Nat
        /\ Cardinality(Entries \ truth) \in Nat
    BY <2>1, <2>2, FewerSpoiled
  <2>4. Cardinality(Entries \ truth) <= failed /\ failed \in Nat
    BY MaxFailuresAssumption DEF DamageInv
  <2> QED BY <2>3, <2>4 DEF DamageBounded
<1> QED BY <1>1, <1>2, <1>3, PTL DEF RunSpec

(* Until nptest fails, each answer of the result is one that nptest gave   *)
(* for its factor: the file an earlier run left is never counted.          *)
THEOREM FreshUntilFailure == RunSpec => [](failed = 0 => FreshAnswers)
<1>1. RunInit => DamageInv
  BY DamageInit
<1>2. DamageInv /\ [RunNext]_varsRun => DamageInv'
  BY DamageStep
<1>3. DamageInv => (failed = 0 => FreshAnswers)
  BY NothingSpoiled DEF Entries, FreshAnswers
<1> QED BY <1>1, <1>2, <1>3, PTL DEF RunSpec

-----------------------------------------------------------------------------
(* The refinement.  While an analysis is under way, the files are those of *)
(* the factor the search asks about.                                       *)
Asked ==
  step \in {"scaled", "analysed"} =>
    \/ pc = "start" /\ job = DeltaSup
    \/ pc = "bsearch" /\ ~Narrow /\ job = Midpoint(delta_max[l], delta_min[u])

Answered ==
  step = "analysed" =>
    /\ rta.m \in Misses
    /\ Computes(job, rta.m)
    /\ sa_time <= MaxCalls

RefinementInv ==
  /\ DamageInv
  /\ M \in Int /\ sa_time \in Int
  /\ step \in {"idle", "scaled", "analysed"}
  /\ Asked
  /\ Answered

(* A failure is never taken back. *)
LEMMA NoneFailed ==
  ASSUME DamageInv, [RunNext]_varsRun, failed' = 0
  PROVE  failed = 0
<1>1. failed \in Nat
  BY MaxFailuresAssumption DEF DamageInv
<1>2. failed' = failed \/ failed' = failed + 1
  BY DEF RunNext, ScaleInput, Nptest, NptestOk, NptestFails, Count, CountUnusable,
     Elsewhere, Stopped, varsRun, files
<1> QED BY <1>1, <1>2

LEMMA RefinementInit == RunInit => RefinementInv
BY DamageInit DEF RunInit, Init, RefinementInv, Asked, Answered

LEMMA RefinementStep ==
  ASSUME RefinementInv, [RunNext]_varsRun, failed' = 0
  PROVE  RefinementInv'
<1>1. DamageInv'
  BY DamageStep DEF RefinementInv
<1>2. CASE ScaleInput
  BY <1>1, <1>2 DEF ScaleInput, vars, RefinementInv, Asked, Answered, Narrow, Gap
<1>3. CASE Nptest
  <2>1. /\ step = "scaled" /\ step' = "analysed" /\ sa_time < MaxCalls
        /\ sa_time' = sa_time + 1
        /\ UNCHANGED search /\ job' = job
    BY <1>3 DEF Nptest
  <2>2. sa_time' \in Int /\ sa_time' <= MaxCalls
    BY <2>1, MaxCallsAssumption DEF RefinementInv
  <2>3. Asked'
    BY <2>1 DEF Asked, search, RefinementInv, Narrow, Gap
  <2>4. ~NptestFails
    <3>1. failed = 0 /\ failed' # failed + 1
      BY NoneFailed DEF RefinementInv
    <3> QED BY <3>1 DEF NptestFails
  <2>5. PICK m \in Misses :
          /\ Computes(job, m)
          /\ rta' = [delta |-> job, m |-> m]
          /\ truth' = truth \cup {[delta |-> job, m |-> m]}
    BY <1>3, <2>4 DEF Nptest, NptestOk
  <2>6. rta'.m = m /\ m <= m
    BY <2>5, MaxMissesAssumption DEF Misses
  <2>7. \A a \in truth' : /\ a.delta <= job => a.m <= m
                          /\ job <= a.delta => m <= a.m
    BY <2>5, <2>6 DEF Computes
  <2>8. Answered'
    BY <2>1, <2>2, <2>5, <2>6, <2>7 DEF Answered, Computes
  <2> QED BY <1>1, <2>1, <2>2, <2>3, <2>8 DEF RefinementInv, search
<1>4. CASE Count
  <2>1. M' \in Int
    BY <1>4, MaxMissesAssumption DEF Count, CountFirst, CountProbe,
       CountOutOfBounds, RefinementInv, Answered, Misses
  <2> QED BY <1>1, <1>4, <2>1 DEF Count, RefinementInv, Asked, Answered
<1>5. CASE CountUnusable
  BY <1>5, MaxMissesAssumption DEF CountUnusable, RefinementInv, Answered,
     Unusable, NoFile, OtherJobs, Misses
<1>6. CASE Elsewhere
  <2>1. step' = "idle" /\ UNCHANGED <<M, sa_time>>
    BY <1>6 DEF Elsewhere, files, NextInterval, Report, Return, Ended, vars
  <2> QED BY <1>1, <2>1 DEF RefinementInv, Asked, Answered
<1>7. CASE UNCHANGED varsRun
  <2>1. UNCHANGED <<pc, M, delta_min, delta_max, l, u, sa_time, step, job, rta, truth>>
    BY <1>7 DEF varsRun, files, vars
  <2> QED BY <1>1, <2>1 DEF RefinementInv, Asked, Answered, Computes, Narrow, Gap
<1> QED
  BY <1>2, <1>3, <1>4, <1>5, <1>6, <1>7 DEF RunNext, Stopped

(* The step that counts is the step of the search that gets the answer. *)
LEMMA CountIsSearchStep ==
  ASSUME failed = 0, RefinementInv, Count
  PROVE  Search!Next
<1>1. /\ step = "analysed" /\ step' = "idle" /\ sa_time' = sa_time
      /\ sa_time \in Int /\ sa_time - 1 < MaxCalls /\ rta.m \in Misses
  BY MaxCallsAssumption DEF Count, RefinementInv, Answered
<1>2. slist \subseteq truth
  BY NothingSpoiled DEF RefinementInv, Entries
<1>3. Search!CalculateMisses(job, rta.m)
  BY <1>1, <1>2 DEF Search!CalculateMisses, Search!Possible, Search!Misses,
     Misses, RefinementInv, Answered, Computes
<1>4. CASE CountFirst
  <2>1. job = DeltaSup
    BY <1>1, <1>4 DEF CountFirst, RefinementInv, DamageInv
  <2>2. Search!Start
    BY <1>1, <1>3, <1>4, <2>1 DEF CountFirst, Search!Start, Misses, Search!Misses,
       Search!InitialMin, Search!InitialMax, InitialMin, InitialMax
  <2> QED BY <2>2 DEF Search!Next
<1>5. CASE CountProbe
  <2>1. ~Search!Narrow /\ job = Search!Midpoint(delta_max[l], delta_min[u])
    BY <1>1, <1>5 DEF CountProbe, RefinementInv, Asked, Narrow, Gap, Midpoint,
       Search!Narrow, Search!Gap, Search!Midpoint
  <2>2. rta.m \in 0..M
    BY <1>1, <1>5, MaxMissesAssumption DEF CountProbe, Misses
  <2>3. Search!Probe
    BY <1>3, <1>5, <2>1, <2>2 DEF CountProbe, Search!Probe, Record, Search!Record,
       Smaller, Larger, NextUpper, Search!Smaller, Search!Larger, Search!NextUpper
  <2> QED BY <2>3 DEF Search!Next
<1>6. CASE CountOutOfBounds
  <2>1. ~Search!Narrow /\ job = Search!Midpoint(delta_max[l], delta_min[u])
    BY <1>1, <1>6 DEF CountOutOfBounds, RefinementInv, Asked, Narrow, Gap, Midpoint,
       Search!Narrow, Search!Gap, Search!Midpoint
  <2>2. rta.m \in Search!Misses \ 0..M
    BY <1>1, <1>6, MaxMissesAssumption DEF CountOutOfBounds, Misses, Search!Misses,
       RefinementInv
  <2>3. Search!ProbeOutOfBounds
    BY <1>3, <1>6, <2>1, <2>2 DEF CountOutOfBounds, Search!ProbeOutOfBounds
  <2> QED BY <2>3 DEF Search!Next
<1> QED BY <1>4, <1>5, <1>6 DEF Count

(* Writing the job set and running the analysis are not seen by the search.*)
LEMMA StepIsSearchStep ==
  ASSUME RefinementInv, [RunNext]_varsRun, failed' = 0
  PROVE  [Search!Next]_(Search!vars)
<1>7. failed = 0
  BY NoneFailed DEF RefinementInv
<1>1. CASE ScaleInput
  BY <1>1 DEF ScaleInput, vars, Search!vars
<1>2. CASE Nptest
  BY <1>2 DEF Nptest, search, RefinementInv, Search!vars
<1>3. CASE Count
  BY <1>3, <1>7, CountIsSearchStep
<1>4. CASE CountUnusable
  BY <1>4, MaxMissesAssumption DEF CountUnusable, RefinementInv, Answered,
     Unusable, NoFile, OtherJobs, Misses
<1>5. CASE Elsewhere
  <2>1. step = "idle" /\ step' = "idle"
    BY <1>5 DEF Elsewhere, files
  <2>2. CASE NextInterval
    BY <2>1, <2>2 DEF NextInterval, IsMinIndex, Search!NextInterval,
       Search!IsMinIndex, Search!Next
  <2>3. CASE Report
    BY <2>1, <2>3 DEF Report, Search!Report, Search!Next
  <2>4. CASE Return
    BY <2>1, <2>4 DEF Return, Narrow, Gap, Search!Return, Search!Narrow,
       Search!Gap, Search!Next
  <2>5. CASE Ended
    BY <2>1, <2>5 DEF Ended, vars, Search!vars
  <2> QED BY <1>5, <2>2, <2>3, <2>4, <2>5 DEF Elsewhere
<1>6. CASE UNCHANGED varsRun
  BY <1>6 DEF varsRun, vars, files, Search!vars
<1> QED
  BY <1>1, <1>2, <1>3, <1>4, <1>5, <1>6 DEF RunNext, Stopped

UntilFailure == DamageInv /\ (failed = 0 => RefinementInv)

LEMMA UntilFailureStep == UntilFailure /\ [RunNext]_varsRun => UntilFailure'
<1> SUFFICES ASSUME UntilFailure, [RunNext]_varsRun, failed' = 0 PROVE RefinementInv'
  BY DamageStep DEF UntilFailure
<1>1. failed = 0
  BY NoneFailed DEF UntilFailure
<1> QED BY <1>1, RefinementStep DEF UntilFailure

(* Until nptest fails, the program with its files takes the steps of the   *)
(* search of DeltaSearch: writing the job set and running the analysis are *)
(* not seen there, counting its misses is one answer.  Every invariant     *)
(* proved of DeltaSearch thus holds of the program up to its first failure.*)
THEOREM RunRefinesSearch == RunSpec => SearchUntilFailure
<1>1. RunInit => UntilFailure
  BY DamageInit, RefinementInit DEF UntilFailure
<1>2. RunInit => Search!Init
  BY DEF RunInit, Init, Search!Init
<1>3. UntilFailure /\ [RunNext]_varsRun
        => [failed' = 0 => [Search!Next]_(Search!vars)]_varsRun
  BY NoneFailed, StepIsSearchStep DEF UntilFailure
<1> QED BY <1>1, <1>2, <1>3, UntilFailureStep, PTL DEF RunSpec, SearchUntilFailure

(* In particular a run in which nptest can not fail implements the search. *)
THEOREM ReliableRunIsSearch ==
  ASSUME MaxFailures = 0
  PROVE  RunSpec => Search!Init /\ [][Search!Next]_(Search!vars)
<1>1. RunInit => DamageInv
  BY DamageInit
<1>2. DamageInv' => failed' = 0
  BY DEF DamageInv
<1>3. DamageInv' /\ [failed' = 0 => [Search!Next]_(Search!vars)]_varsRun
        => [Search!Next]_(Search!vars)
  <2>1. UNCHANGED varsRun => UNCHANGED Search!vars
    BY DEF varsRun, vars, files, Search!vars
  <2> QED BY <1>2, <2>1
<1> QED BY <1>1, <1>3, DamageStep, RunRefinesSearch, PTL DEF RunSpec, SearchUntilFailure
-----------------------------------------------------------------------------
(* The count of any usable file keeps the search in its types, also that   *)
(* of a file that has nothing to do with the factor at hand.               *)
LEMMA CountType == RunTypeOK /\ Count => TypeOK'
<1> SUFFICES ASSUME RunTypeOK, Count PROVE TypeOK'
  OBVIOUS
<1>1. rta.m \in Misses /\ M \in Misses /\ job \in Deltas /\ sa_time' = sa_time
  BY LeftoversAssumption DEF Count, RunTypeOK, TypeOK, Analyses
<1>2. 0 \in Deltas /\ DeltaSup \in Deltas /\ Misses \subseteq Nat
  BY DeltaSupAssumption, MaxMissesAssumption DEF Deltas, Misses
<1>3. CASE CountFirst
  <2>1. /\ M' = rta.m /\ delta_min' = InitialMin(rta.m) /\ delta_max' = InitialMax(rta.m)
        /\ slist' = {[delta |-> DeltaSup, m |-> rta.m]}
        /\ pc' = "iterate" /\ l' = l /\ u' = u /\ l = 0 /\ u = 0
    BY <1>3 DEF CountFirst, RunTypeOK, TypeOK
  <2>2. delta_min' \in [0..M' -> Deltas] /\ delta_max' \in [0..M' -> Deltas]
    BY <1>2, <2>1 DEF InitialMin, InitialMax
  <2>3. slist' \in SUBSET Analyses
    BY <1>1, <1>2, <2>1 DEF Analyses
  <2>4. M' \in Nat
    BY <1>1, <1>2, <2>1
  <2>5. l' = 0 /\ u' = 0
    BY <2>1
  <2>6. 0 \in 0..M'
    BY <2>4
  <2>7. l' \in 0..M' /\ u' \in 0..M'
    BY <2>5, <2>6
  <2> QED BY <1>1, <2>1, <2>2, <2>3, <2>7 DEF RunTypeOK, TypeOK
<1>4. CASE CountProbe
  <2> DEFINE m == rta.m
  <2>1. /\ pc = "bsearch" /\ pc' = "bsearch" /\ M' = M /\ l' = l
        /\ delta_min' = [delta_min EXCEPT ![m] = Smaller(@, job)]
        /\ delta_max' = [delta_max EXCEPT ![m] = Larger(@, job)]
        /\ slist' = slist \cup {[delta |-> job, m |-> m]}
        /\ u' = IF l = m THEN u ELSE m
    BY <1>4 DEF CountProbe, Record, NextUpper
  <2>2. m \in 0..M
    <3>1. rta.m \in Nat /\ M \in Nat
      BY <1>1, MaxMissesAssumption DEF Misses
    <3>2. rta.m <= M
      BY <1>4 DEF CountProbe
    <3> QED BY <3>1, <3>2
  <2>3. delta_min \in [0..M -> Deltas] /\ delta_max \in [0..M -> Deltas]
    BY <2>1 DEF RunTypeOK, TypeOK
  <2>4. \A a \in Deltas : Smaller(a, job) \in Deltas /\ Larger(a, job) \in Deltas
    BY <1>1 DEF Smaller, Larger
  <2>5. delta_min' \in [0..M' -> Deltas] /\ delta_max' \in [0..M' -> Deltas]
    BY <2>1, <2>2, <2>3, <2>4
  <2>6. slist' \in SUBSET Analyses
    BY <1>1, <2>1 DEF Analyses, RunTypeOK, TypeOK
  <2> QED BY <1>1, <2>1, <2>2, <2>5, <2>6 DEF RunTypeOK, TypeOK
<1>5. CASE CountOutOfBounds
  BY <1>1, <1>5 DEF CountOutOfBounds, RunTypeOK, TypeOK
<1> QED BY <1>3, <1>4, <1>5 DEF Count

(* Every step keeps every variable of the program and its files in its type. *)
LEMMA RunTypeStep == RunTypeOK /\ [RunNext]_varsRun => RunTypeOK'
<1> SUFFICES ASSUME RunTypeOK, [RunNext]_varsRun PROVE RunTypeOK'
  OBVIOUS
<1>1. CASE ScaleInput
  <2>1. TypeOK'
    BY <1>1, TypeStep DEF ScaleInput, RunTypeOK
  <2>2. job' \in Deltas
    <3>1. CASE pc = "start" /\ job' = DeltaSup
      BY <3>1, DeltaSupAssumption DEF Deltas
    <3>2. CASE pc = "bsearch" /\ job' = Midpoint(delta_max[l], delta_min[u])
      <4>1. delta_max[l] \in Deltas /\ delta_min[u] \in Deltas
        BY <3>2 DEF RunTypeOK, TypeOK
      <4> QED BY <3>2, <4>1, MidpointInDeltas
    <3> QED BY <1>1, <3>1, <3>2 DEF ScaleInput
  <2> QED BY <1>1, <2>1, <2>2 DEF ScaleInput, RunTypeOK
<1>2. CASE Nptest
  <2>1. TypeOK'
    BY <1>2 DEF Nptest, search, RunTypeOK, TypeOK
  <2>2. CASE NptestOk
    BY <1>2, <2>1, <2>2 DEF Nptest, NptestOk, RunTypeOK, Analyses
  <2>3. CASE NptestFails
    BY <1>2, <2>1, <2>3, MaxFailuresAssumption DEF Nptest, NptestFails, RunTypeOK
  <2> QED BY <1>2, <2>2, <2>3 DEF Nptest
<1>3. CASE Count
  BY <1>3, CountType DEF Count, RunTypeOK
<1>4. CASE CountUnusable
  BY <1>4, TypeStep DEF CountUnusable, RunTypeOK
<1>5. CASE Elsewhere
  <2>1. Next \/ UNCHANGED vars
    BY <1>5 DEF Elsewhere, Next, Ended
  <2> QED BY <1>5, <2>1, TypeStep DEF Elsewhere, files, RunTypeOK
<1>6. CASE UNCHANGED varsRun
  BY <1>6, TypeStep DEF varsRun, files, RunTypeOK
<1> QED
  BY <1>1, <1>2, <1>3, <1>4, <1>5, <1>6 DEF RunNext, Stopped

(* Whatever nptest answers, fails to answer or has left behind, every      *)
(* variable of the program and its files keeps its type.                   *)
THEOREM RunTypeCorrect == RunSpec => []RunTypeOK
<1>1. RunInit => RunTypeOK
  BY DeltaSupAssumption, MaxMissesAssumption, MaxFailuresAssumption
     DEF RunInit, Init, RunTypeOK, TypeOK, Deltas, Misses
<1> QED BY <1>1, RunTypeStep, PTL DEF RunSpec

-----------------------------------------------------------------------------
(* Why the program ends although some calls of nptest fail.  A result that *)
(* nptest has computed is never below the number of misses the search has  *)
(* arrived at, whatever the failures have put into the arrays: so only the *)
(* count after a failure can send the search back.                         *)

(* job.rta.csv is what nptest computes for the factor of job.csv. *)
Fresh == rta \in truth /\ rta.delta = job

(* More execution time never gives fewer misses. *)
Consistent == \A a, b \in truth : a.delta <= b.delta => a.m <= b.m

(* For each number of misses below M that has a factor, nptest has         *)
(* computed it for a factor no larger.                                     *)
Grounded ==
  pc # "start" =>
    \A i \in 0..(M - 1) :
      delta_max[i] # 0 => \E t \in truth : t.m = i /\ t.delta <= delta_max[i]

(* The search has a factor for the numbers of misses it works on. *)
Located ==
  pc # "start" =>
    /\ delta_max[M] # 0
    /\ l # 0 => delta_max[l] # 0
    /\ \A i \in 1..M : delta_min[i] # DeltaSup => delta_max[i] # 0
    /\ pc = "bsearch" => l < M /\ u # l /\ (u # 0 => delta_max[u] # 0)

(* A job.rta.csv that is counted once more has been counted before, or is  *)
(* left from an earlier run and has given M.                               *)
Counted ==
  pc \in {"iterate", "bsearch"} /\ ~ (step = "analysed" /\ Fresh) =>
    IF rta \in truth THEN rta.m \in 0..M /\ rta.delta <= delta_max[rta.m]
                     ELSE rta.m = M

RunInv == RunTypeOK /\ Consistent /\ Grounded /\ Located /\ Counted /\ Asked

(* The program starts before any answer, with at most a file left over. *)
LEMMA RunInvInit == RunInit => RunInv
<1> SUFFICES ASSUME RunInit PROVE RunInv
  OBVIOUS
<1>1. RunTypeOK
  BY DeltaSupAssumption, MaxMissesAssumption, MaxFailuresAssumption
     DEF RunInit, Init, RunTypeOK, TypeOK, Deltas, Misses
<1> QED BY <1>1 DEF RunInit, Init, RunInv, Consistent, Grounded, Located, Counted, Asked

(* What the counted file can hold, and what the count of it does to the    *)
(* arrays of a search that goes on.                                        *)
LEMMA CountReads ==
  ASSUME RunInv, Count
  PROVE  /\ step = "analysed" /\ step' = "idle"
         /\ job' = job /\ rta' = rta /\ truth' = truth /\ failed' = failed
         /\ rta.m \in Misses /\ rta.m \in Nat /\ M \in Nat
         /\ rta \in truth => rta.delta \in Deltas
BY LeftoversAssumption, MaxMissesAssumption
   DEF Count, RunInv, RunTypeOK, TypeOK, Analyses, Misses

(* The first count sets the two arrays up, whatever the file holds. *)
LEMMA CountFirstEffect ==
  ASSUME RunInv, Count, pc = "start"
  PROVE  /\ pc' = "iterate" /\ M' = rta.m /\ l' = 0 /\ u' = 0
         /\ \A i \in 0..M' : /\ delta_min'[i] = IF i = 0 THEN 0 ELSE DeltaSup
                             /\ delta_max'[i] = IF i = M' THEN DeltaSup ELSE 0
<1>1. CountFirst
  BY DEF Count, CountProbe, CountOutOfBounds
<1>2. l = 0 /\ u = 0
  BY DEF RunInv, RunTypeOK, TypeOK
<1> QED BY <1>1, <1>2 DEF CountFirst, InitialMin, InitialMax

(* A later count halves the interval, whatever the file holds. *)
LEMMA CountProbeEffect ==
  ASSUME RunInv, Count, pc = "bsearch", rta.m <= M
  PROVE  /\ pc' = "bsearch" /\ M' = M /\ l' = l
         /\ rta.m \in 0..M
         /\ l \in 0..M /\ u \in 0..M
         /\ \A i \in 0..M : delta_min[i] \in Deltas /\ delta_max[i] \in Deltas
         /\ u' = NextUpper(rta.m)
         /\ u' # l'
         /\ job = HalfWay /\ job \in Deltas /\ job > delta_max[l]
         /\ \A i \in 0..M : i # rta.m => /\ delta_min'[i] = delta_min[i]
                                         /\ delta_max'[i] = delta_max[i]
         /\ delta_min'[rta.m] \in Deltas /\ delta_max'[rta.m] \in Deltas
         /\ delta_max'[rta.m] >= delta_max[rta.m] /\ delta_max'[rta.m] >= job
         /\ Gap \in 2..DeltaSup /\ Gap' \in Int /\ 2 * Gap' <= Gap + 1
<1>1. CountProbe
  BY CountReads DEF Count, CountFirst, CountOutOfBounds
<1>2. rta.m \in 0..M
  BY CountReads
<1>3. /\ TypeOK /\ pc' = "bsearch" /\ M' = M /\ l' = l /\ Record(job, rta.m)
      /\ job = HalfWay /\ ~Narrow /\ u # l
  BY <1>1, CountReads DEF CountProbe, RunInv, RunTypeOK, Asked, Located, HalfWay
<1>4. /\ HalfWay \in Deltas /\ HalfWay > delta_max[l]
      /\ Gap \in 2..DeltaSup /\ Gap' \in Int
      /\ 2 * Gap' <= Gap + 1
      /\ u' # l'
  BY <1>2, <1>3, RecordHalves
<1>5. l \in 0..M /\ u \in 0..M /\ \A i \in 0..M : delta_min[i] \in Deltas /\ delta_max[i] \in Deltas
  BY <1>3 DEF TypeOK
<1> HIDE DEF HalfWay
<1>6. /\ u' = NextUpper(rta.m)
      /\ \A i \in 0..M : i # rta.m => /\ delta_min'[i] = delta_min[i]
                                      /\ delta_max'[i] = delta_max[i]
      /\ delta_min'[rta.m] \in {delta_min[rta.m], job}
      /\ delta_max'[rta.m] \in {delta_max[rta.m], job}
      /\ delta_max'[rta.m] >= delta_max[rta.m] /\ delta_max'[rta.m] >= job
  BY <1>2, <1>3, <1>4, RecordEffect
<1> QED BY <1>2, <1>3, <1>4, <1>5, <1>6

(* More misses than at delta_sup end the program. *)
LEMMA CrashEffect ==
  ASSUME RunInv, Count, pc = "bsearch", rta.m > M
  PROVE  /\ pc' = "crashed"
         /\ UNCHANGED <<M, delta_min, delta_max, l, u, slist>>
<1>1. CountOutOfBounds
  BY CountReads DEF Count, CountFirst, CountProbe
<1> QED BY <1>1 DEF CountOutOfBounds

(* A count belongs to the first analysis, to a halving, or ends in a crash. *)
LEMMA CountCases ==
  ASSUME RunInv, Count
  PROVE  pc = "start" \/ (pc = "bsearch" /\ rta.m <= M) \/ (pc = "bsearch" /\ rta.m > M)
BY DEF Count, CountFirst, CountProbe, CountOutOfBounds

(* The results of nptest stay in order, since it computes no other ones. *)
LEMMA ConsistentStep == RunInv /\ [RunNext]_varsRun => Consistent'
<1> SUFFICES ASSUME RunInv, [RunNext]_varsRun PROVE Consistent'
  OBVIOUS
<1>1. CASE Nptest /\ NptestOk
  <2>1. PICK m \in Misses : Computes(job, m) /\ truth' = truth \cup {[delta |-> job, m |-> m]}
    BY <1>1 DEF NptestOk
  <2> DEFINE new == [delta |-> job, m |-> m]
  <2>2. SUFFICES ASSUME NEW a \in truth', NEW b \in truth', a.delta <= b.delta
                 PROVE  a.m <= b.m
    BY DEF Consistent
  <2>3. new.delta = job /\ new.m = m /\ m <= m
    BY MaxMissesAssumption DEF Misses
  <2> HIDE DEF new
  <2>4. (a \in truth \/ a = new) /\ (b \in truth \/ b = new)
    BY <2>1 DEF new
  <2> QED BY <2>1, <2>2, <2>3, <2>4 DEF Computes, RunInv, Consistent
<1>2. CASE UNCHANGED truth
  BY <1>2 DEF RunInv, Consistent
<1> QED BY <1>1, <1>2 DEF RunNext, ScaleInput, Nptest, NptestFails, Count, CountUnusable,
           Elsewhere, Stopped, varsRun, files

(* The search stands still, counts, or goes on without the files. *)
LEMMA StepCases ==
  ASSUME [RunNext]_varsRun
  PROVE  \/ UNCHANGED search /\ truth \subseteq truth'
         \/ Count
         \/ step = "idle" /\ UNCHANGED files /\ (NextInterval \/ Report \/ Return)
BY DEF RunNext, ScaleInput, Nptest, NptestOk, NptestFails, CountUnusable, Elsewhere, Ended,
       Stopped, varsRun, vars, files, search

(* A factor is entered with a fresh result, or with one counted before. *)
LEMMA GroundedStep == RunInv /\ [RunNext]_varsRun => Grounded'
<1> SUFFICES ASSUME RunInv, [RunNext]_varsRun PROVE Grounded'
  OBVIOUS
<1>1. CASE UNCHANGED search /\ truth \subseteq truth'
  BY <1>1 DEF RunInv, Grounded, search
<1>2. CASE Count /\ pc = "start"
  <2>1. \A i \in 0..(M' - 1) : delta_max'[i] = 0
    BY <1>2, CountFirstEffect, CountReads
  <2> QED BY <2>1 DEF Grounded
<1>3. CASE Count /\ pc = "bsearch" /\ rta.m <= M
  <2> SUFFICES ASSUME NEW i \in 0..(M - 1), delta_max'[i] # 0
               PROVE  \E t \in truth : t.m = i /\ t.delta <= delta_max'[i]
    BY <1>3, CountReads, CountProbeEffect DEF Grounded
  <2>1. /\ i \in 0..M /\ i # M
        /\ delta_max[i] # 0 => \E t \in truth : t.m = i /\ t.delta <= delta_max[i]
    BY <1>3, CountReads DEF RunInv, Grounded
  <2>2. \A t \in truth : t.delta \in Int
    BY DeltaSupAssumption DEF RunInv, RunTypeOK, Analyses, Deltas
  <2>3. CASE i # rta.m
    BY <1>3, <2>1, <2>3, CountProbeEffect
  <2>4. CASE i = rta.m
    <3>1. /\ delta_max[i] \in Int /\ delta_max'[i] \in Int /\ job \in Int
          /\ delta_max'[i] >= delta_max[i] /\ delta_max'[i] >= job
      BY <1>3, <2>4, CountProbeEffect, DeltaSupAssumption DEF Deltas
    <3>2. CASE Fresh
      <4>1. rta \in truth /\ rta.m = i /\ rta.delta <= delta_max'[i]
        BY <2>4, <3>1, <3>2 DEF Fresh
      <4> QED BY <4>1
    <3>3. CASE ~Fresh
      <4>1. rta \in truth /\ rta.delta <= delta_max[i]
        BY <1>3, <2>1, <2>4, <3>3 DEF RunInv, Counted
      <4>2. rta \in truth /\ rta.m = i /\ rta.delta <= delta_max'[i]
        BY <2>2, <2>4, <3>1, <4>1
      <4> QED BY <4>2
    <3> QED BY <3>2, <3>3
  <2> QED BY <2>3, <2>4
<1>4. CASE Count /\ pc = "bsearch" /\ rta.m > M
  BY <1>4, CountReads, CrashEffect DEF RunInv, Grounded
<1>5. CASE UNCHANGED files /\ (NextInterval \/ Report \/ Return)
  BY <1>5 DEF NextInterval, Report, Return, RunInv, Grounded, files
<1> QED BY <1>1, <1>2, <1>3, <1>4, <1>5, StepCases, CountCases

(* The search goes on only from numbers of misses that have a factor. *)
LEMMA LocatedStep == RunInv /\ [RunNext]_varsRun => Located'
<1> SUFFICES ASSUME RunInv, [RunNext]_varsRun PROVE Located'
  OBVIOUS
<1>1. CASE UNCHANGED search
  BY <1>1 DEF RunInv, Located, search
<1>2. CASE Count /\ pc = "start"
  <2>1. M' \in 0..M' /\ \A i \in 1..M' : i \in 0..M'
    BY <1>2, CountFirstEffect, CountReads
  <2> QED BY <1>2, <2>1, CountFirstEffect, DeltaSupAssumption DEF Located
<1>3. CASE Count /\ pc = "bsearch" /\ rta.m <= M
  <2>1. /\ delta_max[M] # 0
        /\ l # 0 => delta_max[l] # 0
        /\ \A i \in 1..M : delta_min[i] # DeltaSup => delta_max[i] # 0
        /\ l < M /\ u # l /\ (u # 0 => delta_max[u] # 0)
    BY <1>3 DEF RunInv, Located
  <2>2. /\ \A i \in 0..M : delta_max[i] \in Nat
        /\ delta_max'[rta.m] \in Nat /\ job \in Nat /\ job > delta_max[l]
        /\ delta_max'[rta.m] >= job
    BY <1>3, CountProbeEffect, DeltaSupAssumption DEF Deltas
  <2>3. delta_max'[rta.m] # 0
    <3>1. l \in 0..M
      BY <1>3, CountProbeEffect
    <3> QED BY <2>2, <3>1
  <2>4. \A i \in 0..M : i # rta.m => /\ delta_min'[i] = delta_min[i]
                                    /\ delta_max'[i] = delta_max[i]
    BY <1>3, CountProbeEffect
  <2>5. \A i \in 0..M : delta_max[i] # 0 => delta_max'[i] # 0
    BY <2>3, <2>4
  <2>6. /\ pc' = "bsearch" /\ M' = M /\ l' = l /\ l \in 0..M /\ u \in 0..M /\ M \in 0..M
        /\ u' = (IF l = rta.m THEN u ELSE rta.m) /\ u' # l'
    BY <1>3, CountReads, CountProbeEffect DEF NextUpper
  <2>7. \A i \in 1..M : delta_min'[i] # DeltaSup => delta_max'[i] # 0
    <3>1. \A i \in 1..M : i \in 0..M
      BY CountReads, <1>3
    <3> QED BY <2>1, <2>3, <2>4, <2>5, <3>1
  <2> QED BY <2>1, <2>3, <2>5, <2>6, <2>7 DEF Located
<1>4. CASE Count /\ pc = "bsearch" /\ rta.m > M
  BY <1>4, CrashEffect DEF RunInv, Located
<1>5. CASE NextInterval
  <2>1. PICK k \in (l + 1)..M : IsMinIndex(k, l + 1) /\ u' = k
    BY <1>5 DEF NextInterval
  <2>2. /\ l \in Nat /\ M \in Nat /\ k \in 1..M /\ k # l /\ l < M
    BY <1>5, <2>1, MaxMissesAssumption DEF RunInv, RunTypeOK, TypeOK, Misses, NextInterval
  <2>3. delta_max[k] # 0
    <3>1. CASE k = M
      BY <1>5, <3>1 DEF NextInterval, RunInv, Located
    <3>2. CASE delta_min[k] < DeltaSup
      <4>1. delta_min[k] # DeltaSup
        BY <3>2, DeltaSupAssumption
      <4> QED BY <1>5, <2>2, <4>1 DEF NextInterval, RunInv, Located
    <3> QED BY <2>1, <3>1, <3>2 DEF IsMinIndex
  <2> QED BY <1>5, <2>1, <2>2, <2>3 DEF NextInterval, RunInv, Located
<1>6. CASE Return
  BY <1>6 DEF Return, RunInv, Located
<1>7. CASE Report
  BY <1>7 DEF Report, RunInv, Located
<1> QED BY <1>1, <1>2, <1>3, <1>4, <1>5, <1>6, <1>7, StepCases, CountCases

(* Nothing comes between scaling and counting. *)
LEMMA AskedStep == RunInv /\ [RunNext]_varsRun => Asked'
<1> SUFFICES ASSUME RunInv, [RunNext]_varsRun PROVE Asked'
  OBVIOUS
<1>1. CASE ScaleInput
  BY <1>1 DEF ScaleInput, Asked, HalfWay, Narrow, Gap, vars
<1>2. CASE Nptest
  BY <1>2 DEF Nptest, search, RunInv, Asked, HalfWay, Narrow, Gap
<1>3. CASE Count \/ CountUnusable
  BY <1>3 DEF Count, CountUnusable, Asked
<1>4. CASE Elsewhere
  BY <1>4 DEF Elsewhere, files, Asked
<1>5. CASE UNCHANGED varsRun
  BY <1>5 DEF varsRun, vars, files, RunInv, Asked, HalfWay, Narrow, Gap
<1> QED BY <1>1, <1>2, <1>3, <1>4, <1>5 DEF RunNext, Stopped

(* What has been counted is in the arrays, and stays there. *)
LEMMA CountedStep == RunInv /\ [RunNext]_varsRun => Counted'
<1> SUFFICES ASSUME RunInv, [RunNext]_varsRun PROVE Counted'
  OBVIOUS
<1>1. CASE ScaleInput
  BY <1>1 DEF ScaleInput, vars, RunInv, Counted
<1>2. CASE Nptest /\ NptestOk
  <2>1. Fresh' /\ step' = "analysed"
    BY <1>2 DEF Nptest, NptestOk, Fresh
  <2> QED BY <2>1 DEF Counted
<1>3. CASE Nptest /\ NptestFails
  BY <1>3 DEF Nptest, NptestFails, search, Fresh, RunInv, Counted
<1>4. CASE Count /\ pc = "start"
  <2>1. /\ step' = "idle" /\ rta' = rta /\ truth' = truth /\ M' = rta.m /\ M' \in 0..M'
        /\ delta_max'[M'] = DeltaSup
    BY <1>4, CountReads, CountFirstEffect
  <2>2. rta \in truth => rta.delta <= DeltaSup
    BY <1>4, CountReads, DeltaSupAssumption DEF Deltas
  <2> QED BY <2>1, <2>2 DEF Counted
<1>5. CASE Count /\ pc = "bsearch" /\ rta.m <= M
  <2>1. /\ step' = "idle" /\ rta' = rta /\ truth' = truth /\ M' = M /\ rta.m \in 0..M
    BY <1>5, CountReads, CountProbeEffect
  <2>2. /\ delta_max[rta.m] \in Int /\ delta_max'[rta.m] \in Int /\ job \in Int
        /\ delta_max'[rta.m] >= delta_max[rta.m] /\ delta_max'[rta.m] >= job
        /\ rta \in truth => rta.delta \in Int
    BY <1>5, CountReads, CountProbeEffect, DeltaSupAssumption DEF Deltas
  <2>3. CASE Fresh
    BY <2>1, <2>2, <2>3 DEF Counted, Fresh
  <2>4. CASE ~Fresh
    <3>1. IF rta \in truth THEN rta.delta <= delta_max[rta.m] ELSE rta.m = M
      BY <1>5, <2>4 DEF RunInv, Counted
    <3>2. IF rta \in truth THEN rta.delta <= delta_max'[rta.m] ELSE rta.m = M
      BY <2>2, <3>1
    <3> QED BY <2>1, <3>2 DEF Counted
  <2> QED BY <2>3, <2>4
<1>6. CASE Count /\ pc = "bsearch" /\ rta.m > M
  BY <1>6, CrashEffect DEF Counted
<1>7. CASE CountUnusable
  <2>1. rta \notin truth
    BY <1>7, DeltaSupAssumption
       DEF CountUnusable, Unusable, NoFile, OtherJobs, RunInv, RunTypeOK, Analyses, Deltas
  <2> QED BY <1>7, <2>1 DEF CountUnusable, vars, RunInv, Counted, Fresh
<1>8. CASE Elsewhere
  BY <1>8 DEF Elsewhere, NextInterval, Report, Return, Ended, vars, files, RunInv, Counted
<1>9. CASE UNCHANGED varsRun
  BY <1>9 DEF varsRun, vars, files, RunInv, Counted, Fresh
<1> QED BY <1>1, <1>2, <1>3, <1>4, <1>5, <1>6, <1>7, <1>8, <1>9, CountCases
        DEF RunNext, Nptest, Stopped

(* Every step keeps the invariant. *)
LEMMA RunInvStep == RunInv /\ [RunNext]_varsRun => RunInv'
BY RunTypeStep, ConsistentStep, GroundedStep, LocatedStep, CountedStep, AskedStep DEF RunInv

-----------------------------------------------------------------------------
(* What is left of a run, in steps: a search as a whole (Longest) for each *)
(* failure still possible, and what is ahead of the search at hand.        *)
Longest == Passes(MaxMisses + 2)

Onward == IF l < u THEN M - l ELSE M - u + 1

Ahead ==
  IF pc = "start" THEN Longest - 1
  ELSE IF pc = "iterate" THEN Passes(M - l + 1)
  ELSE Passes(Onward) + Larger(Gap, 0) + 1

(* The count of a file that is not fresh may send the search anywhere. *)
Owed == IF step = "analysed" /\ ~Fresh THEN Longest ELSE Ahead

Phase == IF step = "idle" THEN 3 ELSE IF step = "scaled" THEN 2 ELSE 1

Over == pc \in {"done", "crashed"} \/ step = "unusable"

RunStepsLeft ==
  Multiple(MaxFailures - failed, 3 * Longest) + IF Over THEN 0 ELSE 3 * Owed + Phase

(* A whole search is longer than what follows the choice of an interval. *)
LEMMA LongestIs == /\ Longest \in Nat /\ DeltaSup \in Nat
                   /\ Passes(MaxMisses + 1) \in Nat
                   /\ Longest = Passes(MaxMisses + 1) + DeltaSup + 2
                   /\ \A n \in 0..(MaxMisses + 1) :
                        Passes(n) \in Nat /\ Passes(n) <= Passes(MaxMisses + 1)
<1>1. /\ MaxMisses + 1 \in Nat /\ MaxMisses + 2 \in Nat /\ MaxMisses + 2 = (MaxMisses + 1) + 1
      /\ \A n \in 0..(MaxMisses + 1) : n \in Nat /\ n <= MaxMisses + 1
  BY MaxMissesAssumption
<1> DEFINE n0 == MaxMisses + 1
<1>2. n0 \in Nat /\ Longest = Passes(n0 + 1) /\ \A n \in 0..n0 : n \in Nat /\ n <= n0
  BY <1>1 DEF Longest
<1> HIDE DEF n0
<1>3. /\ Passes(n0) \in Nat /\ Longest = Passes(n0) + DeltaSup + 2
      /\ \A n \in 0..n0 : Passes(n) \in Nat /\ Passes(n) <= Passes(n0)
  BY <1>2, PassesGrow
<1>4. Longest \in Nat /\ DeltaSup \in Nat
  BY <1>3, DeltaSupAssumption
<1> QED BY <1>3, <1>4 DEF n0

(* Wherever a search has got to, less is ahead than a whole search. *)
LEMMA AheadBounded ==
  TypeOK /\ pc \in {"start", "iterate", "bsearch"} => Ahead \in Nat /\ Ahead < Longest
<1> SUFFICES ASSUME TypeOK, pc \in {"start", "iterate", "bsearch"}
             PROVE  Ahead \in Nat /\ Ahead < Longest
  OBVIOUS
<1>1. /\ M \in Nat /\ M <= MaxMisses /\ MaxMisses \in Nat /\ l \in 0..M /\ u \in 0..M
      /\ DeltaSup \in Nat
  BY DeltaSupAssumption, MaxMissesAssumption DEF TypeOK, Misses
<1>2. CASE pc = "start"
  BY <1>2, LongestIs DEF Ahead
<1>3. CASE pc = "iterate"
  <2>1. M - l + 1 \in 0..(MaxMisses + 1)
    BY <1>1
  <2>2. Passes(M - l + 1) \in Nat /\ Passes(M - l + 1) <= Passes(MaxMisses + 1)
    BY <2>1, LongestIs
  <2> QED BY <1>3, <2>2, LongestIs DEF Ahead
<1>4. CASE pc = "bsearch"
  <2>1. Onward \in 0..(MaxMisses + 1)
    BY <1>1 DEF Onward
  <2>2. Passes(Onward) \in Nat /\ Passes(Onward) <= Passes(MaxMisses + 1)
    BY <2>1, LongestIs
  <2>3. Larger(Gap, 0) \in 0..DeltaSup
    <3>1. delta_min[u] \in 0..DeltaSup /\ delta_max[l] \in 0..DeltaSup
      BY <1>4 DEF TypeOK, Deltas
    <3> QED BY <1>1, <3>1 DEF Gap, Larger
  <2>4. Ahead = Passes(Onward) + Larger(Gap, 0) + 1
    BY <1>4 DEF Ahead
  <2> QED BY <2>2, <2>3, <2>4, LongestIs
<1> QED BY <1>2, <1>3, <1>4

(* A fresh count of a halving is never below the index at hand ... *)
LEMMA FreshIsNotBelow ==
  ASSUME RunInv, Count, Fresh, pc = "bsearch", rta.m <= M
  PROVE  l <= rta.m
<1>1. /\ l \in 0..M /\ rta.m \in 0..M /\ M \in Nat
  BY CountProbeEffect, CountReads
<1>2. CASE l = 0
  BY <1>1, <1>2
<1>3. CASE l # 0
  <2>1. delta_max[l] # 0 /\ l \in 0..(M - 1)
    BY <1>1, <1>3 DEF RunInv, Located
  <2>2. PICK t \in truth : t.m = l /\ t.delta <= delta_max[l]
    BY <2>1 DEF RunInv, Grounded
  <2>3. /\ t.delta \in Int /\ delta_max[l] \in Int /\ job \in Int /\ job > delta_max[l]
    BY <1>1, CountProbeEffect, DeltaSupAssumption DEF RunInv, RunTypeOK, Analyses, Deltas
  <2>4. rta \in truth /\ t.delta <= rta.delta
    BY <2>2, <2>3 DEF Fresh
  <2> QED BY <2>2, <2>4 DEF RunInv, Consistent
<1> QED BY <1>2, <1>3

(* ... so that less is ahead after it. *)
LEMMA FreshCountPays ==
  ASSUME RunInv, Count, Fresh, pc = "bsearch", rta.m <= M
  PROVE  Ahead' < Ahead
<1>1. /\ pc' = "bsearch" /\ M' = M /\ l' = l /\ l \in 0..M /\ u \in 0..M /\ rta.m \in 0..M
      /\ u' = (IF l = rta.m THEN u ELSE rta.m)
      /\ Gap \in 2..DeltaSup /\ Gap' \in Int /\ 2 * Gap' <= Gap + 1
      /\ l <= rta.m /\ u # l
  BY CountProbeEffect, FreshIsNotBelow DEF NextUpper, RunInv, Located
<1>2. M \in Nat /\ M <= MaxMisses /\ MaxMisses \in Nat /\ DeltaSup \in Nat
  BY DeltaSupAssumption, MaxMissesAssumption DEF RunInv, RunTypeOK, TypeOK, Misses
<1>3. Onward \in Nat /\ Onward' \in Nat /\ Onward' <= Onward
  <2>1. CASE l = rta.m
    BY <1>1, <1>2, <2>1 DEF Onward
  <2>2. CASE l # rta.m
    <3>1. Onward' = M - l
      BY <1>1, <1>2, <2>2 DEF Onward
    <3> QED BY <1>1, <1>2, <3>1 DEF Onward
  <2> QED BY <2>1, <2>2
<1>4. Passes(Onward) \in Nat /\ Passes(Onward') \in Nat /\ Passes(Onward') <= Passes(Onward)
  BY <1>3, PassesGrow
<1>5. Larger(Gap', 0) < Larger(Gap, 0) /\ Larger(Gap', 0) \in Nat /\ Larger(Gap, 0) \in Nat
  <2> DEFINE g == Gap
             h == Gap'
  <2>1. g \in 2..DeltaSup /\ h \in Int /\ 2 * h <= g + 1
    BY <1>1
  <2> HIDE DEF g, h
  <2>2. Larger(h, 0) < Larger(g, 0) /\ Larger(h, 0) \in Nat /\ Larger(g, 0) \in Nat
    BY <1>2, <2>1 DEF Larger
  <2> QED BY <2>2 DEF g, h
<1>6. Ahead = Passes(Onward) + Larger(Gap, 0) + 1 /\ Ahead' = Passes(Onward') + Larger(Gap', 0) + 1
  BY <1>1 DEF Ahead
<1> QED BY <1>4, <1>5, <1>6

(* A count leaves less than was owed, whichever file it reads. *)
LEMMA CountPays ==
  ASSUME RunInv, Count, ~ Over'
  PROVE  Owed \in Nat /\ Ahead' \in Nat /\ Ahead' < Owed
<1>1. RunInv' /\ pc' \in {"start", "iterate", "bsearch"}
  BY RunInvStep DEF RunNext, RunInv, RunTypeOK, TypeOK, Over
<1>2. Ahead' \in Nat /\ Ahead' < Longest'
  <2>1. (TypeOK /\ pc \in {"start", "iterate", "bsearch"})'
    BY <1>1 DEF RunInv, RunTypeOK
  <2>2. (Ahead \in Nat /\ Ahead < Longest)'
    BY <2>1, AheadBounded, PTL
  <2> QED BY <2>2
<1>3. Longest' = Longest /\ Longest \in Nat
  BY LongestIs DEF Longest, Passes, Multiple
<1>4. CASE ~Fresh
  BY <1>2, <1>3, <1>4, CountReads DEF Owed
<1>5. CASE Fresh
  <2>1. Owed = Ahead
    BY <1>5 DEF Owed
  <2>2. pc \in {"start", "bsearch"}
    BY CountCases
  <2>3. Ahead \in Nat
    BY <2>2, AheadBounded DEF RunInv, RunTypeOK
  <2>4. CASE pc = "start"
    <3>1. pc' = "iterate" /\ M' \in Nat /\ M' <= MaxMisses /\ l' = 0
      BY <1>1, <2>4, CountFirstEffect, MaxMissesAssumption DEF RunInv, RunTypeOK, TypeOK, Misses
    <3>2. M' - l' + 1 \in 0..(MaxMisses + 1)
      <4>1. \A m \in Nat : m <= MaxMisses => m - 0 + 1 \in 0..(MaxMisses + 1)
        BY MaxMissesAssumption
      <4> QED BY <3>1, <4>1
    <3>3. Ahead' = Passes(M' - l' + 1) /\ Ahead = Longest - 1
      BY <2>4, <3>1 DEF Ahead
    <3>4. Ahead' <= Passes(MaxMisses + 1)
      BY <3>2, <3>3, LongestIs
    <3> QED BY <1>2, <2>1, <2>3, <3>3, <3>4, LongestIs, DeltaSupAssumption
  <2>5. CASE pc = "bsearch"
    <3>1. rta.m <= M
      BY <1>1, <2>5, CountReads, CrashEffect
    <3> QED BY <1>2, <1>5, <2>1, <2>3, <2>5, <3>1, FreshCountPays
  <2> QED BY <2>2, <2>4, <2>5
<1> QED BY <1>4, <1>5

(* So does a step of iter_bsearch, and the return of bsearch. *)
LEMMA IntervalPays ==
  ASSUME RunInv, NextInterval \/ Return
  PROVE  pc' \in {"iterate", "bsearch"} /\ pc \in {"iterate", "bsearch"} /\ Ahead' < Ahead
<1>1. /\ M \in Nat /\ M <= MaxMisses /\ MaxMisses \in Nat /\ l \in 0..M /\ u \in 0..M
      /\ DeltaSup \in Nat /\ TypeOK
  BY DeltaSupAssumption, MaxMissesAssumption DEF RunInv, RunTypeOK, TypeOK, Misses
<1>2. CASE NextInterval
  <2>1. pc = "iterate" /\ pc' = "bsearch" /\ M' = M /\ l' = l /\ l < M /\ u' \in (l + 1)..M
        /\ delta_min' = delta_min /\ delta_max' = delta_max
    BY <1>2 DEF NextInterval
  <2>2. Onward' = M - l /\ M - l \in Nat
    <3>1. l < u' /\ M - l \in Nat
      BY <1>1, <2>1
    <3> QED BY <2>1, <3>1 DEF Onward
  <2>3. Larger(Gap', 0) \in 0..DeltaSup
    <3>1. delta_min[u'] \in 0..DeltaSup /\ delta_max[l] \in 0..DeltaSup
      BY <1>1, <2>1 DEF TypeOK, Deltas
    <3>2. Gap' = delta_min[u'] - delta_max[l]
      BY <2>1 DEF Gap
    <3> QED BY <1>1, <3>1, <3>2 DEF Larger
  <2>4. Ahead = Passes(M - l + 1) /\ Ahead' = Passes(M - l) + Larger(Gap', 0) + 1
    BY <2>1, <2>2 DEF Ahead
  <2>5. Passes(M - l) \in Nat /\ Passes(M - l + 1) = Passes(M - l) + DeltaSup + 2
    BY <2>2, PassesGrow
  <2> QED BY <1>1, <2>1, <2>3, <2>4, <2>5
<1>3. CASE Return
  <2>1. /\ pc = "bsearch" /\ pc' = "iterate" /\ M' = M /\ l' = u /\ u # l
    BY <1>3 DEF Return, RunInv, Located
  <2>2. Ahead' = Passes(M - u + 1) /\ Ahead = Passes(Onward) + Larger(Gap, 0) + 1
    BY <2>1 DEF Ahead
  <2>3. Larger(Gap, 0) \in Nat
    <3>1. delta_min[u] \in Int /\ delta_max[l] \in Int
      BY <1>1, <2>1 DEF TypeOK, Deltas
    <3> QED BY <3>1 DEF Gap, Larger
  <2>4. M - u + 1 \in Nat /\ Onward \in Nat /\ M - u + 1 <= Onward
    BY <1>1, <2>1 DEF Onward
  <2>5. Passes(M - u + 1) \in Nat /\ Passes(Onward) \in Nat /\ Passes(M - u + 1) <= Passes(Onward)
    BY <2>4, PassesGrow
  <2> QED BY <2>1, <2>2, <2>3, <2>5
<1> QED BY <1>2, <1>3

(* What is owed and what is ahead are numbers while the program runs. *)
LEMMA OwedBounded == RunTypeOK /\ ~Over => Owed \in Nat /\ Ahead \in Nat
<1> SUFFICES ASSUME RunTypeOK, ~Over PROVE Owed \in Nat /\ Ahead \in Nat
  OBVIOUS
<1>1. TypeOK /\ pc \in {"start", "iterate", "bsearch"}
  BY DEF Over, RunTypeOK, TypeOK
<1> QED BY <1>1, AheadBounded, LongestIs DEF Owed

(* So is what is left of a run. *)
LEMMA RunStepsLeftIsNatural == RunTypeOK => RunStepsLeft \in Nat
<1> SUFFICES ASSUME RunTypeOK PROVE RunStepsLeft \in Nat
  OBVIOUS
<1>1. 3 * Longest \in Nat
  BY LongestIs
<1>2. MaxFailures - failed \in Nat
  BY MaxFailuresAssumption DEF RunTypeOK
<1>3. Multiple(MaxFailures - failed, 3 * Longest) \in Nat
  BY <1>1, <1>2, MultiplesGrow
<1>4. ~Over => 3 * Owed + Phase \in Nat
  BY OwedBounded DEF Phase
<1> QED BY <1>3, <1>4 DEF RunStepsLeft

(* Each action pays, a failing call with what was set aside for it. *)
LEMMA RunStepPays == RunInv /\ [RunNext]_varsRun => [RunStepsLeft' < RunStepsLeft]_varsRun
<1> SUFFICES ASSUME RunInv, RunNext, ~ UNCHANGED varsRun
             PROVE  RunStepsLeft' < RunStepsLeft
  OBVIOUS
<1>1. RunInv' /\ RunTypeOK /\ RunTypeOK'
  BY RunInvStep DEF RunInv
<1> DEFINE w == 3 * Longest
           F == Multiple(MaxFailures - failed, w)
           E == IF Over THEN 0 ELSE 3 * Owed + Phase
<1>2. w \in Nat /\ w' = w
  BY LongestIs DEF Longest, Passes, Multiple
<1>3. MaxFailures - failed \in Nat /\ MaxFailures - failed' \in Nat
  <2>1. \A f \in 0..MaxFailures : MaxFailures - f \in Nat
    BY MaxFailuresAssumption
  <2>2. failed \in 0..MaxFailures /\ failed' \in 0..MaxFailures
    BY <1>1 DEF RunTypeOK
  <2> QED BY <2>1, <2>2
<1>4. RunStepsLeft = F + E /\ RunStepsLeft' = F' + E'
  BY DEF RunStepsLeft
<1>5. /\ \A n \in Nat : Multiple(n, w) \in Nat
      /\ \A n \in Nat : Multiple(n + 1, w) = Multiple(n, w) + w
  BY <1>2, MultiplesGrow
<1>6. F \in Nat /\ F' = Multiple(MaxFailures - failed', w) /\ F' \in Nat
  BY <1>2, <1>3, <1>5
<1>7. ASSUME failed' = failed, E \in Nat, E' \in Nat, E' < E
      PROVE  RunStepsLeft' < RunStepsLeft
  BY <1>4, <1>6, <1>7
<1>8. (~Over => Owed \in Nat /\ Ahead \in Nat) /\ (~Over' => Owed' \in Nat /\ Ahead' \in Nat)
  <2>1. (~Over => Owed \in Nat /\ Ahead \in Nat)'
    BY <1>1, OwedBounded, PTL
  <2> QED BY <1>1, <2>1, OwedBounded
<1> HIDE DEF w, F
<1>9. CASE ScaleInput
  <2>1. /\ ~Over /\ ~Over' /\ step = "idle" /\ step' = "scaled" /\ failed' = failed
    BY <1>9 DEF ScaleInput, Over, vars
  <2>2. Owed = Ahead /\ Owed' = Ahead' /\ Ahead' = Ahead
    BY <1>9, <2>1 DEF Owed, ScaleInput, vars, Ahead, Onward, Gap, Longest, Passes, Multiple
  <2>3. E = 3 * Ahead + 3 /\ E' = 3 * Ahead + 2
    BY <2>1, <2>2 DEF Phase
  <2> QED BY <1>7, <1>8, <2>1, <2>3
<1>10. CASE Nptest /\ NptestOk
  <2>1. /\ pc \in {"start", "bsearch"} /\ pc' = pc
        /\ step = "scaled" /\ step' = "analysed" /\ failed' = failed /\ Fresh'
    BY <1>10 DEF Nptest, NptestOk, search, Fresh, RunInv, Asked
  <2>2. ~Over /\ ~Over'
    BY <2>1 DEF Over
  <2>3. Owed = Ahead /\ Owed' = Ahead' /\ Ahead' = Ahead
    BY <1>10, <2>1 DEF Owed, Nptest, search, Ahead, Onward, Gap, Longest, Passes, Multiple
  <2>4. E = 3 * Ahead + 2 /\ E' = 3 * Ahead + 1
    BY <2>1, <2>2, <2>3 DEF Phase
  <2> QED BY <1>7, <1>8, <2>1, <2>2, <2>4
<1>11. CASE Nptest /\ NptestFails
  <2>1. /\ pc \in {"start", "bsearch"} /\ pc' = pc
        /\ step = "scaled" /\ step' = "analysed" /\ failed' = failed + 1
    BY <1>11 DEF Nptest, NptestFails, search, RunInv, Asked
  <2>2. ~Over /\ ~Over'
    BY <2>1 DEF Over
  <2>3. F = F' + w
    <3> DEFINE n == MaxFailures - failed'
    <3>1. n \in Nat /\ MaxFailures - failed = n + 1
      BY <1>1, <1>3, <2>1, MaxFailuresAssumption DEF RunTypeOK
    <3> HIDE DEF n
    <3>2. Multiple(n + 1, w) = Multiple(n, w) + w
      BY <1>5, <3>1
    <3>3. F = Multiple(n + 1, w) /\ F' = Multiple(n, w)
      BY <1>6, <3>1 DEF F, n
    <3> QED BY <3>2, <3>3
  <2>4. Owed' <= Longest
    <3>1. Ahead' < Longest' /\ Longest' = Longest /\ Ahead' \in Nat
      <4>1. (TypeOK /\ pc \in {"start", "iterate", "bsearch"})'
        BY <1>1, <2>1 DEF RunTypeOK
      <4>2. (Ahead \in Nat /\ Ahead < Longest)'
        BY <4>1, AheadBounded, PTL
      <4> QED BY <4>2 DEF Longest, Passes, Multiple
    <3> QED BY <3>1, LongestIs DEF Owed
  <2>5. E = 3 * Owed + 2 /\ E' = 3 * Owed' + 1
    BY <2>1, <2>2 DEF Phase
  <2> QED BY <1>4, <1>6, <1>8, <2>2, <2>3, <2>4, <2>5, LongestIs DEF w
<1>12. CASE Count
  <2>1. /\ ~Over /\ step = "analysed" /\ step' = "idle" /\ failed' = failed
    BY <1>12, CountReads, CountCases DEF Over
  <2>2. E = 3 * Owed + 1
    BY <2>1 DEF Phase
  <2>3. CASE Over'
    BY <1>7, <1>8, <2>1, <2>2, <2>3
  <2>4. CASE ~Over'
    <3>1. Owed \in Nat /\ Ahead' \in Nat /\ Ahead' < Owed
      BY <1>12, <2>4, CountPays
    <3>2. Owed' = Ahead'
      BY <2>1 DEF Owed
    <3>3. E' = 3 * Ahead' + 3
      BY <2>1, <2>4, <3>2 DEF Phase
    <3> QED BY <1>7, <2>1, <2>2, <3>1, <3>3
  <2> QED BY <2>3, <2>4
<1>13. CASE CountUnusable
  <2>1. ~Over /\ Over' /\ step = "analysed" /\ failed' = failed
    BY <1>13 DEF CountUnusable, RunInv, Asked, Over
  <2>2. E = 3 * Owed + 1 /\ E' = 0
    BY <2>1 DEF Phase
  <2> QED BY <1>7, <1>8, <2>1, <2>2
<1>14. CASE step = "idle" /\ UNCHANGED files /\ (NextInterval \/ Return)
  <2>1. Ahead' < Ahead /\ ~Over /\ ~Over' /\ step = "idle" /\ step' = "idle" /\ failed' = failed
    BY <1>14, IntervalPays DEF Over, files
  <2>2. E = 3 * Ahead + 3 /\ E' = 3 * Ahead' + 3
    BY <2>1 DEF Phase, Owed
  <2> QED BY <1>7, <1>8, <2>1, <2>2
<1>15. CASE step = "idle" /\ UNCHANGED files /\ Report
  <2>1. ~Over /\ Over' /\ step = "idle" /\ failed' = failed
    BY <1>15 DEF Report, Over, files
  <2>2. E = 3 * Owed + 3 /\ E' = 0
    BY <2>1 DEF Phase
  <2> QED BY <1>7, <1>8, <2>1, <2>2
<1>16. Elsewhere => step = "idle" /\ UNCHANGED files /\ (NextInterval \/ Return \/ Report)
  BY DEF Elsewhere, Ended, varsRun
<1> QED BY <1>9, <1>10, <1>11, <1>12, <1>13, <1>14, <1>15, <1>16 DEF RunNext, Nptest, Stopped

(* However nptest answers and whichever MaxFailures of its calls fail:     *)
(* every step of the program lowers a natural number, so that a search     *)
(* with finitely many failed calls does not go on for ever.                *)
THEOREM EveryRunStepPays ==
  RunSpec => /\ [](RunStepsLeft \in Nat)
             /\ [][RunStepsLeft' < RunStepsLeft]_varsRun
<1>1. RunInv => RunStepsLeft \in Nat
  BY RunStepsLeftIsNatural DEF RunInv
<1> QED BY <1>1, RunInvInit, RunInvStep, RunStepPays, PTL DEF RunSpec
=============================================================================
