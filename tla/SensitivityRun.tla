--------------------------- MODULE SensitivityRun ---------------------------
(***************************************************************************)
(* One run of the sensitivity program with the files it works through.     *)
(* Each analysis of DeltaSearch is three steps here: scale_input writes    *)
(* job.csv and action.csv, nptest writes job.rta.csv, and                  *)
(* create_mk_analysis_csv pairs the two files and counts misses.  The      *)
(* return code of nptest is bound to a name and never looked at, so after  *)
(* a failed analysis the count uses whatever job.rta.csv is lying around,  *)
(* possibly from an earlier run of the program in the same directory.      *)
(***************************************************************************)
EXTENDS DeltaSearch, FiniteSets

CONSTANTS MaxFailures, \* how often nptest may fail or time out without a result
          Leftovers    \* job.rta.csv files an earlier run may have left behind

ASSUME MaxFailuresAssumption == MaxFailures \in Nat
ASSUME LeftoversAssumption == \A f \in Leftovers : f.m \in Misses

VARIABLES step,   \* where in calculate_misses the program is
          job,    \* the factor job.csv and action.csv are scaled by
          rta,    \* job.rta.csv: the factor it was computed for, its misses
          truth,  \* the results nptest has computed in this run
          failed  \* how often nptest has failed

files == <<step, job, rta, truth, failed>>
search == <<pc, M, delta_min, delta_max, l, u, slist>>
varsRun == <<vars, files>>

NoFile == [delta |-> -1, m |-> -1]
OtherJobs == [delta |-> -2, m |-> -1]   \* of a job set of another size
Unusable == {NoFile, OtherJobs}

RunTypeOK ==
  /\ TypeOK
  /\ step \in {"idle", "scaled", "analysed", "unusable"}
  /\ job \in Deltas
  /\ rta \in Analyses \cup Leftovers \cup Unusable
  /\ truth \in SUBSET Analyses
  /\ failed \in 0..MaxFailures

RunInit ==
  /\ Init
  /\ step = "idle"
  /\ job = 0
  /\ rta \in Leftovers \cup Unusable
  /\ truth = {}
  /\ failed = 0

(* scale_input: at delta_sup first, then half-way in the interval at hand. *)
ScaleInput ==
  /\ step = "idle"
  /\ \/ pc = "start" /\ job' = DeltaSup
     \/ /\ pc = "bsearch" /\ ~Narrow
        /\ job' = Midpoint(delta_max[l], delta_min[u])
  /\ step' = "scaled"
  /\ UNCHANGED <<vars, rta, truth, failed>>

(* What nptest computes for a factor: no fewer misses for a larger one. *)
Computes(delta, m) ==
  \A a \in truth : /\ a.delta <= delta => a.m <= m
                   /\ delta <= a.delta => m <= a.m

NptestOk ==
  \E m \in Misses :
    /\ Computes(job, m)
    /\ rta' = [delta |-> job, m |-> m]
    /\ truth' = truth \cup {[delta |-> job, m |-> m]}
    /\ UNCHANGED failed

NptestFails ==
  /\ failed < MaxFailures
  /\ failed' = failed + 1
  /\ UNCHANGED <<rta, truth>>

Nptest ==
  /\ step = "scaled"
  /\ sa_time < MaxCalls
  /\ sa_time' = sa_time + 1
  /\ NptestOk \/ NptestFails
  /\ step' = "analysed"
  /\ UNCHANGED <<search, job>>

(* create_mk_analysis_csv and the count after it: the answer is for the    *)
(* factor of job.csv, the misses are those of job.rta.csv.                 *)
CountFirst ==
  /\ pc = "start"
  /\ M' = rta.m
  /\ delta_min' = InitialMin(rta.m)
  /\ delta_max' = InitialMax(rta.m)
  /\ slist' = {[delta |-> DeltaSup, m |-> rta.m]}
  /\ pc' = "iterate"
  /\ UNCHANGED <<l, u>>

CountProbe ==
  /\ pc = "bsearch"
  /\ rta.m <= M
  /\ Record(job, rta.m)
  /\ UNCHANGED <<pc, M, l>>

CountOutOfBounds ==
  /\ pc = "bsearch"
  /\ rta.m > M
  /\ pc' = "crashed"
  /\ UNCHANGED <<M, delta_min, delta_max, l, u, slist>>

CountBeforeNptest ==
  /\ step = "scaled"
  /\ rta \notin Unusable
  /\ CountFirst \/ CountProbe \/ CountOutOfBounds
  /\ step' = "idle"
  /\ UNCHANGED <<sa_time, job, rta, truth, failed>>
Count ==
  /\ step = "analysed"
  /\ rta \notin Unusable
  /\ CountFirst \/ CountProbe \/ CountOutOfBounds
  /\ step' = "idle"
  /\ UNCHANGED <<sa_time, job, rta, truth, failed>>

(* job.rta.csv does not exist and Csv.load raises Sys_error, or its rows   *)
(* are not those of job.csv and List.map2 raises Invalid_argument.         *)
CountUnusable ==
  /\ step = "analysed"
  /\ rta \in Unusable
  /\ step' = "unusable"
  /\ UNCHANGED <<vars, job, rta, truth, failed>>

(* The rest of the search does not touch the files. *)
Elsewhere ==
  /\ step = "idle"
  /\ NextInterval \/ Report \/ Return \/ Ended
  /\ UNCHANGED files

Stopped == step = "unusable" /\ UNCHANGED varsRun

RunNext ==
  ScaleInput \/ Nptest \/ Count \/ CountUnusable \/ Elsewhere \/ Stopped

RunSpec == RunInit /\ [][RunNext]_varsRun /\ WF_varsRun(RunNext)

-----------------------------------------------------------------------------
(* Every analysis that entered the result is one nptest really made, for   *)
(* the very factor the result names: "Scales the original input, calls     *)
(* schedulability analysis, and calculates the number of misses".          *)
FreshAnswers == slist \subseteq truth

(* The run with the files left out.                                        *)
Search == INSTANCE DeltaSearch WITH
  sa_time <- IF step = "analysed" THEN sa_time - 1 ELSE sa_time

(* Leaving the files out, a run is the search of DeltaSearch for as long   *)
(* as nptest has not failed, whatever an earlier run has left behind.      *)
SearchUntilFailure ==
  /\ Search!Init
  /\ [][failed' = 0 => [Search!Next]_(Search!vars)]_varsRun

(* A failed analysis does damage, but no more than one entry of the result *)
(* for each failure.                                                       *)
DamageBounded == Cardinality(slist \ truth) <= failed

(* A search in which some analyses failed may crash, but never hangs,      *)
(* although its arrays may then contradict each other.                     *)
RunTerminates == <>(pc \in {"done", "crashed"} \/ step = "unusable")
=============================================================================
