----------------------------- MODULE MissCount -----------------------------
(***************************************************************************)
(* How sensitivity.ml counts deadline misses: create_mk_analysis_csv pairs *)
(* the rows of job.csv and job.rta.csv and subtracts, and the miss count   *)
(* of a task is the largest number of misses in k consecutive jobs of its  *)
(* job list, which is read as a circle because it repeats.                 *)
(*                                                                         *)
(* The behaviours are there to reach the inputs: jobs are added to the two *)
(* files in order of their releases, as ktc writes them, and jobs already  *)
(* there complete later, as they do when scale_input makes execution times *)
(* longer.  Releases and costs only matter in UpperBound.                  *)
(***************************************************************************)
EXTENDS Integers, Sequences, FiniteSetsExt

CONSTANTS NumTask,    \* tasks are numbered from 1
          Klist,      \* k of each task
          MaxJobs,    \* bound on the rows of job.csv
          Costs,      \* values of cmax
          Deadlines,  \* values of dl
          MaxWcct     \* bound on completion times

ASSUME NumTaskAssumption == NumTask \in Nat \ {0}
ASSUME KlistAssumption == Klist \in [1..NumTask -> Nat \ {0}]
ASSUME JobsAssumption == Costs \subseteq Nat \ {0} /\ Deadlines \subseteq Nat
ASSUME BoundsAssumption == MaxJobs \in Nat /\ MaxWcct \in Nat

VARIABLES ip,   \* the rows of job.csv: task, release, cost and deadline
          rta   \* the rows of job.rta.csv: task and completion time, row by row the same job

vars == <<ip, rta>>

Tasks == 1..NumTask

-----------------------------------------------------------------------------
(* The rows of job.mk: the slack of each job. *)
CreateMkSwapped ==
  [n \in DOMAIN ip |-> [tid |-> rta[n].tid, slack |-> rta[n].wcct - ip[n].dl]]

CreateMk ==
  [n \in DOMAIN ip |-> [tid |-> rta[n].tid, slack |-> ip[n].dl - rta[n].wcct]]

(* The x-th of some rows, in the order of the file. *)
NthRow(rows, x) == CHOOSE n \in rows : Cardinality({e \in rows : e < n}) = x - 1

LlstOf(i) ==
  LET rows == {n \in DOMAIN rta : rta[n].tid = i}
  IN  [x \in 1..Cardinality(rows) |-> CreateMk[NthRow(rows, x)]]

(* The k jobs from index i on, counted from 0 and round the list. *)
KWindowNotRound(llst, k, i) ==
  [j \in {x \in 0..(k - 1) : i + x < Len(llst)} |-> llst[i + j + 1]]

KWindow(llst, k, i) == [j \in 0..(k - 1) |-> llst[((i + j) % Len(llst)) + 1]]

MissesIn(kwin) == Cardinality({j \in DOMAIN kwin : kwin[j].slack < 0})

CalculateMissesK(llst, k) ==
  Max({0} \cup {MissesIn(KWindow(llst, k, i)) : i \in 0..(Len(llst) - 1)})

SmallM == [i \in Tasks |-> CalculateMissesK(LlstOf(i), Klist[i])]

CalculateMissesForEachTask ==
  LET m[i \in 0..NumTask] == IF i = 0 THEN 0 ELSE m[i - 1] + SmallM[i]
  IN  m[NumTask]

-----------------------------------------------------------------------------
Init == ip = <<>> /\ rta = <<>>

AddJob ==
  /\ Len(ip) < MaxJobs
  /\ \E i \in Tasks, c \in Costs, d \in Deadlines, w \in 1..MaxWcct :
       /\ Len(ip) + c <= w
       /\ ip' = Append(ip, [tskid |-> i, rmin |-> Len(ip), cmax |-> c, dl |-> d])
       /\ rta' = Append(rta, [tid |-> i, wcct |-> w])

Later ==
  \E n \in DOMAIN rta :
    /\ rta[n].wcct < MaxWcct
    /\ rta' = [rta EXCEPT ![n].wcct = @ + 1]
    /\ UNCHANGED ip

Next == AddJob \/ Later

Spec == Init /\ [][Next]_vars

-----------------------------------------------------------------------------
(* The schedule repeated for ever: the p-th job of task i is the x-th of   *)
(* some round, and the jobs before it are c rounds and x - 1 jobs.         *)
JobsOf(i) == {n \in DOMAIN ip : ip[n].tskid = i}

JobAt(i, p) ==
  NthRow(JobsOf(i), CHOOSE x \in 1..Cardinality(JobsOf(i)) :
                      \E c \in 0..p : p = c * Cardinality(JobsOf(i)) + x)

LateFrom(i, p) ==
  Cardinality({q \in p..(p + Klist[i] - 1) : rta[JobAt(i, q)].wcct > ip[JobAt(i, q)].dl})

(* m of task i is exactly the worst k consecutive jobs of the schedule     *)
(* repeated for ever: no window misses more, and some window misses m.     *)
WorstWindow ==
  \A i \in Tasks :
    LET starts == 1..(2 * Cardinality(JobsOf(i)))
    IN  starts # {} => /\ \A p \in starts : LateFrom(i, p) <= SmallM[i]
                       /\ \E p \in starts : LateFrom(i, p) = SmallM[i]

(* The search sizes its arrays by the count at delta_sup and indexes them  *)
(* with later counts: a schedule whose jobs complete later never has a     *)
(* smaller one.                                                            *)
CountSustainable ==
  [][ip' = ip => CalculateMissesForEachTask <= CalculateMissesForEachTask']_vars
=============================================================================
