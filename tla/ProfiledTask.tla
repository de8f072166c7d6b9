---------------------------- MODULE ProfiledTask ----------------------------
(***************************************************************************)
(* A task of a generated program is profiled: ktc has put the calls of     *)
(* log.c around its timing points, and the task runs.  At a timing point   *)
(* the fragment before it ends (execution, then end_id or abort_time), the *)
(* next arrival is logged, the task sleeps until it, and the release of    *)
(* the fragment behind it is logged.                                       *)
(*                                                                         *)
(* The order of the calls is that of the example at the end of log.c and   *)
(* of the columns in its header, the numbers of the timing points are      *)
(* those of the traces in examples/; the code that makes the calls is ktc. *)
(***************************************************************************)
EXTENDS GenTaskSet, TraceLog

CONSTANTS MaxRows,  \* bound on the rows of the trace
          MaxWork,  \* bound on the time a fragment takes, in nanoseconds
          MaxLate   \* bound on how late the task wakes up, in nanoseconds

ASSUME BoundsAssumption == MaxRows \in Nat /\ MaxWork \in Nat /\ MaxLate \in Nat

VARIABLES task,     \* the task that is profiled, or 0
          point,    \* the timing point it is at: 1 is stp, then one for each frame
          started,  \* the interval the first call is given for stp
          call      \* the call that comes next

profileVars == <<task, point, started, call>>
vars == <<genVars, logVars, profileVars>>

Init ==
  /\ GenInit
  /\ clock \in NsPerSec..(NsPerSec + NsPerUs - 1)  \* log.c takes a time of 0 for no time
  /\ itime = NoTime /\ stime = NoTime
  /\ last_arrival = 0
  /\ line = <<>> /\ trace = <<>>
  /\ task = 0 /\ point = 0 /\ started = 0
  /\ call = "none"

Generate == GenNext /\ UNCHANGED <<logVars, profileVars>>

FrameAt(p) == tasks[task].frames[p - 1]
Interval == IF point = 1 THEN started ELSE FrameAt(point).ms

(* stp(offset, infty, ms): whether ktc passes on the offset or infty is    *)
(* not for log.c to say.                                                   *)
Start ==
  /\ at = "done" /\ task = 0
  /\ \E t \in DOMAIN tasks :
       /\ task' = t
       /\ started' \in {tasks[t].offset, Infty}
  /\ point' = 1
  /\ call' = "work"
  /\ InitTp
  /\ itime' = ClockGettime
  /\ UNCHANGED <<genVars, clock, stime>>

Passes(ns) == clock' = clock + ns

Work ==
  /\ call = "work"
  /\ Len(trace) < MaxRows
  /\ \E ns \in 0..MaxWork : Passes(ns)
  /\ call' = "execution"
  /\ UNCHANGED <<genVars, callerVars, line, trace, task, point, started>>

LogExecution ==
  /\ call = "execution"
  /\ Execution
  /\ call' = "end"
  /\ UNCHANGED <<genVars, task, point, started>>

(* A firm delay may abort what runs in front of it, be it a fragment that  *)
(* was released or, behind an infinite stp, one that never was.            *)
MayAbort == point > 1 /\ FrameAt(point).delay = "fdelay"
LogEnd ==
  /\ call = "end"
  /\ EndId(point) \/ (MayAbort /\ AbortTime)
  /\ call' = "arrival"
  /\ UNCHANGED <<genVars, task, point, started>>

LogArrival ==
  /\ call = "arrival"
  /\ Arrival(point, Interval)
  /\ call' = "sleep"
  /\ UNCHANGED <<genVars, task, point, started>>

(* The task sleeps until the arrival, if that is not over already.         *)
Due == itime.tv_sec * NsPerSec + itime.tv_nsec + last_arrival * NsPerUs
Sleep ==
  /\ call = "sleep"
  /\ \E late \in 0..MaxLate :
       clock' = (IF Interval # Infty /\ clock < Due THEN Due ELSE clock) + late
  /\ call' = "release"
  /\ UNCHANGED <<genVars, callerVars, line, trace, task, point, started>>

LogRelease ==
  /\ call = "release"
  /\ Release(Interval)
  /\ point' = IF point = Len(tasks[task].frames) + 1 THEN 2 ELSE point + 1
  /\ call' = "work"
  /\ UNCHANGED <<genVars, task, started>>

Next ==
  Generate \/ Start \/ Work \/ LogExecution \/ LogEnd \/ LogArrival \/ Sleep \/ LogRelease

Spec == Init /\ [][Next]_vars

-----------------------------------------------------------------------------
TypeOK ==
  /\ GenTypeOK /\ LogTypeOK
  /\ task \in 0..Task /\ point \in Nat /\ started \in Int
  /\ call \in {"none", "work", "execution", "end", "arrival", "sleep", "release"}

(* The calls of log.c decide one by one what to write (52, 69, 91, 98); a  *)
(* row is of one fragment all the same, from its start to its end or its   *)
(* abort, and it starts where the row before ended.  It has a value under  *)
(* each name of the header exactly if the fragment was aborted: one that   *)
(* ended has its id a column early, against the header (48, 99).  Only an  *)
(* abort in front of the first release has a row without a fragment, and   *)
(* that is the first row of a task whose stp is infinite.                  *)
RowsOfOneFragment ==
  \A n \in DOMAIN trace :
    /\ \/ IsFragment(trace[n])
       \/ IsBare(trace[n]) /\ n = 1 /\ started = Infty
    /\ n > 1 /\ Value(trace[n - 1], "DST") # 0
         => Value(trace[n], "SRC") = Value(trace[n - 1], "DST")

(* The arrivals in the trace of a generated task are periodic: from one    *)
(* round of its loop to the next, each frame arrives exactly one period    *)
(* later, whatever the lengths of the frames.                              *)
ArrivalsPeriodic ==
  LET n == Len(tasks[task].frames) IN
  task # 0 => \A r \in DOMAIN trace :
    r + n \in DOMAIN trace /\ ~IsBare(trace[r]) /\ Value(trace[r], "SRC") # 1 =>
      /\ Value(trace[r + n], "SRC") = Value(trace[r], "SRC")
      /\ Value(trace[r + n], "ARRIVAL") - Value(trace[r], "ARRIVAL")
           = period_array[task] * UsPerMs
=============================================================================
