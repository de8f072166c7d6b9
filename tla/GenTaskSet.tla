----------------------------- MODULE GenTaskSet -----------------------------
(***************************************************************************)
(* gen-tsk.c, the generator of the evaluation: draws a task set and writes *)
(* it as two Timed C programs, which differ in the scheduling policy only. *)
(* A task sleeps for its offset and then repeats its frames for ever: some *)
(* work, then a delay.  The delays are cut from the period of the task     *)
(* with integer division, frame by frame, from what is left of it.         *)
(***************************************************************************)
EXTENDS Integers, Sequences

CONSTANTS Task,         \* argument 1: the number of tasks
          Frame,        \* argument 2: at most so many frames in a task
          Offset,       \* argument 3: bound on offsets, or 0
          Sfdelay,      \* argument 6: kinds of delay; all but the first are firm
          Mbench,       \* number of workloads
          PeriodTable   \* period_table, in ms

ASSUME ArgumentsAssumption ==
  /\ Task \in Nat /\ Frame \in Nat \ {0} /\ Offset \in Nat
  /\ Sfdelay \in Nat \ {0} /\ Mbench \in Nat \ {0}
ASSUME TableAssumption ==
  /\ PeriodTable \in Seq(Nat \ {0})
  /\ \A m, n \in DOMAIN PeriodTable : PeriodTable[m] = PeriodTable[n] => m = n

VARIABLES at,            \* where main is: "task", "frame", "main" or "done"
          priod, frme,   \* period and number of frames of the task at hand
          frame_period,  \* length of the next frame
          sum_period,    \* of the frames cut from the period so far
          count,         \* number of those frames
          tasks,         \* the tasks written to both files
          period_array,  \* their periods
          round          \* history: how long one round of each task takes

genVars == <<at, priod, frme, frame_period, sum_period, count, tasks, period_array, round>>

Periods == {PeriodTable[n] : n \in DOMAIN PeriodTable}
Delays == {"sdelay", "fdelay"}
Works == {"func_1", "func_2", "critical"}
Frames == [work : Works, delay : Delays, ms : Nat]
TaskTexts == [offset : Nat, priority : DOMAIN PeriodTable, frames : Seq(Frames)]

(* The random draws. rand() % 85 always falls on an entry of the table.    *)
SampleTable == Periods
FrameCounts(p) == {n \in 1..Frame : n <= p}
Offsets == IF Offset = 0 THEN {0} ELSE 0..(Offset - 1)

(* write_spolicy: the place of the period in the table, from 1. *)
PriorityFromZero(p) == CHOOSE n \in 0..(Len(PeriodTable) - 1) : PeriodTable[n + 1] = p
Priority(p) == CHOOSE n \in DOMAIN PeriodTable : PeriodTable[n] = p

(* write_workload. The first task gets the next workload. *)
Workload(randnum, knd) ==
  CASE knd # 0 -> "critical"
    [] knd = 0 /\ (randnum + 1) % 2 = 0 -> "func_1"
    [] knd = 0 /\ (randnum + 1) % 2 = 1 -> "func_2"

GenInit ==
  /\ at = IF Task = 0 THEN "main" ELSE "task"
  /\ priod = 0 /\ frme = 0
  /\ frame_period = 0 /\ sum_period = 0 /\ count = 0
  /\ tasks = <<>> /\ period_array = <<>>
  /\ round = <<>>

(* The task header, its policy, priority and offset. *)
StartTask ==
  /\ at = "task"
  /\ \E p \in SampleTable, ofst \in Offsets :
       \E n \in FrameCounts(p) :
         /\ priod' = p
         /\ frme' = n
         /\ frame_period' = p \div n
         /\ sum_period' = p \div n
         /\ count' = 1
         /\ tasks' = Append(tasks, [offset |-> ofst, priority |-> Priority(p), frames |-> <<>>])
  /\ round' = Append(round, 0)
  /\ at' = "frame"
  /\ UNCHANGED period_array

(* The next frame takes an equal share of the rest, counting one frame too *)
(* many, and the last frame all of the rest.                               *)
CutOneMore == count <= frme - 1
CutFrame == count < frme - 1

NextShareOfFramesLeft == (priod - sum_period) \div (frme - count)
NextShare == (priod - sum_period) \div ((frme + 1) - count)

(* restrict_fdelay is compared with 1 where it should become 1, so that it *)
(* stays 0 and restricts nothing: any frame may be firm.                   *)
WriteFrame ==
  LET this == Len(tasks)
      written == Len(tasks[this].frames)
  IN  /\ at = "frame"
      /\ written < frme
      /\ \E knd \in 0..(Sfdelay - 1), randnum \in 0..(Mbench - 1) :
           tasks' = [tasks EXCEPT ![this].frames = Append(@,
             [work |-> Workload(IF this = 1 THEN randnum + 1 ELSE randnum, knd),
              delay |-> IF knd = 0 THEN "sdelay" ELSE "fdelay",
              ms |-> frame_period])]
      /\ round' = [round EXCEPT ![this] = @ + frame_period]
      /\ IF CutFrame
           THEN /\ frame_period' = NextShare
                /\ sum_period' = sum_period + NextShare
                /\ count' = count + 1
           ELSE /\ frame_period' = priod - sum_period
                /\ UNCHANGED <<sum_period, count>>
      /\ UNCHANGED <<at, priod, frme, period_array>>

EndTask ==
  /\ at = "frame"
  /\ Len(tasks[Len(tasks)].frames) = frme
  /\ period_array' = Append(period_array, priod)
  /\ at' = IF Len(tasks) < Task THEN "task" ELSE "main"
  /\ UNCHANGED <<priod, frme, frame_period, sum_period, count, tasks, round>>

WriteMain ==
  /\ at = "main"
  /\ at' = "done"
  /\ UNCHANGED <<priod, frme, frame_period, sum_period, count, tasks, period_array, round>>

GenNext == StartTask \/ WriteFrame \/ EndTask \/ WriteMain

GenSpec == GenInit /\ [][GenNext]_genVars

-----------------------------------------------------------------------------
GenTypeOK ==
  /\ at \in {"task", "frame", "main", "done"}
  /\ priod \in Nat /\ frme \in Nat
  /\ frame_period \in Nat /\ sum_period \in Nat /\ count \in Nat
  /\ tasks \in Seq(TaskTexts)
  /\ period_array \in Seq(Periods)
  /\ round \in Seq(Nat)

(* However a period is cut, one round of the loop of a task takes exactly  *)
(* its period: no division loses a millisecond, none is given away twice.  *)
FramesFillPeriod ==
  \A n \in DOMAIN period_array : round[n] = period_array[n]

(* The do-while of main refuses more frames than milliseconds, so that     *)
(* each frame could have one.  Yet with exactly as many, and three or      *)
(* more, some frame gets a delay of 0 ms; nowhere else.  The last frame is *)
(* never shorter than another.                                             *)
ZeroDelays ==
  \A n \in DOMAIN period_array :
    LET frames == tasks[n].frames IN
    /\ (\E f \in DOMAIN frames : frames[f].ms = 0) <=>
         (Len(frames) = period_array[n] /\ Len(frames) >= 3)
    /\ \A f \in DOMAIN frames : frames[f].ms <= frames[Len(frames)].ms
=============================================================================
