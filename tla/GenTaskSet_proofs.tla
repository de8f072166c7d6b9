------------------------- MODULE GenTaskSet_proofs -------------------------
(***************************************************************************)
(* Proofs about the generator: for every table of periods, every number of *)
(* tasks and frames.                                                       *)
(***************************************************************************)
EXTENDS GenTaskSet, TLAPS

This == Len(tasks)
Written == Len(tasks[This].frames)

LEMMA Quotient == ASSUME NEW x \in Nat, NEW d \in Nat \ {0}
                  PROVE  x \div d \in 0..x /\ (d = 1 => x \div d = x)
BY Z3

(* A period in the table has a place there. *)
LEMMA PriorityInTable == ASSUME NEW p \in Periods
                         PROVE  Priority(p) \in DOMAIN PeriodTable
BY DEF Periods, Priority

LEMMA PeriodsNat == Periods \subseteq Nat \ {0}
<1> SUFFICES ASSUME NEW n \in DOMAIN PeriodTable
             PROVE  PeriodTable[n] \in Nat \ {0}
  BY DEF Periods
<1> QED
  BY TableAssumption

(* The lists of tasks go together, and while the frames of a task are cut, *)
(* what is cut and what is written so far add up: all but the last frame   *)
(* are cut one ahead of being written, then the rest of the period is.     *)
Lists ==
  /\ Len(round) = Len(tasks)
  /\ Len(tasks) = Len(period_array) + (IF at = "frame" THEN 1 ELSE 0)

Cutting ==
  at = "frame" =>
    /\ priod \in Periods /\ frme \in 1..Frame
    /\ Written \in 0..frme
    /\ sum_period <= priod
    /\ Written = 0 \/ Written < frme - 1 =>
         /\ round[This] + frame_period = sum_period
         /\ count = Written + 1
         /\ frme = 1 => sum_period = priod
    /\ Written = frme - 1 /\ Written # 0 =>
         /\ round[This] = sum_period
         /\ frame_period = priod - sum_period
         /\ count = frme - 1
    /\ Written = frme => round[This] = priod

GInv == GenTypeOK /\ Lists /\ Cutting /\ FramesFillPeriod

LEMMA GInit == GenInit => GInv
<1> SUFFICES ASSUME GenInit PROVE GInv
  OBVIOUS
<1>1. GenTypeOK
  BY DEF GenInit, GenTypeOK
<1>2. Lists /\ Cutting /\ FramesFillPeriod
  BY DEF GenInit, Lists, Cutting, FramesFillPeriod
<1> QED
  BY <1>1, <1>2 DEF GInv

LEMMA GStartTask == GInv /\ StartTask => GInv'
<1> SUFFICES ASSUME GInv, StartTask PROVE GInv'
  OBVIOUS
<1> USE DEF GInv
<1>1. PICK p \in SampleTable, ofst \in Offsets : \E n \in FrameCounts(p) :
        /\ priod' = p
        /\ frme' = n
        /\ frame_period' = p \div n
        /\ sum_period' = p \div n
        /\ count' = 1
        /\ tasks' = Append(tasks, [offset |-> ofst, priority |-> Priority(p), frames |-> <<>>])
  BY DEF StartTask
<1>2. PICK n \in FrameCounts(p) :
        /\ priod' = p
        /\ frme' = n
        /\ frame_period' = p \div n
        /\ sum_period' = p \div n
        /\ count' = 1
        /\ tasks' = Append(tasks, [offset |-> ofst, priority |-> Priority(p), frames |-> <<>>])
  BY <1>1
<1>3. p \in Nat \ {0} /\ p \in Periods /\ n \in 1..Frame /\ ofst \in Nat
  BY PeriodsNat, ArgumentsAssumption DEF SampleTable, FrameCounts, Offsets
<1>4. p \div n \in 0..p /\ (n = 1 => p \div n = p)
  BY <1>3, Quotient, ArgumentsAssumption
<1>5. at = "task" /\ at' = "frame" /\ round' = Append(round, 0) /\ period_array' = period_array
  BY DEF StartTask
<1> DEFINE new == [offset |-> ofst, priority |-> Priority(p), frames |-> <<>>]
<1>6. new \in TaskTexts
  BY <1>3, PriorityInTable DEF TaskTexts
<1>7. tasks \in Seq(TaskTexts) /\ tasks' = Append(tasks, new)
  BY <1>2 DEF GenTypeOK
<1>8. tasks' \in Seq(TaskTexts) /\ Len(tasks') = Len(tasks) + 1 /\ tasks'[Len(tasks')] = new
  <2> HIDE DEF new
  <2> QED
    BY <1>6, <1>7
<1>9. This' = Len(tasks) + 1 /\ Written' = 0
  BY <1>8 DEF This, Written
<1>10. /\ round \in Seq(Nat) /\ round' \in Seq(Nat) /\ Len(round') = Len(round) + 1
       /\ round'[Len(round) + 1] = 0
       /\ \A k \in 1..Len(round) : round'[k] = round[k]
  BY <1>5 DEF GenTypeOK
<1>11. GenTypeOK'
  BY <1>2, <1>3, <1>4, <1>5, <1>8, <1>10, ArgumentsAssumption DEF GenTypeOK
<1>12. Lists'
  BY <1>5, <1>8, <1>10 DEF Lists, GenTypeOK
<1>13. round'[This'] = 0
  BY <1>9, <1>10 DEF Lists
<1>14. Cutting'
  BY <1>2, <1>3, <1>4, <1>9, <1>13 DEF Cutting
<1>15. FramesFillPeriod'
  <2>1. DOMAIN period_array = 1..Len(period_array) /\ Len(period_array) = Len(round)
    BY <1>5 DEF Lists, GenTypeOK
  <2> QED
    BY <2>1, <1>5, <1>10 DEF FramesFillPeriod
<1> QED
  BY <1>11, <1>12, <1>14, <1>15

LEMMA GEndTask == GInv /\ EndTask => GInv'
<1> SUFFICES ASSUME GInv, EndTask PROVE GInv'
  OBVIOUS
<1> USE DEF GInv
<1>1. at = "frame" /\ Written = frme /\ at' \in {"task", "main"}
  BY DEF EndTask, Written, This
<1>2. period_array' = Append(period_array, priod) /\ priod \in Periods
  BY <1>1 DEF EndTask, Cutting
<1>3. GenTypeOK'
  BY <1>1, <1>2 DEF GenTypeOK, EndTask
<1>4. Lists'
  BY <1>1, <1>2 DEF Lists, EndTask, GenTypeOK
<1>5. Cutting'
  BY <1>1 DEF Cutting
<1>6. FramesFillPeriod'
  <2>1. round[This] = priod /\ This = Len(period_array) + 1
    BY <1>1 DEF Cutting, Lists, This
  <2>2. round' = round
    BY DEF EndTask
  <2>3. ASSUME NEW n \in DOMAIN period_array' PROVE round[n] = period_array'[n]
    BY <1>2, <2>1, <2>3 DEF FramesFillPeriod, GenTypeOK
  <2> QED
    BY <2>2, <2>3 DEF FramesFillPeriod
<1> QED
  BY <1>3, <1>4, <1>5, <1>6

LEMMA GWriteFrame == GInv /\ WriteFrame => GInv'
<1> SUFFICES ASSUME GInv, WriteFrame PROVE GInv'
  OBVIOUS
<1> USE DEF GInv
<1>1. PICK frame \in Frames :
        tasks' = [tasks EXCEPT ![This].frames = Append(@, frame)]
  <2>1. PICK knd \in 0..(Sfdelay - 1), randnum \in 0..(Mbench - 1) :
          tasks' = [tasks EXCEPT ![This].frames = Append(@,
             [work |-> Workload(IF This = 1 THEN randnum + 1 ELSE randnum, knd),
              delay |-> IF knd = 0 THEN "sdelay" ELSE "fdelay",
              ms |-> frame_period])]
    BY DEF WriteFrame, This
  <2>2. \A r \in Nat : Workload(r, knd) \in Works
    BY DEF Workload, Works
  <2> DEFINE work == Workload(IF This = 1 THEN randnum + 1 ELSE randnum, knd)
  <2>3. work \in Works
    BY <2>2
  <2> HIDE DEF work
  <2> DEFINE new == [work |-> work, delay |-> IF knd = 0 THEN "sdelay" ELSE "fdelay",
                     ms |-> frame_period]
  <2>4. new \in Frames
    BY <2>3 DEF Frames, Delays, GenTypeOK
  <2>5. tasks' = [tasks EXCEPT ![This].frames = Append(@, new)]
    BY <2>1 DEF work
  <2> HIDE DEF new
  <2> QED
    BY <2>4, <2>5
<1>2. at = "frame" /\ at' = "frame" /\ Written < frme
  BY DEF WriteFrame, Written, This
<1>3. /\ priod' = priod /\ frme' = frme /\ period_array' = period_array
      /\ \/ /\ count < frme - 1
            /\ frame_period' = NextShare
            /\ sum_period' = sum_period + NextShare
            /\ count' = count + 1
         \/ /\ ~(count < frme - 1)
            /\ frame_period' = priod - sum_period
            /\ sum_period' = sum_period /\ count' = count
  BY DEF WriteFrame, This, CutFrame
<1>13. round' = [round EXCEPT ![This] = @ + frame_period]
  BY DEF WriteFrame, This
<1>4. /\ tasks \in Seq(TaskTexts) /\ round \in Seq(Nat)
      /\ This \in DOMAIN tasks /\ This \in DOMAIN round
      /\ DOMAIN tasks = 1..Len(tasks) /\ DOMAIN round = 1..Len(tasks)
  BY <1>2 DEF GenTypeOK, Lists, This
<1>5. /\ tasks' \in Seq(TaskTexts) /\ Len(tasks') = Len(tasks)
      /\ This' = This /\ Written' = Written + 1
  <2> DEFINE task == tasks[This]
             frames == Append(task.frames, frame)
             new == [task EXCEPT !.frames = frames]
  <2>1. task \in TaskTexts
    BY <1>4
  <2>3. tasks' = [tasks EXCEPT ![This] = new]
    BY <1>1
  <2>7. Written = Len(task.frames)
    BY DEF Written
  <2> HIDE DEF task
  <2>8. task.frames \in Seq(Frames)
    BY <2>1 DEF TaskTexts
  <2>9. frames \in Seq(Frames) /\ Len(frames) = Len(task.frames) + 1
    BY <2>8
  <2> HIDE DEF frames
  <2>2. new \in TaskTexts /\ new.frames = frames
    BY <2>1, <2>9 DEF TaskTexts
  <2> HIDE DEF new
  <2>4. tasks' \in Seq(TaskTexts) /\ Len(tasks') = Len(tasks) /\ tasks'[This] = new
    BY <2>2, <2>3, <1>4
  <2>5. This' = This
    BY <2>4 DEF This
  <2>6. Len(new.frames) = Written + 1
    BY <2>2, <2>7, <2>9
  <2> QED
    BY <2>4, <2>5, <2>6 DEF Written
<1>6. /\ round' \in Seq(Nat) /\ Len(round') = Len(round)
      /\ round'[This] = round[This] + frame_period
      /\ \A k \in DOMAIN round \ {This} : round'[k] = round[k]
  BY <1>13, <1>4, <1>2 DEF GenTypeOK
<1>7. /\ priod \in Nat \ {0} /\ frme \in 1..Frame /\ Written \in 0..frme
      /\ sum_period \in 0..priod /\ count \in Nat /\ frame_period \in Nat
      /\ Frame \in Nat /\ round[This] \in Nat
  BY <1>2, <1>4, PeriodsNat, ArgumentsAssumption DEF Cutting, GenTypeOK
<1>8. count < frme - 1 => NextShare \in 0..(priod - sum_period)
  <2> SUFFICES ASSUME count < frme - 1 PROVE NextShare \in 0..(priod - sum_period)
    OBVIOUS
  <2>1. priod - sum_period \in Nat /\ (frme + 1) - count \in Nat \ {0}
    BY <1>7
  <2> QED
    BY <2>1, Quotient DEF NextShare
<1>9. GenTypeOK'
  BY <1>2, <1>3, <1>5, <1>6, <1>7, <1>8 DEF GenTypeOK
<1>10. Lists'
  BY <1>2, <1>3, <1>5, <1>6 DEF Lists
<1>11. Cutting'
  <2>1. CASE count < frme - 1
    <3> DEFINE share == NextShare
    <3>1. share \in 0..(priod - sum_period) /\ frame_period' = share
          /\ sum_period' = sum_period + share /\ count' = count + 1
      BY <2>1, <1>3, <1>8
    <3> HIDE DEF share
    <3> QED
      BY <2>1, <3>1, <1>2, <1>3, <1>5, <1>6, <1>7 DEF Cutting
  <2>2. CASE ~(count < frme - 1)
    <3>1. /\ priod \in Periods /\ sum_period <= priod
          /\ Written = 0 \/ Written < frme - 1 =>
               /\ round[This] + frame_period = sum_period
               /\ count = Written + 1
               /\ frme = 1 => sum_period = priod
          /\ Written = frme - 1 /\ Written # 0 =>
               /\ round[This] = sum_period
               /\ frame_period = priod - sum_period
               /\ count = frme - 1
      BY <1>2 DEF Cutting
    <3>2. frame_period' = priod - sum_period /\ sum_period' = sum_period /\ count' = count
      BY <2>2, <1>3
    <3>3. CASE Written = frme - 1
      <4>1. round'[This] = priod
        BY <3>1, <3>3, <1>6, <1>7
      <4> QED
        BY <4>1, <3>1, <3>2, <3>3, <1>3, <1>5, <1>7 DEF Cutting
    <3>4. CASE Written # frme - 1
      <4>2. Written < frme - 1
        BY <3>4, <1>2, <1>7
      <4>3. round[This] + frame_period = sum_period /\ count = Written + 1
        BY <4>2, <3>1
      <4>1. Written = frme - 2 /\ count = frme - 1 /\ round'[This] = sum_period
        BY <4>2, <4>3, <2>2, <1>6, <1>7
      <4> QED
        BY <4>1, <3>1, <3>2, <1>3, <1>5, <1>7 DEF Cutting
    <3> QED
      BY <3>3, <3>4
  <2> QED
    BY <2>1, <2>2
<1>12. FramesFillPeriod'
  <2>1. DOMAIN period_array = 1..(Len(tasks) - 1)
    BY <1>2 DEF Lists, GenTypeOK
  <2>2. \A k \in DOMAIN period_array : k \in DOMAIN round \ {This}
    BY <2>1, <1>4 DEF This
  <2> QED
    BY <2>2, <1>3, <1>6 DEF FramesFillPeriod
<1> QED
  BY <1>9, <1>10, <1>11, <1>12

LEMMA GNextInv == GInv /\ [GenNext]_genVars => GInv'
<1> SUFFICES ASSUME GInv, [GenNext]_genVars PROVE GInv'
  OBVIOUS
<1>1. CASE WriteMain
  BY <1>1 DEF WriteMain, GInv, GenTypeOK, Lists, Cutting, FramesFillPeriod
<1>2. CASE UNCHANGED genVars
  BY <1>2 DEF genVars, GInv, GenTypeOK, Lists, Cutting, FramesFillPeriod, This, Written
<1> QED
  BY <1>1, <1>2, GStartTask, GWriteFrame, GEndTask DEF GenNext

(* Every variable of the generator keeps its type: no frame gets a         *)
(* negative share, no priority falls out of the table of periods.          *)
THEOREM GenTypeCorrect == GenSpec => []GenTypeOK
<1>1. GInv => GenTypeOK
  BY DEF GInv
<1> QED
  BY GInit, GNextInv, <1>1, PTL DEF GenSpec

(* However many frames a period is cut into, one round of the loop of the  *)
(* task takes exactly the period.                                          *)
THEOREM FramesAlwaysFillPeriod == GenSpec => []FramesFillPeriod
<1>1. GInv => FramesFillPeriod
  BY DEF GInv
<1> QED
  BY GInit, GNextInv, <1>1, PTL DEF GenSpec

-----------------------------------------------------------------------------
(* The shares of a period. *)

(* Integer division, of the whole period and of what is left of it.        *)
LEMMA Shared == ASSUME NEW x \in Nat, NEW d \in Nat \ {0}
                PROVE  /\ x \div d \in Nat
                       /\ (x \div d) * d <= x /\ x < (x \div d) * d + d
BY Z3

(* The first frame takes its share of the whole period. *)
LEMMA FirstShare ==
  ASSUME NEW p \in Nat \ {0}, NEW n \in 1..p, NEW s, s = p \div n
  PROVE  /\ s \in 1..p /\ s * (n - 1) <= p - s
         /\ n = 1 => s = p
         /\ n >= 2 => p - s >= 1
         /\ n >= 3 /\ n < p => p - s >= n
         /\ n = p => s = 1
<1>1. n \in Nat \ {0} /\ n <= p
  OBVIOUS
<1>2. s \in Nat /\ s * n <= p /\ p < s * n + n
  BY <1>1, Shared
<1>3. s >= 1
  BY <1>1, <1>2, Z3
<1>4. s * (n - 1) = s * n - s
  BY <1>1, <1>2, Z3
<1>5. n = 1 => s = p
  BY <1>1, <1>2
<1>6. s <= p
  BY <1>1, <1>2, Z3
<1>7. n >= 2 => p - s >= 1
  BY <1>1, <1>2, <1>3, Z3
<1>8. n >= 3 /\ n < p => p - s >= n
  <2>1. CASE s = 1
    BY <1>1, <1>2, <2>1
  <2>2. CASE s >= 2
    <3>1. (s - 1) * (n - 1) + n - 1 = s * n - s
      BY <1>1, <1>2, Z3
    <3>2. n >= 3 => (s - 1) * (n - 1) >= 2
      BY <1>1, <2>2, <1>2, Z3
    <3>3. (s - 1) * (n - 1) \in Int /\ s * n \in Int
      BY <1>1, <1>2
    <3> QED BY <1>1, <1>2, <3>1, <3>2, <3>3
  <2> QED BY <1>2, <1>3, <2>1, <2>2
<1>9. n = p => s = 1
  BY <1>1, <1>2, <1>3, Z3
<1>10. s * n \in Int
  BY <1>1, <1>2
<1> QED BY <1>1, <1>2, <1>3, <1>4, <1>5, <1>6, <1>7, <1>8, <1>9, <1>10

(* A later frame takes its share of the rest, as if there were one more    *)
(* frame to come; what fitted into the rest that often fits once less now. *)
LEMMA LaterShare ==
  ASSUME NEW rest \in Nat, NEW d \in Nat, d >= 3, NEW s, s = rest \div d
  PROVE  /\ s \in 0..rest /\ s * (d - 2) <= rest - s
         /\ \A m \in Nat : m * (d - 1) <= rest => m * (d - 2) <= rest - s
         /\ rest >= d => s >= 1 /\ rest - s >= d - 1
         /\ rest < d => s = 0
<1>1. s \in Nat /\ s * d <= rest /\ rest < s * d + d
  BY Shared
<1>2. s <= rest /\ s * (d - 2) = s * d - 2 * s /\ s * d \in Int
  BY <1>1, Z3
<1>3. ASSUME NEW m \in Nat, m * (d - 1) <= rest PROVE m * (d - 2) <= rest - s
  <2>1. m * (d - 2) = m * (d - 1) - m /\ m * (d - 1) \in Int
    BY Z3
  <2>2. CASE s <= m
    BY <1>1, <1>3, <2>1, <2>2
  <2>3. CASE m < s
    <3>1. m * (d - 2) <= s * (d - 2)
      BY <1>1, <2>3, Z3
    <3>2. m * (d - 2) \in Int
      OBVIOUS
    <3> QED BY <1>1, <1>2, <3>1, <3>2
  <2> QED BY <1>1, <2>2, <2>3
<1>4. rest >= d => s >= 1
  BY <1>1, Z3
<1>5. rest >= d => rest - s >= d - 1
  <2> SUFFICES ASSUME rest >= d PROVE rest - s >= d - 1
    OBVIOUS
  <2>1. (s - 1) * (d - 1) + d - 1 = s * d - s
    BY <1>1, Z3
  <2>2. (s - 1) * (d - 1) \in Int /\ (s - 1) * (d - 1) >= 0
    BY <1>1, <1>4, Z3
  <2> QED BY <1>1, <1>2, <2>1, <2>2
<1>6. rest < d => s = 0
  BY <1>1, Z3
<1> QED BY <1>1, <1>2, <1>3, <1>4, <1>5, <1>6

Rest == priod - sum_period
FramesOf(n) == tasks[n].frames

(* A frame is written with the length it was cut to, behind the others.    *)
LEMMA FrameWritten ==
  ASSUME GInv, WriteFrame
  PROVE  /\ This' = This /\ Written' = Written + 1
         /\ \A f \in 1..Written : FramesOf(This)'[f].ms = FramesOf(This)[f].ms
         /\ FramesOf(This)'[Written + 1].ms = frame_period
         /\ \A n \in 1..(This - 1) : tasks'[n] = tasks[n]
         /\ Written \in Nat /\ This \in Nat \ {0}
<1>1. at = "frame" /\ tasks \in Seq(TaskTexts) /\ Len(tasks) = Len(period_array) + 1
  BY DEF WriteFrame, GInv, GenTypeOK, Lists
<1>2. This \in DOMAIN tasks /\ DOMAIN tasks = 1..This /\ This \in Nat \ {0}
  BY <1>1 DEF GInv, GenTypeOK, This
<1>3. PICK new :
        tasks' = [tasks EXCEPT ![This].frames = Append(@, new)] /\ new.ms = frame_period
  <2>1. PICK knd \in 0..(Sfdelay - 1), randnum \in 0..(Mbench - 1) :
          tasks' = [tasks EXCEPT ![This].frames = Append(@,
             [work |-> Workload(IF This = 1 THEN randnum + 1 ELSE randnum, knd),
              delay |-> IF knd = 0 THEN "sdelay" ELSE "fdelay",
              ms |-> frame_period])]
    BY DEF WriteFrame, This
  <2> DEFINE new == [work |-> Workload(IF This = 1 THEN randnum + 1 ELSE randnum, knd),
                     delay |-> IF knd = 0 THEN "sdelay" ELSE "fdelay",
                     ms |-> frame_period]
  <2>2. new.ms = frame_period
    OBVIOUS
  <2>3. tasks' = [tasks EXCEPT ![This].frames = Append(@, new)]
    BY <2>1
  <2> HIDE DEF new
  <2> QED BY <2>2, <2>3
<1>4. PICK frames : frames = Append(tasks[This].frames, new)
  OBVIOUS
<1>5. tasks[This] \in TaskTexts
  BY <1>1, <1>2
<1>6. tasks[This].frames \in Seq(Frames) /\ Written = Len(tasks[This].frames)
  BY <1>5 DEF TaskTexts, Written
<1>7. /\ Len(frames) = Written + 1 /\ Written \in Nat
      /\ \A f \in 1..Written : frames[f] = tasks[This].frames[f]
      /\ frames[Written + 1] = new
  BY <1>4, <1>6
<1>8. /\ Len(tasks') = This
      /\ tasks'[This].frames = frames
      /\ \A n \in 1..(This - 1) : tasks'[n] = tasks[n]
  <2>1. tasks' = [tasks EXCEPT ![This] = [tasks[This] EXCEPT !.frames = frames]]
    BY <1>3, <1>4
  <2>2. [tasks[This] EXCEPT !.frames = frames].frames = frames
    BY <1>5 DEF TaskTexts
  <2> QED BY <2>1, <2>2, <1>1, <1>2 DEF This
<1>9. This' = This /\ Written' = Len(frames)
  BY <1>8 DEF This, Written
<1> QED BY <1>2, <1>3, <1>7, <1>8, <1>9 DEF FramesOf

Exact == priod = frme /\ frme >= 3

(* What the lengths of the frames written so far, and of the next, are to  *)
(* the rest of the period that is still to be cut: each goes into it once  *)
(* for each frame to come, and unless there are as many frames as          *)
(* milliseconds the rest has one for each and one to spare.                *)
Fits(ms) == ms \in Nat /\ ms * (frme - count) <= Rest

Shares ==
  at = "frame" =>
    /\ frme <= priod
    /\ Written < frme => count \in 1..frme
    /\ Written < frme - 1 => count = Written + 1 /\ count < frme
    /\ Written < frme => \A f \in 1..Written : Fits(FramesOf(This)[f].ms)
    /\ Written = 0 \/ Written < frme - 1 => Fits(frame_period)
    /\ Written = frme =>
         \A f \in 1..frme : FramesOf(This)[f].ms <= FramesOf(This)[frme].ms
    /\ Exact => /\ Written = 0 => Rest = frme - 1
                /\ Written = 1 => frame_period = 0
                /\ Written >= 2 => FramesOf(This)[2].ms = 0
    /\ ~Exact => /\ \A f \in 1..Written : FramesOf(This)[f].ms >= 1
                 /\ Written < frme => frame_period >= 1
                 /\ Written < frme - 1 => Rest >= 1
                 /\ Written < frme - 1 /\ frme >= 3 => Rest >= frme + 1 - count

(* A task that is complete has the number of frames it was cut for. *)
ZInv == GInv /\ Shares /\ ZeroDelays

LEMMA ZInit == GenInit => Shares /\ ZeroDelays
BY DEF GenInit, Shares, ZeroDelays

LEMMA ZStartTask == ZInv /\ StartTask => Shares' /\ ZeroDelays'
<1> SUFFICES ASSUME ZInv, StartTask PROVE Shares' /\ ZeroDelays'
  OBVIOUS
<1>1. PICK p \in SampleTable, n \in Nat, first \in TaskTexts :
        /\ n \in FrameCounts(p) /\ first.frames = <<>>
        /\ priod' = p /\ frme' = n /\ count' = 1
        /\ frame_period' = p \div n /\ sum_period' = p \div n
        /\ tasks' = Append(tasks, first)
  <2>1. PICK p \in SampleTable, ofst \in Offsets : \E n \in FrameCounts(p) :
          /\ priod' = p /\ frme' = n /\ count' = 1
          /\ frame_period' = p \div n /\ sum_period' = p \div n
          /\ tasks' = Append(tasks, [offset |-> ofst, priority |-> Priority(p), frames |-> <<>>])
    BY DEF StartTask
  <2>2. p \in Periods /\ ofst \in Nat
    BY ArgumentsAssumption DEF SampleTable, Offsets
  <2>3. [offset |-> ofst, priority |-> Priority(p), frames |-> <<>>] \in TaskTexts
    BY <2>2, PriorityInTable DEF TaskTexts
  <2>4. [offset |-> ofst, priority |-> Priority(p), frames |-> <<>>].frames = <<>>
    OBVIOUS
  <2>5. FrameCounts(p) \subseteq Nat
    BY ArgumentsAssumption DEF FrameCounts
  <2> QED BY <2>1, <2>3, <2>4, <2>5
<1>2. p \in Nat \ {0} /\ n \in 1..p
  BY <1>1, PeriodsNat, ArgumentsAssumption DEF SampleTable, FrameCounts
<1>3. /\ tasks \in Seq(TaskTexts) /\ period_array' = period_array
      /\ Len(period_array) = Len(tasks) /\ DOMAIN period_array = 1..Len(tasks)
  BY DEF ZInv, GInv, GenTypeOK, Lists, StartTask
<1>4. /\ Len(tasks') = Len(tasks) + 1 /\ tasks'[Len(tasks) + 1] = first
      /\ \A k \in 1..Len(tasks) : tasks'[k] = tasks[k]
  BY <1>1, <1>3
<1>5. ZeroDelays'
  BY <1>3, <1>4 DEF ZInv, ZeroDelays
<1>6. Written' = 0
  BY <1>1, <1>4 DEF Written, This
<1> DEFINE s == p \div n
<1>7. /\ s \in 1..p /\ s * (n - 1) <= p - s
      /\ n = 1 => s = p
      /\ n >= 2 => p - s >= 1
      /\ n >= 3 /\ n < p => p - s >= n
      /\ n = p => s = 1
  BY <1>2, FirstShare
<1>8. frame_period' = s /\ sum_period' = s /\ priod' = p /\ frme' = n /\ count' = 1
  BY <1>1
<1> HIDE DEF s
<1>9. Rest' = p - s /\ s \in Nat
  BY <1>2, <1>7, <1>8 DEF Rest
<1>10. Fits(frame_period)'
  BY <1>7, <1>8, <1>9 DEF Fits
<1>11. Shares'
  BY <1>2, <1>6, <1>7, <1>8, <1>9, <1>10 DEF Shares, Exact
<1> QED BY <1>5, <1>11

LEMMA ZEndTask == ZInv /\ EndTask => Shares' /\ ZeroDelays'
<1> SUFFICES ASSUME ZInv, EndTask PROVE Shares' /\ ZeroDelays'
  OBVIOUS
<1>1. /\ at = "frame" /\ Written = frme /\ at' # "frame" /\ tasks' = tasks
      /\ period_array' = Append(period_array, priod)
  BY DEF EndTask, Written, This
<1>2. Shares'
  BY <1>1 DEF Shares
<1>3. /\ period_array \in Seq(Periods) /\ priod \in Periods /\ frme \in Nat \ {0}
      /\ This = Len(period_array) + 1 /\ tasks \in Seq(TaskTexts)
  BY <1>1, ArgumentsAssumption DEF ZInv, GInv, GenTypeOK, Lists, Cutting, This
<1>4. /\ DOMAIN period_array' = 1..This /\ period_array'[This] = priod
      /\ \A n \in 1..(This - 1) : n \in DOMAIN period_array
                                  /\ period_array'[n] = period_array[n]
  BY <1>1, <1>3
<1>5. tasks[This].frames \in Seq(Frames) /\ Len(tasks[This].frames) = frme
  <2>1. tasks[This] \in TaskTexts
    BY <1>3 DEF This
  <2> QED BY <1>1, <2>1 DEF TaskTexts, Written
<1>6. DOMAIN tasks[This].frames = 1..frme
  BY <1>5
<1>7. \A f \in 1..frme : tasks[This].frames[f].ms <= tasks[This].frames[frme].ms
  BY <1>1 DEF ZInv, Shares, FramesOf
<1>8. (\E f \in 1..frme : tasks[This].frames[f].ms = 0) <=> Exact
  <2>1. CASE Exact
    <3>1. 2 \in 1..frme /\ tasks[This].frames[2].ms = 0
      BY <1>1, <1>3, <2>1 DEF ZInv, Shares, FramesOf, Exact
    <3> QED BY <2>1, <3>1
  <2>2. CASE ~Exact
    <3>1. \A f \in 1..frme : tasks[This].frames[f].ms >= 1
      BY <1>1, <2>2 DEF ZInv, Shares, FramesOf
    <3> QED BY <2>2, <3>1
  <2> QED BY <2>1, <2>2
<1>9. ZeroDelays'
  <2> SUFFICES ASSUME NEW n \in 1..This
               PROVE  LET frames == tasks[n].frames IN
                 /\ (\E f \in DOMAIN frames : frames[f].ms = 0) <=>
                      (Len(frames) = period_array'[n] /\ Len(frames) >= 3)
                 /\ \A f \in DOMAIN frames : frames[f].ms <= frames[Len(frames)].ms
    BY <1>1, <1>4 DEF ZeroDelays
  <2>1. CASE n = This
    BY <2>1, <1>4, <1>5, <1>6, <1>7, <1>8 DEF Exact
  <2>2. CASE n # This
    BY <2>2, <1>3, <1>4 DEF ZInv, ZeroDelays
  <2> QED BY <2>1, <2>2
<1> QED BY <1>2, <1>9

LEMMA ZWriteFrame == ZInv /\ WriteFrame => Shares' /\ ZeroDelays'
<1> SUFFICES ASSUME ZInv, WriteFrame PROVE Shares' /\ ZeroDelays'
  OBVIOUS
<1>1. /\ at = "frame" /\ at' = "frame" /\ Written < frme
      /\ UNCHANGED <<priod, frme, period_array>>
      /\ IF count < frme - 1
           THEN /\ frame_period' = NextShare
                /\ sum_period' = sum_period + NextShare
                /\ count' = count + 1
           ELSE frame_period' = Rest /\ sum_period' = sum_period /\ count' = count
  BY DEF WriteFrame, CutFrame, Written, This, Rest
<1>2. /\ This' = This /\ Written' = Written + 1
      /\ \A f \in 1..Written : FramesOf(This)'[f].ms = FramesOf(This)[f].ms
      /\ FramesOf(This)'[Written + 1].ms = frame_period
      /\ \A n \in 1..(This - 1) : tasks'[n] = tasks[n]
      /\ Written \in Nat /\ This \in Nat \ {0}
  BY FrameWritten DEF ZInv
<1>3. ZeroDelays'
  <2>1. DOMAIN period_array = 1..(This - 1)
    BY <1>1 DEF ZInv, GInv, GenTypeOK, Lists, This
  <2>2. period_array' = period_array /\ \A n \in DOMAIN period_array : tasks'[n] = tasks[n]
    BY <1>1, <1>2, <2>1
  <2> QED BY <2>2 DEF ZInv, ZeroDelays
<1>4. /\ priod \in Nat /\ frme \in Nat \ {0} /\ frme <= priod
      /\ Rest \in Nat /\ frame_period \in Nat /\ count \in 1..frme
  BY <1>1, PeriodsNat, ArgumentsAssumption
  DEF ZInv, GInv, GenTypeOK, Cutting, Rest, Shares
<1>5. Exact' = Exact
  BY <1>1 DEF Exact
<1>6. \A f \in 1..Written' : FramesOf(This)'[f].ms =
        IF f = Written' THEN frame_period ELSE FramesOf(This)[f].ms
  BY <1>2
<1>7. \A f \in 1..Written : Fits(FramesOf(This)[f].ms)
  BY <1>1 DEF ZInv, Shares
<1>8. CASE Written < frme - 1 /\ count < frme - 1
  <2> DEFINE s == NextShare
             d == (frme + 1) - count
  <2>1. count = Written + 1 /\ Fits(frame_period) /\ d \in Nat /\ d >= 3
    BY <1>1, <1>4, <1>8 DEF ZInv, Shares
  <2>2. s = Rest \div d
    BY DEF NextShare, Rest
  <2>3. frame_period' = s /\ sum_period' = sum_period + s /\ count' = count + 1
    BY <1>1, <1>8
  <2>4. d - 1 = frme - count /\ frme' - count' = d - 2
    BY <1>1, <1>4, <2>3
  <2> HIDE DEF s, d
  <2>5. /\ s \in 0..Rest /\ s * (d - 2) <= Rest - s
        /\ \A m \in Nat : m * (d - 1) <= Rest => m * (d - 2) <= Rest - s
        /\ Rest >= d => s >= 1 /\ Rest - s >= d - 1
        /\ Rest < d => s = 0
    BY <1>4, <2>1, <2>2, LaterShare
  <2>6. Rest' = Rest - s
    BY <1>1, <1>4, <2>3, <2>5 DEF Rest, ZInv, GInv, GenTypeOK
  <2>7. \A m : Fits(m) => Fits(m)'
    BY <2>4, <2>5, <2>6 DEF Fits
  <2>8. Fits(frame_period)'
    BY <1>4, <2>3, <2>4, <2>5, <2>6 DEF Fits
  <2>9. \A f \in 1..Written' : Fits(FramesOf(This)[f].ms)'
    <3> SUFFICES ASSUME NEW f \in 1..Written' PROVE Fits(FramesOf(This)[f].ms)'
      OBVIOUS
    <3>1. PICK m : m = FramesOf(This)'[f].ms
      OBVIOUS
    <3>2. Fits(m)
      BY <1>2, <1>6, <1>7, <2>1, <3>1
    <3>3. Fits(m)'
      BY <2>7, <3>2
    <3> QED BY <3>1, <3>3
  <2>10. Exact => /\ Written' # 0
                  /\ Written' = 1 => s = 0
                  /\ Written' >= 2 => FramesOf(This)'[2].ms = 0
    <3> SUFFICES ASSUME Exact PROVE /\ Written' = 1 => s = 0
                                    /\ Written' >= 2 => FramesOf(This)'[2].ms = 0
      BY <1>2
    <3>1. Written = 0 => s = 0
      <4> SUFFICES ASSUME Written = 0 PROVE s = 0
        OBVIOUS
      <4>1. Rest = frme - 1 /\ d = frme
        BY <1>1, <1>4, <2>1 DEF ZInv, Shares, d
      <4> QED BY <1>4, <2>5, <4>1
    <3>2. Written = 1 => frame_period = 0
      BY <1>1 DEF ZInv, Shares
    <3>3. Written >= 2 => FramesOf(This)[2].ms = 0
      BY <1>1 DEF ZInv, Shares
    <3> QED BY <1>2, <1>6, <3>1, <3>2, <3>3
  <2>11. ~Exact => /\ \A f \in 1..Written' : FramesOf(This)'[f].ms >= 1
                   /\ s >= 1
                   /\ Rest' >= frme + 1 - count'
    <3> SUFFICES ASSUME ~Exact PROVE /\ \A f \in 1..Written' : FramesOf(This)'[f].ms >= 1
                                     /\ s >= 1 /\ Rest' >= frme + 1 - count'
      OBVIOUS
    <3>1. frame_period >= 1 /\ \A f \in 1..Written : FramesOf(This)[f].ms >= 1
      BY <1>1 DEF ZInv, Shares
    <3>2. frme >= 3
      BY <1>4, <1>8
    <3>3. Rest >= d
      BY <1>1, <1>4, <1>8, <3>2 DEF ZInv, Shares, d
    <3> QED BY <1>2, <1>4, <1>6, <2>3, <2>4, <2>5, <2>6, <3>1, <3>3
  <2>12. Shares'
    <3>1. Written' < frme - 1 /\ frme' = frme /\ priod' = priod /\ count' \in 1..frme
      BY <1>1, <1>2, <1>4, <1>8, <2>1, <2>3
    <3>2. Rest' \in Int /\ (Rest' >= frme + 1 - count' => Rest' >= 1)
      <4>1. Rest' \in Int
        BY <1>4, <2>5, <2>6
      <4>2. count' \in Int /\ frme \in Int /\ count' <= frme
        BY <1>4, <3>1
      <4>3. \A x, y, z \in Int : y <= z /\ x >= z + 1 - y => x >= 1
        OBVIOUS
      <4> QED BY <4>1, <4>2, <4>3
    <3>3. Written' \in Nat \ {0} /\ count' = Written' + 1
      BY <1>2, <2>1, <2>3
    <3>4. Written' < frme' /\ Written' # frme' /\ frme' <= priod' /\ count' < frme'
      <4>1. Written' \in Int /\ frme' = frme /\ frme \in Int /\ Written' < frme - 1
        BY <1>4, <3>1, <3>3
      <4>2. count' \in Int /\ count' < frme
        <5>1. \A w, c, n \in Int : w < n - 1 /\ c = w + 1 => c < n
          OBVIOUS
        <5>2. count' \in Int /\ count' = Written' + 1
          BY <4>1, <3>3
        <5> QED BY <4>1, <5>1, <5>2
      <4> QED BY <1>4, <4>1, <4>2, <3>1
    <3>5. \A f \in 1..Written' : Fits(FramesOf(This)[f].ms)'
      BY <2>9
    <3>6. Exact' => /\ Written' # 0
                    /\ Written' = 1 => frame_period' = 0
                    /\ Written' >= 2 => FramesOf(This)'[2].ms = 0
      BY <1>5, <2>3, <2>10
    <3>7. ~Exact' => /\ \A f \in 1..Written' : FramesOf(This)'[f].ms >= 1
                     /\ frame_period' >= 1 /\ Rest' >= 1
                     /\ Rest' >= frme' + 1 - count'
      BY <1>5, <2>3, <2>11, <3>1, <3>2
    <3> QED BY <2>8, <3>1, <3>3, <3>4, <3>5, <3>6, <3>7 DEF Shares
  <2> QED BY <1>3, <2>12
<1>9. CASE Written < frme - 1 /\ ~(count < frme - 1)
  <2>1. /\ count = frme - 1 /\ Written' = frme - 1 /\ Written' # 0 /\ Fits(frame_period)
        /\ count = Written + 1
    BY <1>1, <1>2, <1>4, <1>9 DEF ZInv, Shares
  <2>2. frame_period' = Rest /\ Rest' = Rest /\ count' = count
    BY <1>1, <1>9 DEF Rest
  <2>3. \A m : Fits(m) => Fits(m)'
    BY <1>1, <2>2 DEF Fits
  <2>4. \A f \in 1..Written' : Fits(FramesOf(This)[f].ms)'
    <3> SUFFICES ASSUME NEW f \in 1..Written' PROVE Fits(FramesOf(This)[f].ms)'
      OBVIOUS
    <3>1. PICK m : m = FramesOf(This)'[f].ms
      OBVIOUS
    <3>2. Fits(m)
      BY <1>2, <1>6, <1>7, <2>1, <3>1
    <3>3. Fits(m)'
      BY <2>3, <3>2
    <3> QED BY <3>1, <3>3
  <2>5. Exact => /\ Written' # 0 /\ Written' # 1
                 /\ Written' >= 2 => FramesOf(This)'[2].ms = 0
    <3> SUFFICES ASSUME Exact PROVE Written' # 1 /\ FramesOf(This)'[2].ms = 0
      BY <2>1
    <3>1. frme >= 3 /\ Written >= 1
      BY <1>2, <1>4, <1>9, <2>1 DEF Exact
    <3>2. Written = 1 => frame_period = 0
      BY <1>1 DEF ZInv, Shares
    <3>3. Written >= 2 => FramesOf(This)[2].ms = 0
      BY <1>1 DEF ZInv, Shares
    <3> QED BY <1>2, <1>6, <3>1, <3>2, <3>3
  <2>6. ~Exact => /\ \A f \in 1..Written' : FramesOf(This)'[f].ms >= 1
                  /\ frame_period' >= 1
    BY <1>1, <1>2, <1>6, <1>9, <2>2 DEF ZInv, Shares
  <2>7. Shares'
    <3>1. frme' = frme /\ priod' = priod /\ count' \in 1..frme /\ Written' < frme
          /\ ~(Written' < frme - 1) /\ ~(Written' = 0 \/ Written' < frme - 1)
      BY <1>1, <1>4, <2>1, <2>2
    <3> QED BY <1>1, <1>4, <1>5, <2>1, <2>4, <2>5, <2>6, <3>1 DEF Shares, FramesOf
  <2> QED BY <1>3, <2>7
<1>10. CASE ~(Written < frme - 1)
  <2>1. Written = frme - 1 /\ Written' = frme
    BY <1>1, <1>2, <1>4, <1>10
  <2>2. \A f \in 1..Written : FramesOf(This)[f].ms <= frame_period
    <3>1. CASE Written = 0
      BY <3>1
    <3>2. CASE Written # 0
      <4>1. frame_period = Rest /\ count = frme - 1
        BY <1>1, <2>1, <3>2 DEF ZInv, GInv, Cutting, Rest
      <4>2. \A m : Fits(m) => m <= Rest
        BY <1>4, <4>1 DEF Fits
      <4> QED BY <1>7, <4>1, <4>2
    <3> QED BY <3>1, <3>2
  <2>3. \A f \in 1..frme : FramesOf(This)'[f].ms <= FramesOf(This)'[frme].ms
    BY <1>2, <1>4, <1>6, <2>1, <2>2
  <2>4. Exact => /\ Written' >= 2
                 /\ FramesOf(This)'[2].ms = 0
    <3> SUFFICES ASSUME Exact PROVE Written' >= 2 /\ FramesOf(This)'[2].ms = 0
      OBVIOUS
    <3>1. Written >= 2
      BY <1>2, <1>4, <2>1 DEF Exact
    <3>2. FramesOf(This)[2].ms = 0
      BY <1>1, <3>1 DEF ZInv, Shares
    <3> QED BY <1>2, <3>1, <3>2
  <2>5. ~Exact => \A f \in 1..Written' : FramesOf(This)'[f].ms >= 1
    BY <1>1, <1>2, <1>6 DEF ZInv, Shares
  <2>6. Shares'
    <3>1. frme' = frme /\ priod' = priod
      BY <1>1
    <3> QED BY <1>4, <1>5, <2>1, <2>3, <2>4, <2>5, <3>1 DEF Shares, FramesOf
  <2> QED BY <1>3, <2>6
<1> QED BY <1>8, <1>9, <1>10

LEMMA ZNextInv == ZInv /\ [GenNext]_genVars => ZInv'
<1> SUFFICES ASSUME ZInv, [GenNext]_genVars PROVE ZInv'
  OBVIOUS
<1>1. GInv'
  BY GNextInv DEF ZInv
<1>2. CASE WriteMain
  BY <1>1, <1>2 DEF WriteMain, ZInv, Shares, ZeroDelays
<1>3. CASE UNCHANGED genVars
  BY <1>1, <1>3
  DEF genVars, ZInv, Shares, ZeroDelays, FramesOf, This, Written, Exact, Fits, Rest
<1> QED
  BY <1>1, <1>2, <1>3, ZStartTask, ZWriteFrame, ZEndTask DEF GenNext, ZInv

(* A generated frame has a delay of 0 ms exactly in the tasks with as many *)
(* frames as milliseconds, and three or more, and the last frame of a task *)
(* is never shorter than another: for every table and every argument.      *)
THEOREM ZeroDelaysWhere == GenSpec => []ZeroDelays
<1>1. GenInit => ZInv
  BY GInit, ZInit DEF ZInv
<1>2. ZInv => ZeroDelays
  BY DEF ZInv
<1> QED
  BY <1>1, <1>2, ZNextInv, PTL DEF GenSpec
=============================================================================
