------------------------- MODULE HardDeadline_proofs -------------------------
(***************************************************************************)
(* The properties of HardDeadline for any number of tasks, timing points   *)
(* and versions of the program, and for whatever fails or is interrupted.  *)
(***************************************************************************)
EXTENDS HardDeadline, TLAPS

(* What a trace and a field can be. *)
LEMMA FileTypes ==
  /\ Absent \in Traces /\ Partial \in Traces
  /\ \A rows \in [Point -> Fields] : Whole(rows) \in Traces
  /\ AllRows(Measured) \in [Point -> Fields]
  /\ NoWcet \in WcetFiles /\ EmptyWcet \in WcetFiles
  /\ \A p \in Point, v \in Versions :
       OneLine(p, Static(v)) \in WcetFiles /\ OneLine(p, NoNumber) \in WcetFiles
BY DEF Absent, Partial, Whole, AllRows, Traces, Fields, NoWcet, EmptyWcet, OneLine,
       WcetFiles, Lines, StaticTimes

(* The versions stay in the range of Programs. *)
LEMMA ProgramFragments ==
  ASSUME NEW v \in Versions
  PROVE  Programs[v] \in SUBSET Fragments
BY ProgramsAssumption

(* A row of a rewritten trace is blank because the .wcet file is empty, is *)
(* the number of a line for its point, or is as it was.                    *)
LEMMA RewrittenRow ==
  ASSUME NEW rows, NEW file \in WcetFiles, Readable(file), NEW p \in Point
  PROVE  \/ Rewritten(rows, file)[p] = rows[p]
         \/ Rewritten(rows, file)[p] = Blank /\ file.exists
         \/ \E line \in file.lines : /\ line.tp = p /\ line.value \in StaticTimes
                                     /\ Rewritten(rows, file)[p] = line.value
<1>1. CASE ~file.exists
  BY <1>1 DEF Rewritten
<1>2. CASE file.exists /\ file.lines = {}
  BY <1>2 DEF Rewritten
<1>3. CASE file.exists /\ file.lines # {}
  <2> DEFINE line == CHOOSE x \in file.lines : TRUE
  <2>1. line \in file.lines
    BY <1>3
  <2>2. line.value \in StaticTimes
    BY <2>1 DEF Readable, WcetFiles, Lines
  <2>3. Rewritten(rows, file)[p] = IF line.tp = p THEN line.value ELSE rows[p]
    BY <1>3 DEF Rewritten
  <2> QED BY <2>1, <2>2, <2>3
<1> QED BY <1>1, <1>2, <1>3

LEMMA RewrittenType ==
  ASSUME NEW rows \in [Point -> Fields], NEW file \in WcetFiles, Readable(file)
  PROVE  Rewritten(rows, file) \in [Point -> Fields]
<1>1. \A p \in Point : Rewritten(rows, file)[p] \in Fields
  BY RewrittenRow DEF Fields
<1>2. Rewritten(rows, file) = [p \in Point |-> Rewritten(rows, file)[p]]
  BY DEF Rewritten
<1> QED BY <1>1, <1>2

(* A line for the point of a row puts its number there. *)
LEMMA RewrittenLine ==
  ASSUME NEW rows, NEW p \in Point, NEW value
  PROVE  Rewritten(rows, OneLine(p, value))[p] = value
<1>1. \A x \in {[tp |-> p, value |-> value]} : x = [tp |-> p, value |-> value]
  OBVIOUS
<1>2. (CHOOSE x \in {[tp |-> p, value |-> value]} : TRUE) = [tp |-> p, value |-> value]
  BY <1>1
<1> QED BY <1>2 DEF Rewritten, OneLine

-----------------------------------------------------------------------------
LEMMA TypeInit == Init => TypeOK
BY FileTypes, NumTaskAssumption, MaxVersionAssumption
   DEF Init, TypeOK, Task, Versions, Phases, Ages

LEMMA TypeStep == TypeOK /\ [Next]_vars => TypeOK'
<1> SUFFICES ASSUME TypeOK, [Next]_vars PROVE TypeOK'
  OBVIOUS
<1> USE DEF TypeOK
<1>1. CASE Edit
  BY <1>1, MaxVersionAssumption DEF Edit, process, results, history, Versions
<1>2. CASE Profile
  BY <1>2, FileTypes DEF Profile, process, results, history
<1>3. CASE Start
  BY <1>3 DEF Start, Phases, Ages, Aged
<1>4. CASE Ktc
  BY <1>4, ProgramFragments DEF Ktc, Phases, results
<1>5. CASE CalculateWcet
  <2>1. PICK f \in todo : Fragment(f[1], f[2]) /\ todo' = todo \ {f}
    BY <1>5 DEF CalculateWcet
  <2>2. f[1] \in Task /\ f[2] \in Point
    BY <2>1 DEF Fragments
  <2>3. wcet' \in [Task -> WcetFiles] /\ smooth' \in BOOLEAN
    BY <2>1, <2>2, FileTypes DEF Fragment
  <2> QED BY <1>5, <2>1, <2>3 DEF CalculateWcet, results
<1>6. CASE CalculateWcetDies
  <2>1. PICK f \in todo : wcet' \in {wcet, [wcet EXCEPT ![f[1]] = EmptyWcet]}
    BY <1>6 DEF CalculateWcetDies
  <2>2. wcet' \in [Task -> WcetFiles]
    BY <2>1, FileTypes DEF Fragments
  <2> QED BY <1>6, <2>2 DEF CalculateWcetDies, results
<1>7. CASE MakeTraceStart
  BY <1>7, NumTaskAssumption DEF MakeTraceStart, results, history, Phases, Task
<1>8. CASE BackUp
  BY <1>8 DEF BackUp, results, history, Phases
<1>9. CASE Rewrite
  <2>1. temp' \in Traces
    <3>1. CASE backup[tsk].state = "whole" /\ temp' = Whole(Rewritten(backup[tsk].rows, wcet[tsk]))
      <4>1. backup[tsk].rows \in [Point -> Fields] /\ wcet[tsk] \in WcetFiles
        BY DEF Traces
      <4> QED BY <1>9, <3>1, <4>1, RewrittenType, FileTypes DEF Rewrite
    <3>2. CASE temp' = Partial
      BY <3>2, FileTypes
    <3> QED BY <1>9, <3>1, <3>2 DEF Rewrite
  <2>2. smooth' \in BOOLEAN
    BY <1>9 DEF Rewrite
  <2> QED BY <1>9, <2>1, <2>2 DEF Rewrite, results, Phases
<1>10. CASE Install
  BY <1>10, FileTypes, NumTaskAssumption DEF Install, results, history, Phases, Task
<1>11. CASE MakeTraceDies
  <2>1. 1 \in Task
    BY NumTaskAssumption DEF Task
  <2>2. trace' \in [Task -> Traces] /\ backup' \in [Task -> Traces]
    BY <1>11, FileTypes DEF MakeTraceDies
  <2> QED BY <1>11, <2>1, <2>2, FileTypes DEF MakeTraceDies, results, Phases
<1>12. CASE KtcJobs
  BY <1>12 DEF KtcJobs, Phases, Ages
<1>13. CASE Nptest
  BY <1>13 DEF Nptest, Phases, Ages
<1>14. CASE Verdict
  BY <1>14 DEF Verdict, results, history, Phases
<1>15. CASE Compile
  BY <1>15, ProgramFragments DEF Compile, results, history, Phases
<1>16. CASE Killed
  BY <1>16, FileTypes, NumTaskAssumption DEF Killed, results, history, Phases, Task
<1>17. CASE UNCHANGED vars
  BY <1>17 DEF vars, process, results, history
<1> QED BY <1>1, <1>2, <1>3, <1>4, <1>5, <1>6, <1>7, <1>8, <1>9, <1>10, <1>11,
           <1>12, <1>13, <1>14, <1>15, <1>16, <1>17 DEF Next

(* Every variable keeps its type: in particular no field of a trace ever   *)
(* holds what the tool printed in place of a number.                       *)
THEOREM TypeCorrect == Spec => []TypeOK
<1>1. Init => TypeOK
  BY TypeInit
<1>2. TypeOK /\ [Next]_vars => TypeOK'
  BY TypeStep
<1> QED BY <1>1, <1>2, PTL DEF Spec
-----------------------------------------------------------------------------
(* The traces: what make_trace.py does to one, it does from its backup.    *)
LEMMA RewriteStep == TypeOK /\ RewriteInv /\ [Next]_vars => RewriteInv'
<1> SUFFICES ASSUME TypeOK, RewriteInv, [Next]_vars PROVE RewriteInv'
  OBVIOUS
<1> USE DEF RewriteInv, MakingTrace, Recoverable, RewrittenOnce, RewrittenFrom
<1>1. CASE Edit \/ Profile
  BY <1>1 DEF Edit, Profile, process
<1>2. CASE Start
  BY <1>2 DEF Start
<1>3. CASE Ktc
  BY <1>3 DEF Ktc
<1>4. CASE CalculateWcet \/ CalculateWcetDies
  <2>1. /\ phase = "static" /\ phase' = phase
        /\ trace' = trace /\ before' = before /\ backup' = backup
    BY <1>4 DEF CalculateWcet, CalculateWcetDies
  <2> QED BY <2>1
<1>5. CASE MakeTraceStart
  BY <1>5 DEF MakeTraceStart, history
<1>6. CASE BackUp
  <2>1. /\ phase = "backup" /\ phase' = "rewrite" /\ tsk \in Task
        /\ tsk' = tsk /\ trace' = trace /\ before' = before /\ wcet' = wcet
        /\ backup'[tsk] = trace[tsk]
        /\ \A t \in Task : t # tsk => backup'[t] = backup[t]
    BY <1>6 DEF BackUp, history, TypeOK
  <2>2. trace[tsk] = before[tsk]
    BY <2>1 DEF Task
  <2> QED BY <2>1, <2>2
<1>7. CASE Rewrite
  <2>1. /\ phase = "rewrite" /\ phase' = "install" /\ tsk' = tsk /\ trace' = trace
        /\ before' = before /\ wcet' = wcet /\ backup' = backup
        /\ \/ temp' = Partial
           \/ /\ backup[tsk].state = "whole"
              /\ temp' = Whole(Rewritten(backup[tsk].rows, wcet[tsk]))
    BY <1>7 DEF Rewrite
  <2>2. temp' = Partial \/ RewrittenFrom(temp', tsk)
    BY <2>1
  <2> QED BY <2>1, <2>2
<1>8. CASE Install
  <2>1. /\ phase = "install" /\ phase' \in {"ktc_jobs", "backup"} /\ tsk \in Task
        /\ phase' = "backup" => tsk' = tsk + 1
        /\ before' = before /\ wcet' = wcet /\ backup' = backup
        /\ trace'[tsk] = temp
        /\ \A t \in Task : t # tsk => trace'[t] = trace[t]
    BY <1>8 DEF Install, history, TypeOK
  <2>2. phase' = "backup" => \A t \in Task : t >= tsk' => t >= tsk /\ t # tsk
    BY <2>1 DEF Task
  <2>3. Recoverable'
    BY <2>1
  <2>4. RewrittenOnce'
    BY <2>1
  <2> QED BY <2>1, <2>2, <2>3, <2>4
<1>9. CASE MakeTraceDies
  <2>1. /\ phase \in {"backup", "rewrite", "install"} /\ phase' = "ktc_jobs"
        /\ before' = before /\ wcet' = wcet /\ tsk \in Task
    BY <1>9 DEF MakeTraceDies, TypeOK
  <2>2. CASE trace' = trace /\ backup' = backup
    BY <2>1, <2>2
  <2>3. CASE /\ phase = "backup" /\ trace' = trace
             /\ backup' = [backup EXCEPT ![tsk] = Partial]
    <3>1. trace[tsk] = before[tsk]
      BY <2>1, <2>3 DEF Task
    <3>2. \A t \in Task : t # tsk => backup'[t] = backup[t]
      BY <2>3 DEF TypeOK
    <3> QED BY <2>1, <2>3, <3>1, <3>2
  <2>4. CASE /\ phase = "install" /\ backup' = backup
             /\ trace' = [trace EXCEPT ![tsk] = Partial]
    <3>1. trace'[tsk] = Partial /\ \A t \in Task : t # tsk => trace'[t] = trace[t]
      BY <2>1, <2>4 DEF TypeOK
    <3>2. backup[tsk] = before[tsk]
      BY <2>4
    <3> QED BY <2>1, <2>4, <3>1, <3>2
  <2> QED BY <1>9, <2>2, <2>3, <2>4 DEF MakeTraceDies
<1>10. CASE KtcJobs \/ Nptest \/ Verdict
  BY <1>10 DEF KtcJobs, Nptest, Verdict, history
<1>11. CASE Compile \/ Killed
  BY <1>11 DEF Compile, Killed
<1>12. CASE UNCHANGED vars
  BY <1>12 DEF vars, process, results, history
<1> QED BY <1>1, <1>2, <1>3, <1>4, <1>5, <1>6, <1>7, <1>8, <1>9, <1>10, <1>11, <1>12
        DEF Next

LEMMA RewriteInvariant == Spec => []RewriteInv
<1>1. Init => RewriteInv
  BY DEF Init, RewriteInv, MakingTrace, Recoverable, RewrittenOnce
<1>2. TypeOK /\ RewriteInv /\ [Next]_vars => RewriteInv'
  BY RewriteStep
<1> QED BY <1>1, <1>2, TypeCorrect, PTL DEF Spec

(* A trace that was whole when main_wcet started is in its place or in the *)
(* backup, wherever a script of the run died or was interrupted.           *)
THEOREM AlwaysRecoverable == Spec => []Recoverable
<1>1. RewriteInv => Recoverable
  BY DEF RewriteInv
<1> QED BY <1>1, RewriteInvariant, PTL

(* main_wcet rewrites a trace at most once, from what it was at the start. *)
THEOREM AlwaysRewrittenOnce == Spec => []RewrittenOnce
<1>1. RewriteInv => RewrittenOnce
  BY DEF RewriteInv
<1> QED BY <1>1, RewriteInvariant, PTL
-----------------------------------------------------------------------------
(* The rows: only hard fragments reach the list, the .wcet files, and from *)
(* these the traces.                                                       *)
LEMMA HardSoFarGrows ==
  /\ TypeOK => Programs[version] \subseteq HardSoFar /\ HardSoFar \subseteq Fragments
  /\ TypeOK /\ [Next]_vars => HardSoFar \subseteq HardSoFar'
<1>1. ASSUME TypeOK
      PROVE  Programs[version] \subseteq HardSoFar /\ HardSoFar \subseteq Fragments
  <2>1. version \in 1..version /\ 1..version \subseteq Versions
    BY <1>1, MaxVersionAssumption DEF TypeOK, Versions
  <2> QED BY <2>1, ProgramFragments DEF HardSoFar
<1>2. ASSUME TypeOK, [Next]_vars
      PROVE  HardSoFar \subseteq HardSoFar'
  <2>1. version' \in {version, version + 1}
    BY <1>2 DEF Next, Edit, Profile, Start, Ktc, CalculateWcet, CalculateWcetDies,
       MakeTraceStart, BackUp, Rewrite, Install, MakeTraceDies, KtcJobs, Nptest, Verdict,
       Compile, Killed, vars
  <2>2. 1..version \subseteq 1..version'
    BY <1>2, <2>1, MaxVersionAssumption DEF TypeOK, Versions
  <2> QED BY <2>2 DEF HardSoFar
<1> QED BY <1>1, <1>2

LEMMA HardRowsKept ==
  ASSUME HardSoFar \subseteq HardSoFar', NEW t, NEW file, HardRows(t, file)
  PROVE  HardRows(t, file)'
BY DEF HardRows

LEMMA HardRowsOfNoRows ==
  ASSUME NEW t
  PROVE  HardRows(t, Absent)' /\ HardRows(t, Partial)' /\ HardRows(t, Whole(AllRows(Measured)))'
BY DEF HardRows, Absent, Partial, Whole, AllRows, Measured, Blank, StaticTimes, Static

LEMMA HardRowsRewritten ==
  ASSUME TypeOK, HardInv, NEW t \in Task, NEW rows, HardRows(t, Whole(rows)), Readable(wcet[t])
  PROVE  HardRows(t, Whole(Rewritten(rows, wcet[t])))
<1> SUFFICES ASSUME NEW p \in Point
             PROVE  LET field == Rewritten(rows, wcet[t])[p]
                    IN  /\ field \in StaticTimes => <<t, p>> \in HardSoFar
                        /\ field = Blank => \E q \in Point : <<t, q>> \in HardSoFar
  BY DEF HardRows, Whole
<1>1. wcet[t] \in WcetFiles /\ Blank \notin StaticTimes
  BY DEF TypeOK, Blank, StaticTimes, Static
<1>2. CASE Rewritten(rows, wcet[t])[p] = rows[p]
  BY <1>2 DEF HardRows, Whole
<1>3. CASE Rewritten(rows, wcet[t])[p] = Blank /\ wcet[t].exists
  <2>1. \E q \in Point : <<t, q>> \in HardSoFar
    BY <1>3 DEF HardInv
  <2> QED BY <1>1, <1>3, <2>1
<1>4. CASE \E line \in wcet[t].lines : /\ line.tp = p /\ line.value \in StaticTimes
                                       /\ Rewritten(rows, wcet[t])[p] = line.value
  BY <1>1, <1>4 DEF HardInv
<1> QED BY <1>1, <1>2, <1>3, <1>4, RewrittenRow

LEMMA HardStep == TypeOK /\ HardInv /\ [Next]_vars => HardInv'
<1> SUFFICES ASSUME TypeOK, HardInv, [Next]_vars PROVE HardInv'
  OBVIOUS
<1> DEFINE Known(t, file) == /\ \A line \in file.lines : <<t, line.tp>> \in HardSoFar
                             /\ file.exists => \E q \in Point : <<t, q>> \in HardSoFar
<1>1. HardSoFar \subseteq HardSoFar' /\ Programs[version] \subseteq HardSoFar
  BY HardSoFarGrows
<1>2. \A t \in Task : Known(t, wcet[t])
  BY DEF HardInv
<1>3. ASSUME \A t \in Task : Known(t, wcet'[t])
      PROVE  \A t \in Task :
               /\ \A line \in wcet'[t].lines : <<t, line.tp>> \in HardSoFar'
               /\ wcet'[t].exists => \E q \in Point : <<t, q>> \in HardSoFar'
  BY <1>1, <1>3
<1>4. ASSUME NEW t \in Task
      PROVE  /\ HardRows(t, trace[t])' \/ trace'[t] # trace[t]
             /\ HardRows(t, backup[t])' \/ backup'[t] # backup[t]
             /\ trace'[t] \in {Absent, Partial, Whole(AllRows(Measured))} => HardRows(t, trace[t])'
             /\ backup'[t] \in {Absent, Partial} => HardRows(t, backup[t])'
  BY <1>1, HardRowsOfNoRows DEF HardRows, HardInv
<1> USE DEF HardInv
<1>5. (listed \subseteq HardSoFar /\ todo \subseteq HardSoFar)'
  BY <1>1 DEF Next, Edit, Profile, Start, Ktc, CalculateWcet, CalculateWcetDies,
     MakeTraceStart, BackUp, Rewrite, Install, MakeTraceDies, KtcJobs, Nptest, Verdict,
     Compile, Killed, vars, process
<1>6. \A t \in Task : Known(t, wcet'[t])
  <2>1. CASE CalculateWcet \/ CalculateWcetDies
    <3>1. PICK f \in todo :
            \/ wcet' = wcet
            \/ wcet' = [wcet EXCEPT ![f[1]] = EmptyWcet]
            \/ wcet' = [wcet EXCEPT ![f[1]] = OneLine(f[2], Static(version))]
            \/ wcet' = [wcet EXCEPT ![f[1]] = OneLine(f[2], NoNumber)]
      BY <2>1 DEF CalculateWcet, CalculateWcetDies, Fragment
    <3>2. f \in HardSoFar /\ f[1] \in Task /\ f[2] \in Point /\ <<f[1], f[2]>> = f
      BY <3>1 DEF TypeOK, Fragments
    <3>3. /\ Known(f[1], EmptyWcet)
          /\ Known(f[1], OneLine(f[2], Static(version)))
          /\ Known(f[1], OneLine(f[2], NoNumber))
      BY <3>2 DEF EmptyWcet, OneLine
    <3>4. \A t \in Task :
            \/ wcet'[t] = wcet[t]
            \/ /\ t = f[1]
               /\ wcet'[t] \in {EmptyWcet, OneLine(f[2], Static(version)), OneLine(f[2], NoNumber)}
      BY <3>1 DEF TypeOK
    <3> HIDE DEF Known
    <3> QED BY <1>2, <3>3, <3>4
  <2>2. CASE wcet' = wcet
    BY <1>2, <2>2
  <2> QED BY <2>1, <2>2 DEF Next, Edit, Profile, Start, Ktc, MakeTraceStart, BackUp,
          Rewrite, Install, MakeTraceDies, KtcJobs, Nptest, Verdict, Compile, Killed, vars
<1>7. \A t \in Task : HardRows(t, trace[t])'
  <2>1. CASE Profile
    BY <1>4, <2>1 DEF Profile
  <2>2. CASE Install
    <3>1. \A t \in Task : trace'[t] = trace[t] \/ (t = tsk /\ trace'[t] = temp)
      BY <2>2 DEF Install, TypeOK
    <3>2. ASSUME NEW t \in Task, t = tsk, trace'[t] = temp PROVE HardRows(t, trace[t])'
      BY <1>1, <3>2 DEF HardRows
    <3> QED BY <1>4, <3>1, <3>2
  <2>3. CASE MakeTraceDies
    <3>1. \A t \in Task : trace'[t] = trace[t] \/ trace'[t] = Partial
      BY <2>3 DEF MakeTraceDies, TypeOK
    <3> QED BY <1>4, <3>1
  <2>4. CASE trace' = trace
    BY <1>4, <2>4
  <2> QED BY <2>1, <2>2, <2>3, <2>4 DEF Next, Edit, Start, Ktc, CalculateWcet,
          CalculateWcetDies, MakeTraceStart, BackUp, Rewrite, KtcJobs, Nptest, Verdict,
          Compile, Killed, vars
<1>8. \A t \in Task : HardRows(t, backup[t])'
  <2>1. CASE Profile
    BY <1>4, <2>1 DEF Profile
  <2>2. CASE BackUp
    <3>1. \A t \in Task : backup'[t] = backup[t] \/ backup'[t] = trace[t]
      BY <2>2 DEF BackUp, TypeOK
    <3>2. ASSUME NEW t \in Task, backup'[t] = trace[t] PROVE HardRows(t, backup[t])'
      BY <1>1, <3>2 DEF HardRows
    <3> QED BY <1>4, <3>1, <3>2
  <2>3. CASE MakeTraceDies
    <3>1. \A t \in Task : backup'[t] = backup[t] \/ backup'[t] = Partial
      BY <2>3 DEF MakeTraceDies, TypeOK
    <3> QED BY <1>4, <3>1
  <2>4. CASE backup' = backup
    BY <1>4, <2>4
  <2> QED BY <2>1, <2>2, <2>3, <2>4 DEF Next, Edit, Start, Ktc, CalculateWcet,
          CalculateWcetDies, MakeTraceStart, Rewrite, Install, KtcJobs, Nptest, Verdict,
          Compile, Killed, vars
<1>9. HardRows(tsk, temp)'
  <2>1. CASE Rewrite
    <3>1. CASE temp' = Partial
      BY <3>1, HardRowsOfNoRows DEF HardRows
    <3>2. CASE /\ backup[tsk].state = "whole"
               /\ temp' = Whole(Rewritten(backup[tsk].rows, wcet[tsk]))
      <4>1. HardRows(tsk, Whole(backup[tsk].rows)) /\ Readable(wcet[tsk]) /\ tsk \in Task
        BY <2>1, <3>2 DEF HardRows, Whole, Rewrite, TypeOK
      <4>2. HardRows(tsk, Whole(Rewritten(backup[tsk].rows, wcet[tsk])))
        BY <4>1, HardRowsRewritten
      <4>3. tsk' = tsk
        BY <2>1 DEF Rewrite
      <4> QED BY <1>1, <3>2, <4>2, <4>3 DEF HardRows
    <3> QED BY <2>1, <3>1, <3>2 DEF Rewrite
  <2>2. CASE Install \/ MakeTraceDies \/ Killed
    <3>1. temp' = Absent
      BY <2>2 DEF Install, MakeTraceDies, Killed
    <3> QED BY <3>1, HardRowsOfNoRows DEF HardRows
  <2>3. CASE temp' = temp /\ tsk' = tsk
    BY <1>1, <2>3 DEF HardRows
  <2>4. CASE MakeTraceStart
    <3>1. temp' = Absent
      BY <2>4 DEF MakeTraceStart
    <3> QED BY <3>1, HardRowsOfNoRows DEF HardRows
  <2> QED BY <2>1, <2>2, <2>3, <2>4 DEF Next, Edit, Profile, Start, Ktc, CalculateWcet,
          CalculateWcetDies, BackUp, KtcJobs, Nptest, Verdict, Compile, vars, process
<1>10. (phase # "install" => temp = Absent)'
  BY DEF Next, Edit, Profile, Start, Ktc, CalculateWcet, CalculateWcetDies,
     MakeTraceStart, BackUp, Rewrite, Install, MakeTraceDies, KtcJobs, Nptest, Verdict,
     Compile, Killed, vars, process
<1> QED BY <1>3, <1>5, <1>6, <1>7, <1>8, <1>9, <1>10

LEMMA HardInvariant == Spec => []HardInv
<1>1. Init => HardInv
  BY DEF Init, HardInv, NoWcet, HardRows, Absent
<1>2. TypeOK /\ HardInv /\ [Next]_vars => HardInv'
  BY HardStep
<1> QED BY <1>1, <1>2, TypeCorrect, PTL DEF Spec

(* Whatever fails, measured times are only given up for fragments that are *)
(* or were hard, and rows only become blank in traces of their tasks.      *)
THEOREM OnlyHardAlwaysTouched == Spec => []OnlyHardTouched
<1>1. HardInv => OnlyHardTouched
  BY DEF HardInv, OnlyHardTouched
<1> QED BY <1>1, HardInvariant, PTL
-----------------------------------------------------------------------------
(* The verdict: as long as a run is smooth, each phase has established     *)
(* what the next one needs, for any state it started from.                 *)
LEMMA HardTasksAreTasks == TypeOK => HardTasks \subseteq Task
BY ProgramFragments DEF TypeOK, HardTasks, Fragments

LEMMA SmoothStep == TypeOK /\ SmoothInv /\ [Next]_vars => SmoothInv'
<1> SUFFICES ASSUME TypeOK, SmoothInv, [Next]_vars PROVE SmoothInv'
  OBVIOUS
<1> USE DEF SmoothInv, MakingTrace
<1>1. CASE Edit \/ Profile
  BY <1>1 DEF Edit, Profile, process
<1>2. CASE Start
  BY <1>2 DEF Start
<1>3. CASE Ktc
  <2>1. SUFFICES ASSUME smooth' PROVE SmoothInv'
    OBVIOUS
  <2>2. phase' = "static" /\ todo' = Programs[version] /\ version' = version
    BY <1>3, <2>1 DEF Ktc
  <2> QED BY <2>2 DEF HardTasks
<1>4. CASE CalculateWcet
  <2>1. SUFFICES ASSUME smooth' PROVE SmoothInv'
    OBVIOUS
  <2>2. PICK f \in todo : Fragment(f[1], f[2]) /\ todo' = todo \ {f}
    BY <1>4 DEF CalculateWcet
  <2>3. /\ phase = "static" /\ phase' = phase /\ version' = version /\ smooth
        /\ wcet' = [wcet EXCEPT ![f[1]] = OneLine(f[2], Static(version))]
    BY <1>4, <2>1, <2>2 DEF CalculateWcet, Fragment
  <2>4. f \in Programs[version] /\ f[1] \in Task
    BY <2>2, <2>3, ProgramFragments DEF TypeOK, Fragments
  <2>5. ASSUME NEW t \in HardTasks
        PROVE  Found(t)' \/ \E g \in todo' : g[1] = t
    <3>1. CASE t = f[1]
      <4>1. wcet'[t] = OneLine(f[2], Static(version))
        BY <2>3, <2>4, <3>1 DEF TypeOK
      <4> QED BY <2>3, <2>4, <3>1, <4>1 DEF Found
    <3>2. CASE t # f[1]
      <4>1. wcet'[t] = wcet[t]
        BY <2>3, <2>4, <3>2, HardTasksAreTasks DEF TypeOK
      <4>2. CASE Found(t)
        BY <2>3, <4>1, <4>2 DEF Found
      <4>3. CASE \E g \in todo : g[1] = t
        BY <2>2, <3>2, <4>3
      <4> QED BY <2>3, <2>5, <4>2, <4>3
    <3> QED BY <3>1, <3>2
  <2>6. HardTasks' = HardTasks /\ todo' \subseteq Programs[version]
    BY <2>2, <2>3 DEF HardTasks
  <2> QED BY <2>3, <2>5, <2>6
<1>5. CASE CalculateWcetDies \/ MakeTraceDies
  BY <1>5 DEF CalculateWcetDies, MakeTraceDies
<1>6. CASE MakeTraceStart
  <2>1. /\ phase = "static" /\ phase' = "backup" /\ todo = {} /\ tsk' = 1
        /\ version' = version /\ wcet' = wcet /\ smooth' = smooth
    BY <1>6 DEF MakeTraceStart, history
  <2>2. HardTasks' = HardTasks /\ \A t \in HardTasks : ~(t < 1)
    BY <2>1, HardTasksAreTasks DEF HardTasks, Task
  <2>3. smooth => \A t \in HardTasks : Found(t)'
    BY <2>1 DEF Found
  <2> QED BY <2>1, <2>2, <2>3
<1>7. CASE BackUp
  BY <1>7 DEF BackUp, history, HardTasks, Found, Used
<1>8. CASE Rewrite
  <2>1. SUFFICES ASSUME smooth' PROVE SmoothInv'
    OBVIOUS
  <2>2. /\ phase = "rewrite" /\ phase' = "install" /\ version' = version /\ smooth
        /\ tsk' = tsk /\ wcet' = wcet /\ trace' = trace
        /\ temp' = Whole(Rewritten(backup[tsk].rows, wcet[tsk]))
    BY <1>8, <2>1 DEF Rewrite
  <2>3. ASSUME tsk \in HardTasks
        PROVE  \E f \in Programs[version] : f[1] = tsk /\ temp'.rows[f[2]] = Static(version)
    <3>1. PICK f \in Programs[version] : f[1] = tsk /\ wcet[tsk] = OneLine(f[2], Static(version))
      BY <2>2, <2>3 DEF Found
    <3>2. f[2] \in Point
      BY <3>1, ProgramFragments DEF TypeOK, Fragments
    <3>3. temp'.rows[f[2]] = Static(version)
      BY <2>2, <3>1, <3>2, RewrittenLine DEF Whole
    <3> QED BY <3>1, <3>3
  <2>4. \A t \in HardTasks : Found(t) /\ (t < tsk => Used(t))
    BY <2>2
  <2> QED BY <2>2, <2>3, <2>4 DEF Whole, HardTasks, Found, Used
<1>9. CASE Install
  <2>1. SUFFICES ASSUME smooth' PROVE SmoothInv'
    OBVIOUS
  <2>2. /\ phase = "install" /\ version' = version /\ wcet' = wcet /\ smooth
        /\ tsk \in Task /\ trace'[tsk] = temp
        /\ \A t \in Task : t # tsk => trace'[t] = trace[t]
    BY <1>9, <2>1 DEF Install, history, TypeOK
  <2>3. ASSUME NEW t \in HardTasks, t <= tsk
        PROVE  Used(t)'
    <3>1. CASE t = tsk
      <4>1. PICK f \in Programs[version] : f[1] = tsk /\ temp.rows[f[2]] = Static(version)
        BY <2>2, <3>1
      <4> QED BY <2>2, <3>1, <4>1 DEF Used
    <3>2. CASE t # tsk
      <4>1. t < tsk /\ t \in Task
        BY <2>2, <2>3, <3>2, HardTasksAreTasks DEF Task
      <4>2. Used(t) /\ trace'[t] = trace[t]
        BY <2>2, <3>2, <4>1
      <4> QED BY <2>2, <4>2 DEF Used
    <3> QED BY <3>1, <3>2
  <2>4. \A t \in HardTasks : Found(t)'
    BY <2>2 DEF Found
  <2>5. HardTasks' = HardTasks
    BY <2>2 DEF HardTasks
  <2>6. CASE tsk = NumTask /\ phase' = "ktc_jobs"
    <3>1. \A t \in HardTasks : t <= tsk
      BY <2>6, HardTasksAreTasks DEF Task
    <3> QED BY <2>3, <2>5, <2>6, <3>1
  <2>7. CASE phase' = "backup" /\ tsk' = tsk + 1
    <3>1. \A t \in HardTasks : t < tsk' => t <= tsk
      BY <2>2, <2>7, HardTasksAreTasks DEF Task
    <3> QED BY <2>3, <2>4, <2>5, <2>7, <3>1
  <2> QED BY <1>9, <2>6, <2>7 DEF Install
<1>10. CASE KtcJobs
  BY <1>10 DEF KtcJobs, HardTasks, Used
<1>11. CASE Nptest
  BY <1>11 DEF Nptest, HardTasks, Used
<1>12. CASE Verdict
  BY <1>12 DEF Verdict, history, results, HardTasks, Used
<1>13. CASE Compile \/ Killed
  BY <1>13 DEF Compile, Killed
<1>14. CASE UNCHANGED vars
  BY <1>14 DEF vars, process, results, history, HardTasks, Found, Used
<1> QED BY <1>1, <1>2, <1>3, <1>4, <1>5, <1>6, <1>7, <1>8, <1>9, <1>10, <1>11, <1>12,
           <1>13, <1>14 DEF Next

(* When nothing went wrong in a run, its verdict rests on new jobs, a new  *)
(* analysis and the static WCETs found in it, whatever happened before.    *)
THEOREM StaticTimesAlwaysUsed == Spec => []StaticTimesUsed
<1>1. Init => SmoothInv
  BY DEF Init, SmoothInv, MakingTrace
<1>2. TypeOK /\ SmoothInv /\ [Next]_vars => SmoothInv'
  BY SmoothStep
<1>3. SmoothInv => StaticTimesUsed
  BY DEF SmoothInv, StaticTimesUsed
<1> QED BY <1>1, <1>2, <1>3, TypeCorrect, PTL DEF Spec
=============================================================================
