---------------------------- MODULE HardDeadline ----------------------------
(***************************************************************************)
(* "e2e compile --static-analysis" over and over in one directory, with    *)
(* edits and new profiles of the program in between.  main_wcet lets ktc   *)
(* list the code fragments that end in a hard deadline, calculate_wcet.py  *)
(* ask a static analyser for the WCET of each, make_trace.py put it into   *)
(* the measured traces in place, ktc make jobs of the traces and nptest    *)
(* analyse them, and then reads the verdict off the files that are there.  *)
(* Every status is thrown away: a script that dies half-way, because its   *)
(* tool failed, its input is missing or the user interrupted it, is        *)
(* followed by the next command of main_wcet all the same.                 *)
(*                                                                         *)
(* A trace has one row for each timing point a fragment can end in, and a  *)
(* row is reduced to where its WCET field comes from.                      *)
(***************************************************************************)
EXTENDS Integers, FiniteSets

CONSTANTS NumTask,     \* tasks are numbered in the order of the source file
          Point,       \* the timing points of a task (DST of a trace row)
          MaxVersion,  \* bound on the number of versions of the program
          Programs     \* the hard deadline fragments of each version

Task == 1..NumTask
Fragments == Task \X Point
Versions == 1..MaxVersion

ASSUME NumTaskAssumption == NumTask \in Nat \ {0}
ASSUME MaxVersionAssumption == MaxVersion \in Nat \ {0}
ASSUME ProgramsAssumption == Programs \in [Versions -> SUBSET Fragments]

VARIABLES version,  \* of the Timed C program
          phase,    \* of the e2e process; "idle": there is none
          listed,   \* ktc_wcet_file_1.txt; {} also when there is none
          todo,     \* the lines of it calculate_wcet.py has not yet handled
          wcet,     \* <task>.wcet
          tsk,      \* the task make_trace.py is at
          trace,    \* <task>.ktc.trace
          backup,   \* ktc_<task>.ktc.trace
          temp,     \* temp_<task>.ktc.trace, until it is copied
          jobs,     \* job_edf.csv, action.csv and jobkind.csv
          rta,      \* job_edf.rta.csv
          smooth,   \* history: nothing has gone wrong in this run of main_wcet
          before    \* history: the traces when it started

process == <<phase, todo, tsk, temp>>
results == <<jobs, rta>>
history == <<smooth, before>>
vars == <<version, process, listed, wcet, trace, backup, results, history>>

-----------------------------------------------------------------------------
(* What the WCET field of a row and a line of a .wcet file can hold: only  *)
(* of a static time it matters for which version it was computed.          *)
Measured == [kind |-> "measured", version |-> 0]
Blank == [kind |-> "blank", version |-> 0]
NoNumber == [kind |-> "garbage", version |-> 0]
Static(v) == [kind |-> "static", version |-> v]
StaticTimes == {Static(v) : v \in Versions}
Fields == {Measured, Blank} \cup StaticTimes

(* A .wcet file: when there is one, its lines. *)
Lines == [tp : Point, value : {NoNumber} \cup StaticTimes]
WcetFiles == [exists : BOOLEAN, lines : SUBSET Lines]
NoWcet == [exists |-> FALSE, lines |-> {}]
EmptyWcet == [exists |-> TRUE, lines |-> {}]
OneLine(p, value) == [exists |-> TRUE, lines |-> {[tp |-> p, value |-> value]}]

(* A trace: only of a whole one the rows are told apart. *)
AllRows(field) == [p \in Point |-> field]
Traces == [state : {"absent", "partial", "whole"}, rows : [Point -> Fields]]
Absent == [state |-> "absent", rows |-> AllRows(Blank)]
Partial == [state |-> "partial", rows |-> AllRows(Blank)]
Whole(rows) == [state |-> "whole", rows |-> rows]

(* The files of ktc and nptest: made in this run, in an earlier one, never. *)
Ages == {"none", "old", "new"}
Aged(file) == IF file = "new" THEN "old" ELSE file

Phases == {"idle", "ktc", "static", "backup", "rewrite", "install",
           "ktc_jobs", "nptest", "verdict", "compile"}

TypeOK ==
  /\ version \in Versions
  /\ phase \in Phases
  /\ listed \in SUBSET Fragments
  /\ todo \in SUBSET Fragments
  /\ wcet \in [Task -> WcetFiles]
  /\ tsk \in Task
  /\ trace \in [Task -> Traces]
  /\ backup \in [Task -> Traces]
  /\ temp \in Traces
  /\ jobs \in Ages /\ rta \in Ages
  /\ smooth \in BOOLEAN
  /\ before \in [Task -> Traces]

Init ==
  /\ version = 1
  /\ phase = "idle"
  /\ listed = {} /\ todo = {}
  /\ wcet = [t \in Task |-> NoWcet]
  /\ tsk = 1
  /\ trace = [t \in Task |-> Absent]
  /\ backup = [t \in Task |-> Absent]
  /\ temp = Absent
  /\ jobs = "none" /\ rta = "none"
  /\ smooth = TRUE /\ before = [t \in Task |-> Absent]

-----------------------------------------------------------------------------
Edit ==
  /\ phase = "idle"
  /\ version < MaxVersion
  /\ version' = version + 1
  /\ UNCHANGED <<process, listed, wcet, trace, backup, results, history>>

(* e2e wcet --run: rm -f *.ktc.trace takes the backups as well, and the    *)
(* instrumented program writes a trace for the tasks it gets to.           *)
Profile ==
  /\ phase = "idle"
  /\ \E reached \in SUBSET Task :
       trace' = [t \in Task |-> IF t \in reached THEN Whole(AllRows(Measured)) ELSE Absent]
  /\ backup' = [t \in Task |-> Absent]
  /\ UNCHANGED <<version, process, listed, wcet, results, history>>

Start ==
  /\ phase = "idle"
  /\ phase' = "ktc"
  /\ jobs' = Aged(jobs) /\ rta' = Aged(rta)
  /\ smooth' = TRUE
  /\ before' = trace
  /\ UNCHANGED <<version, todo, tsk, temp, listed, wcet, trace, backup>>

(* ktc --enable-ext0 lists the fragments of the program, or fails. *)
Ktc ==
  /\ phase = "ktc"
  /\ \/ listed' = Programs[version] /\ UNCHANGED smooth
     \/ smooth' = FALSE /\ UNCHANGED listed
  /\ phase' = "static"
  /\ todo' = listed'
  /\ UNCHANGED <<version, tsk, temp, wcet, trace, backup, results, before>>

(* calculate_wcet.py has handled one more line of the list, and has opened *)
(* the file of its task for writing to do so.  The tool may have printed   *)
(* something else where the number should be.                              *)
FragmentIfNew(t, p) ==
  /\ wcet' = [wcet EXCEPT ![t] = IF @.exists THEN @ ELSE OneLine(p, Static(version))]
  /\ UNCHANGED smooth

Fragment(t, p) ==
  \/ /\ wcet' = [wcet EXCEPT ![t] = OneLine(p, Static(version))]
     /\ UNCHANGED smooth
  \/ /\ wcet' = [wcet EXCEPT ![t] = OneLine(p, NoNumber)]
     /\ smooth' = FALSE

CalculateWcet ==
  /\ phase = "static"
  /\ \E f \in todo : Fragment(f[1], f[2]) /\ todo' = todo \ {f}
  /\ UNCHANGED <<version, phase, tsk, temp, listed, trace, backup, results, before>>

(* The tool printed too little, or the script was interrupted: it ends, in *)
(* the branch of KTA with the file already opened and so emptied.          *)
CalculateWcetDies ==
  /\ phase = "static"
  /\ \E f \in todo : wcet' \in {wcet, [wcet EXCEPT ![f[1]] = EmptyWcet]}
  /\ smooth' = FALSE
  /\ todo' = {}
  /\ UNCHANGED <<version, phase, tsk, temp, listed, trace, backup, results, before>>

MakeTraceStart ==
  /\ phase = "static"
  /\ todo = {}
  /\ phase' = "backup"
  /\ tsk' = 1
  /\ UNCHANGED <<version, todo, temp, listed, wcet, trace, backup, results, history>>

-----------------------------------------------------------------------------
(* make_trace.py, for one task after the other: cp trace backup *)
BackUpIfNone ==
  /\ phase = "backup"
  /\ trace[tsk].state # "absent"
  /\ backup' = [backup EXCEPT ![tsk] = IF @.state = "absent" THEN trace[tsk] ELSE @]
  /\ phase' = "rewrite"
  /\ UNCHANGED <<version, todo, tsk, temp, listed, wcet, trace, results, history>>

BackUp ==
  /\ phase = "backup"
  /\ trace[tsk].state # "absent"
  /\ backup' = [backup EXCEPT ![tsk] = trace[tsk]]
  /\ phase' = "rewrite"
  /\ UNCHANGED <<version, todo, tsk, temp, listed, wcet, trace, results, history>>

(* write_wcet for each row: without a .wcet file the field stays, with one *)
(* it is written once for each line of the file, so not at all when the    *)
(* file is empty; the number replaces the field of the rows of its point.  *)
RewrittenNoFileCheck(rows, file) ==
  [p \in Point |->
     IF file.lines = {} THEN Blank
     ELSE LET line == CHOOSE line \in file.lines : TRUE
          IN  IF line.tp = p THEN line.value ELSE rows[p]]

Rewritten(rows, file) ==
  [p \in Point |->
     IF ~file.exists THEN rows[p]
     ELSE IF file.lines = {} THEN Blank
     ELSE LET line == CHOOSE line \in file.lines : TRUE
          IN  IF line.tp = p THEN line.value ELSE rows[p]]

(* int(elem[1]) raises for anything but a number when it comes to the row. *)
Readable(file) == \A line \in file.lines : line.value # NoNumber

(* The backup is read and its rows are written to temp. *)
Rewrite ==
  /\ phase = "rewrite"
  /\ \/ /\ backup[tsk].state = "whole" /\ Readable(wcet[tsk])
        /\ temp' = Whole(Rewritten(backup[tsk].rows, wcet[tsk]))
        /\ UNCHANGED smooth
     \/ /\ backup[tsk].state = "partial"
        /\ temp' = Partial
        /\ smooth' = FALSE
  /\ phase' = "install"
  /\ UNCHANGED <<version, todo, tsk, listed, wcet, trace, backup, results, before>>

(* cp temp trace, and on to the next task *)
InstallPastLast ==
  /\ phase = "install"
  /\ trace' = [trace EXCEPT ![tsk] = temp]
  /\ temp' = Absent
  /\ IF tsk > NumTask
       THEN phase' = "ktc_jobs" /\ tsk' = 1
       ELSE phase' = "backup" /\ tsk' = tsk + 1
  /\ UNCHANGED <<version, todo, listed, wcet, backup, results, history>>

Install ==
  /\ phase = "install"
  /\ trace' = [trace EXCEPT ![tsk] = temp]
  /\ temp' = Absent
  /\ IF tsk = NumTask
       THEN phase' = "ktc_jobs" /\ tsk' = 1
       ELSE phase' = "backup" /\ tsk' = tsk + 1
  /\ UNCHANGED <<version, todo, listed, wcet, backup, results, history>>

(* The trace is missing, a row or a number cannot be read, or the script   *)
(* is interrupted, possibly while its cp writes a file.                    *)
MakeTraceDies ==
  /\ \/ /\ phase \in {"backup", "rewrite", "install"}
        /\ UNCHANGED <<trace, backup>>
     \/ /\ phase = "backup" /\ trace[tsk].state # "absent"
        /\ backup' = [backup EXCEPT ![tsk] = Partial]
        /\ UNCHANGED trace
     \/ /\ phase = "install"
        /\ trace' = [trace EXCEPT ![tsk] = Partial]
        /\ UNCHANGED backup
  /\ phase' = "ktc_jobs"
  /\ tsk' = 1
  /\ temp' = Absent
  /\ smooth' = FALSE
  /\ UNCHANGED <<version, todo, listed, wcet, results, before>>

-----------------------------------------------------------------------------
(* ktc --enable-ext5 makes jobs of the traces, or fails. *)
KtcJobs ==
  /\ phase = "ktc_jobs"
  /\ \/ jobs' = "new" /\ UNCHANGED smooth
     \/ smooth' = FALSE /\ UNCHANGED jobs
  /\ phase' = "nptest"
  /\ UNCHANGED <<version, todo, tsk, temp, listed, wcet, trace, backup, rta, before>>

Nptest ==
  /\ phase = "nptest"
  /\ \/ jobs # "none" /\ rta' = "new" /\ UNCHANGED smooth
     \/ smooth' = FALSE /\ UNCHANGED rta
  /\ phase' = "verdict"
  /\ UNCHANGED <<version, todo, tsk, temp, listed, wcet, trace, backup, jobs, before>>

(* The hard deadlines are met and the compilation goes on, or they are not *)
(* and e2e ends, as it does by an exception when one of the files is       *)
(* missing or their rows do not match.                                     *)
Verdict ==
  /\ phase = "verdict"
  /\ \/ jobs # "none" /\ rta # "none" /\ phase' = "compile"
     \/ phase' = "idle"
  /\ UNCHANGED <<version, todo, tsk, temp, listed, wcet, trace, backup, results, history>>

(* compile_command runs ktc --enable-ext0 once more for --posix. *)
Compile ==
  /\ phase = "compile"
  /\ listed' \in {Programs[version], listed}
  /\ phase' = "idle"
  /\ UNCHANGED <<version, todo, tsk, temp, wcet, trace, backup, results, history>>

(* The whole command is killed; while a cp writes, after MakeTraceDies. *)
Killed ==
  /\ phase # "idle"
  /\ phase' = "idle"
  /\ todo' = {} /\ tsk' = 1 /\ temp' = Absent
  /\ UNCHANGED <<version, listed, wcet, trace, backup, results, history>>

Next ==
  \/ Edit \/ Profile \/ Start \/ Ktc
  \/ CalculateWcet \/ CalculateWcetDies \/ MakeTraceStart
  \/ BackUp \/ Rewrite \/ Install \/ MakeTraceDies
  \/ KtcJobs \/ Nptest \/ Verdict \/ Compile \/ Killed

Spec == Init /\ [][Next]_vars

-----------------------------------------------------------------------------
(* Fragments that are hard in this version of the program or were before. *)
HardSoFar == UNION {Programs[v] : v \in 1..version}

(* The tasks with hard deadlines now; a task whose trace has the static    *)
(* WCET of one of its hard fragments, and so of the only one it may have.  *)
HardTasks == {f[1] : f \in Programs[version]}
Used(t) ==
  /\ trace[t].state = "whole"
  /\ \E f \in Programs[version] : f[1] = t /\ trace[t].rows[f[2]] = Static(version)

(* The verdict of a run in which nothing went wrong is about the program   *)
(* at hand, whatever earlier runs left behind: the jobs and their analysis *)
(* are new, and the static WCETs of calculate_wcet.py are in the traces.   *)
StaticTimesUsed ==
  phase \in {"verdict", "compile"} /\ smooth =>
    jobs = "new" /\ rta = "new" /\ \A t \in HardTasks : Used(t)

(* What the README promises of --static-analysis, the WCET computation of  *)
(* the fragments with hard deadlines: all of them.  It fails for a task    *)
(* with two, because each line of the list overwrites its .wcet file.      *)
AllStaticTimesUsed ==
  phase \in {"verdict", "compile"} /\ smooth =>
    \A f \in Programs[version] : trace[f[1]].rows[f[2]] = Static(version)

(* Whatever goes wrong, measured times are only given up where there is or *)
(* was a hard deadline: a static time stands in the row of such a fragment *)
(* and a blank in the trace of a task that has one.                        *)
HardRows(t, file) ==
  file.state = "whole" =>
    \A p \in Point :
      /\ file.rows[p] \in StaticTimes => <<t, p>> \in HardSoFar
      /\ file.rows[p] = Blank => \E q \in Point : <<t, q>> \in HardSoFar

OnlyHardTouched == \A t \in Task : HardRows(t, trace[t])

(* Wherever the run is: a trace that was whole when it started is still    *)
(* there, in its place or as the backup.                                   *)
Recoverable ==
  phase # "idle" =>
    \A t \in Task : before[t].state = "whole" => before[t] \in {trace[t], backup[t]}

(* A trace is rewritten at most once in a run, whole, from what it was     *)
(* when the run started and the static times this run or an earlier one    *)
(* found; otherwise it is as it was, or the copy was cut short.            *)
RewrittenFrom(file, t) ==
  before[t].state = "whole" /\ file = Whole(Rewritten(before[t].rows, wcet[t]))

RewrittenOnce ==
  phase # "idle" =>
    \A t \in Task : trace[t] \in {before[t], Partial} \/ RewrittenFrom(trace[t], t)

-----------------------------------------------------------------------------
(* The inductive invariants behind them: see HardDeadline_proofs.          *)

MakingTrace == phase \in {"backup", "rewrite", "install"}

(* make_trace.py has not touched the traces from tsk on, and the backup of *)
(* tsk is made before temp is written and copied.                          *)
RewriteInv ==
  /\ phase \in {"ktc", "static"} => trace = before
  /\ MakingTrace => \A t \in Task : t >= tsk => trace[t] = before[t]
  /\ phase \in {"rewrite", "install"} => backup[tsk] = before[tsk]
  /\ phase = "install" => temp = Partial \/ RewrittenFrom(temp, tsk)
  /\ Recoverable /\ RewrittenOnce

(* Neither the list nor a .wcet file knows of fragments never hard. *)
HardInv ==
  /\ listed \subseteq HardSoFar /\ todo \subseteq HardSoFar
  /\ \A t \in Task :
       /\ \A line \in wcet[t].lines : <<t, line.tp>> \in HardSoFar
       /\ wcet[t].exists => \E q \in Point : <<t, q>> \in HardSoFar
       /\ HardRows(t, trace[t]) /\ HardRows(t, backup[t])
  /\ phase # "install" => temp = Absent
  /\ HardRows(tsk, temp)

(* What a smooth run has achieved in each phase. *)
Found(t) == \E f \in Programs[version] : f[1] = t /\ wcet[t] = OneLine(f[2], Static(version))

SmoothInv ==
  smooth =>
    /\ phase = "static" =>
         \A t \in HardTasks : Found(t) \/ \E f \in todo : f[1] = t
    /\ phase = "static" => todo \subseteq Programs[version]
    /\ MakingTrace => \A t \in HardTasks : Found(t) /\ (t < tsk => Used(t))
    /\ phase = "install" =>
         /\ temp.state = "whole"
         /\ tsk \in HardTasks =>
              \E f \in Programs[version] : f[1] = tsk /\ temp.rows[f[2]] = Static(version)
    /\ phase \in {"ktc_jobs", "nptest", "verdict", "compile"} => \A t \in HardTasks : Used(t)
    /\ phase \in {"nptest", "verdict", "compile"} => jobs = "new"
    /\ phase \in {"verdict", "compile"} => rta = "new"
=============================================================================
