---------------------------- MODULE SensCommand ----------------------------
(***************************************************************************)
(* "e2e sens" over and over in one directory: the program is edited, ktc   *)
(* turns it into job_edf.csv and action.csv, these are copied to job.csv,  *)
(* input and orginal_action, and the sensitivity program scales the copies *)
(* once per analysis, writing action.csv and job.csv again.  Every step is *)
(* a shell command whose status sens_command throws away.  The user may    *)
(* kill the whole command at any time; an interrupt from the keyboard      *)
(* kills only the shell command that runs, because Sys.command makes e2e   *)
(* itself ignore it, and the next one follows.                             *)
(*                                                                         *)
(* A file is the version of the program its rows come from and how many    *)
(* times its execution times have been scaled since ktc wrote them.  The   *)
(* search itself is SensitivityRun; here it may stop after any analysis.   *)
(***************************************************************************)
EXTENDS Integers

CONSTANTS MaxVersion,   \* bound on the number of edits
          MaxScaled     \* bound on how often a file is scaled in turn

ASSUME BoundsAssumption == MaxVersion \in Nat \ {0} /\ MaxScaled \in Nat \ {0}

VARIABLES version,         \* of the Timed C program and its traces
          phase,           \* of the e2e process; "idle": there is none
          job_edf,         \* job_edf.csv, written by ktc
          action,          \* action.csv, written by ktc and by scale_input
          job,             \* job.csv
          input,           \* input
          orginal_action,  \* orginal_action
          next_action,     \* what scale_input is about to save as action.csv
          next_job,        \* what scale_input is about to save as job.csv
          mishaps          \* history: what has gone wrong so far

fileVars == <<job_edf, action, job, input, orginal_action>>
pending == <<next_action, next_job>>
vars == <<version, phase, fileVars, pending, mishaps>>

NoFile == [version |-> 0, scaled |-> 0]
Contents == [version : 1..MaxVersion, scaled : 0..MaxScaled] \cup {NoFile}
Fresh(v) == [version |-> v, scaled |-> 0]
RescaleTwice(f) == [f EXCEPT !.scaled = @ + 2]
Rescale(f) == [f EXCEPT !.scaled = @ + 1]

Phases == {"idle", "ktc", "cp_job", "cp_input", "cp_action",
           "sensitivity", "save_action", "save_job"}

TypeOK ==
  /\ version \in 1..MaxVersion
  /\ phase \in Phases
  /\ \A f \in {job_edf, action, job, input, orginal_action, next_action, next_job} :
       f \in Contents
  /\ mishaps \subseteq {"rejected", "interrupted"}

Init ==
  /\ version = 1
  /\ phase = "idle"
  /\ job_edf = NoFile /\ action = NoFile /\ job = NoFile
  /\ input = NoFile /\ orginal_action = NoFile
  /\ next_action = NoFile /\ next_job = NoFile
  /\ mishaps = {}

-----------------------------------------------------------------------------
Edit ==
  /\ phase = "idle"
  /\ version < MaxVersion
  /\ version' = version + 1
  /\ UNCHANGED <<phase, fileVars, pending, mishaps>>

(* ktc writes both files for the program at hand, or rejects the program   *)
(* and writes neither, or is interrupted when it has written one of them.  *)
KtcWrites ==
  \/ /\ job_edf' = Fresh(version) /\ action' = Fresh(version)
     /\ UNCHANGED mishaps
  \/ /\ mishaps' = mishaps \cup {"rejected"}
     /\ UNCHANGED <<job_edf, action>>
  \/ /\ mishaps' = mishaps \cup {"interrupted"}
     /\ \/ job_edf' = Fresh(version) /\ UNCHANGED action
        \/ action' = Fresh(version) /\ UNCHANGED job_edf

(* e2e compile --static-analysis runs ktc in the same directory. *)
CompileCommand ==
  /\ phase = "idle"
  /\ KtcWrites
  /\ UNCHANGED <<version, phase, job, input, orginal_action, pending>>

SensStart ==
  /\ phase = "idle"
  /\ phase' = "ktc"
  /\ UNCHANGED <<version, fileVars, pending, mishaps>>

Ktc ==
  /\ phase = "ktc"
  /\ KtcWrites
  /\ phase' = "cp_job"
  /\ UNCHANGED <<version, job, input, orginal_action, pending>>

(* cp job_edf.csv job.csv && cp job.csv input && cp action.csv             *)
(* orginal_action: a missing file ends the chain, not the command.         *)
CopyJob ==
  /\ phase = "cp_job"
  /\ IF job_edf = NoFile
       THEN phase' = "sensitivity" /\ UNCHANGED job
       ELSE phase' = "cp_input" /\ job' = job_edf
  /\ UNCHANGED <<version, job_edf, action, input, orginal_action, pending, mishaps>>

CopyInputOnce ==
  /\ phase = "cp_input"
  /\ input' = IF input = NoFile THEN job ELSE input
  /\ phase' = "cp_action"
  /\ UNCHANGED <<version, job_edf, action, job, orginal_action, pending, mishaps>>
CopyInput ==
  /\ phase = "cp_input"
  /\ input' = job
  /\ phase' = "cp_action"
  /\ UNCHANGED <<version, job_edf, action, job, orginal_action, pending, mishaps>>

CopyActionOnce ==
  /\ phase = "cp_action"
  /\ orginal_action' = IF orginal_action = NoFile THEN action ELSE orginal_action
  /\ phase' = "sensitivity"
  /\ UNCHANGED <<version, job_edf, action, job, input, pending, mishaps>>
CopyAction ==
  /\ phase = "cp_action"
  /\ IF action = NoFile THEN UNCHANGED orginal_action ELSE orginal_action' = action
  /\ phase' = "sensitivity"
  /\ UNCHANGED <<version, job_edf, action, job, input, pending, mishaps>>

(* The chain is interrupted, and the sensitivity program starts. *)
CopiesStop ==
  /\ phase \in {"cp_job", "cp_input", "cp_action"}
  /\ phase' = "sensitivity"
  /\ mishaps' = mishaps \cup {"interrupted"}
  /\ UNCHANGED <<version, fileVars, pending>>

(* scale_input: both originals are read and scaled, then action.csv and    *)
(* job.csv are saved.  The bound stops an ever rescaled file.              *)
ScaleInputFromJob ==
  /\ phase = "sensitivity"
  /\ input # NoFile /\ orginal_action # NoFile
  /\ job.scaled < MaxScaled /\ orginal_action.scaled < MaxScaled
  /\ next_job' = Rescale(job)
  /\ next_action' = Rescale(orginal_action)
  /\ phase' = "save_action"
  /\ UNCHANGED <<version, fileVars, mishaps>>
ScaleInput ==
  /\ phase = "sensitivity"
  /\ input # NoFile /\ orginal_action # NoFile
  /\ input.scaled < MaxScaled /\ orginal_action.scaled < MaxScaled
  /\ next_job' = Rescale(input)
  /\ next_action' = Rescale(orginal_action)
  /\ phase' = "save_action"
  /\ UNCHANGED <<version, fileVars, mishaps>>

SaveAction ==
  /\ phase = "save_action"
  /\ action' = next_action
  /\ phase' = "save_job"
  /\ UNCHANGED <<version, job_edf, job, input, orginal_action, pending, mishaps>>

SaveJob ==
  /\ phase = "save_job"
  /\ job' = next_job
  /\ phase' = "sensitivity"
  /\ UNCHANGED <<version, job_edf, action, input, orginal_action, pending, mishaps>>

(* The search is over, an input file is missing, or the command is killed. *)
End ==
  /\ phase # "idle"
  /\ phase' = "idle"
  /\ next_action' = NoFile /\ next_job' = NoFile
  /\ UNCHANGED <<version, fileVars, mishaps>>

Next ==
  \/ Edit \/ CompileCommand \/ SensStart \/ Ktc
  \/ CopyJob \/ CopyInput \/ CopyAction \/ CopiesStop
  \/ ScaleInput \/ SaveAction \/ SaveJob \/ End

Spec == Init /\ [][Next]_vars

-----------------------------------------------------------------------------
InSensitivity == phase \in {"sensitivity", "save_action", "save_job"}

(* The analysis is about the program of this run: while ktc accepts all    *)
(* programs and only whole commands are killed, both originals are         *)
(* unscaled and of the version at hand, wherever commands were killed.     *)
OriginalsCurrent ==
  mishaps = {} /\ InSensitivity =>
    input = Fresh(version) /\ orginal_action = Fresh(version)

(* Even after runs in which ktc rejected the program: the jobs and the     *)
(* abort actions that are analysed together come from the same version.    *)
SameProgram ==
  "interrupted" \notin mishaps /\ InSensitivity => input.version = orginal_action.version

(* Whatever goes wrong: the jobs are scaled from execution times nobody    *)
(* has scaled before, because scale_input reads input and not the job.csv  *)
(* it writes.                                                              *)
InputUnscaled == input.scaled = 0 /\ (phase = "save_job" => next_job.scaled = 1)

(* sensitivity.ml says scale_input scales "the original input": neither of *)
(* the two originals has been scaled before.                               *)
ScalesTheOriginal ==
  "interrupted" \notin mishaps /\ phase = "save_action"
    => next_job.scaled = 1 /\ next_action.scaled = 1
=============================================================================
