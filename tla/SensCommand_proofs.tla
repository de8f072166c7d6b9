------------------------- MODULE SensCommand_proofs -------------------------
(***************************************************************************)
(* Proofs about the files of "e2e sens", for every number of edits, runs   *)
(* and analyses, killed anywhere.                                          *)
(***************************************************************************)
EXTENDS SensCommand, TLAPS

(* Scaling once more what may still be scaled gives a file. *)
LEMMA RescaledContents ==
  ASSUME NEW f \in Contents, f # NoFile, f.scaled < MaxScaled
  PROVE  Rescale(f) \in Contents
BY BoundsAssumption DEF Contents, NoFile, Rescale

(* The files are never anything but what ktc writes, scaled within bounds. *)
THEOREM TypeCorrect == Spec => []TypeOK
<1> USE BoundsAssumption DEF TypeOK, Phases, fileVars, pending
<1>1. NoFile \in Contents
  BY DEF Contents
<1>2. \A v \in 1..MaxVersion : Fresh(v) \in Contents
  BY DEF Contents, Fresh
<1>3. Init => TypeOK
  BY <1>1 DEF Init
<1>4. TypeOK /\ [Next]_vars => TypeOK'
  <2> SUFFICES ASSUME TypeOK, [Next]_vars PROVE TypeOK'
    OBVIOUS
  <2>1. CASE Edit
    BY <2>1 DEF Edit
  <2>2. CASE CompileCommand
    BY <1>2, <2>2 DEF CompileCommand, KtcWrites
  <2>3. CASE SensStart
    BY <2>3 DEF SensStart
  <2>4. CASE Ktc
    BY <1>2, <2>4 DEF Ktc, KtcWrites
  <2>5. CASE CopyJob
    BY <2>5 DEF CopyJob
  <2>6. CASE CopyInput
    BY <2>6 DEF CopyInput
  <2>7. CASE CopyAction
    BY <2>7 DEF CopyAction
  <2>8. CASE CopiesStop
    BY <2>8 DEF CopiesStop
  <2>9. CASE ScaleInput
    BY <2>9, RescaledContents DEF ScaleInput
  <2>10. CASE SaveAction
    BY <2>10 DEF SaveAction
  <2>11. CASE SaveJob
    BY <2>11 DEF SaveJob
  <2>12. CASE End
    BY <1>1, <2>12 DEF End
  <2>13. CASE UNCHANGED vars
    BY <2>13 DEF vars
  <2> QED
    BY <2>1, <2>2, <2>3, <2>4, <2>5, <2>6, <2>7, <2>8, <2>9, <2>10, <2>11, <2>12, <2>13
       DEF Next
<1> QED BY <1>3, <1>4, PTL DEF Spec

(* What ktc and the chain of copies have established when each phase       *)
(* begins, as long as nothing has gone wrong.                              *)
Progress ==
  /\ mishaps = {} =>
       /\ phase \in {"cp_job", "cp_input", "cp_action"} =>
            job_edf = Fresh(version) /\ action = Fresh(version)
       /\ phase = "cp_input" => job = Fresh(version)
       /\ phase = "cp_action" => input = Fresh(version)
  /\ version \in Nat \ {0}
  /\ OriginalsCurrent

(* The runs before, where they were killed and the edits between them do   *)
(* not matter: as long as ktc accepts the programs and no command is       *)
(* interrupted half-way, the originals are those of the program at hand    *)
(* and nobody has scaled them.                                             *)
THEOREM OriginalsAlwaysCurrent == Spec => []OriginalsCurrent
<1> USE DEF Fresh, NoFile, fileVars, pending, InSensitivity
<1>1. Init => Progress
  BY DEF Init, Progress, OriginalsCurrent
<1>2. Progress /\ [Next]_vars => Progress'
  <2> SUFFICES ASSUME Progress, [Next]_vars PROVE Progress'
    OBVIOUS
  <2> USE DEF Progress, OriginalsCurrent
  <2>1. CASE Edit
    BY <2>1 DEF Edit
  <2>2. CASE CompileCommand
    BY <2>2 DEF CompileCommand, KtcWrites
  <2>3. CASE SensStart
    BY <2>3 DEF SensStart
  <2>4. CASE Ktc
    BY <2>4 DEF Ktc, KtcWrites
  <2>5. CASE CopyJob
    BY <2>5 DEF CopyJob
  <2>6. CASE CopyInput
    BY <2>6 DEF CopyInput
  <2>7. CASE CopyAction
    BY <2>7 DEF CopyAction
  <2>8. CASE ScaleInput
    BY <2>8 DEF ScaleInput
  <2>9. CASE SaveAction
    BY <2>9 DEF SaveAction
  <2>10. CASE SaveJob
    BY <2>10 DEF SaveJob
  <2>11. CASE End
    BY <2>11 DEF End
  <2>12. CASE UNCHANGED vars
    BY <2>12 DEF vars
  <2>13. CASE CopiesStop
    BY <2>13 DEF CopiesStop
  <2> QED
    BY <2>1, <2>2, <2>3, <2>4, <2>5, <2>6, <2>7, <2>8, <2>9, <2>10, <2>11, <2>12, <2>13
       DEF Next
<1>3. Progress => OriginalsCurrent
  BY DEF Progress
<1> QED BY <1>1, <1>2, <1>3, PTL DEF Spec

(* What holds of the files if ktc rejects programs but nothing has been    *)
(* left half done: job_edf.csv is as ktc wrote it and of the version of    *)
(* action.csv, which scale_input overwrites; the copies follow job_edf.csv *)
(* phase by phase; without it there are none.                              *)
SameVersions ==
  /\ job_edf.scaled = 0 /\ input.scaled = 0
  /\ job_edf.version = action.version
  /\ action = NoFile => job_edf = NoFile
  /\ phase = "cp_input" => job = job_edf
  /\ phase = "cp_action" => input = job_edf
  /\ job_edf = NoFile =>
       action = NoFile /\ input = NoFile /\ orginal_action = NoFile
  /\ InSensitivity => /\ input.version = job_edf.version
                      /\ orginal_action.version = job_edf.version
  /\ phase \in {"save_action", "save_job"} =>
       /\ next_action.version = orginal_action.version
       /\ job_edf # NoFile

Provenance ==
  /\ \A f \in {job_edf, action, job, input, orginal_action} : f \in [version : Nat, scaled : Nat]
  /\ version \in Nat \ {0}
  /\ phase \in {"save_action", "save_job"} =>
       /\ next_job \in [version : Nat, scaled : {1}]
       /\ next_action \in [version : Nat, scaled : Nat \ {0}]
  /\ job_edf.scaled = 0 /\ input.scaled = 0
  /\ phase = "cp_input" => job = job_edf
  /\ "interrupted" \notin mishaps => SameVersions

LEMMA ProvenanceInvariant == Spec => []Provenance
<1> USE DEF Fresh, NoFile, fileVars, pending, InSensitivity
<1>1. Init => Provenance
  BY BoundsAssumption DEF Init, Provenance, SameVersions
<1>2. Provenance /\ [Next]_vars => Provenance'
  <2> SUFFICES ASSUME Provenance, [Next]_vars PROVE Provenance'
    OBVIOUS
  <2> USE DEF Provenance, SameVersions
  <2>1. CASE Edit
    BY <2>1 DEF Edit
  <2>2. CASE CompileCommand
    BY <2>2 DEF CompileCommand, KtcWrites
  <2>3. CASE SensStart
    BY <2>3 DEF SensStart
  <2>4. CASE Ktc
    BY <2>4 DEF Ktc, KtcWrites
  <2>5. CASE CopyJob
    BY <2>5 DEF CopyJob
  <2>6. CASE CopyInput
    BY <2>6 DEF CopyInput
  <2>7. CASE CopyAction
    BY <2>7 DEF CopyAction
  <2>8. CASE ScaleInput
    <3>1. next_job' \in [version : Nat, scaled : {1}]
      BY <2>8 DEF ScaleInput, Rescale
    <3>2. next_action' \in [version : Nat, scaled : Nat \ {0}]
      BY <2>8 DEF ScaleInput, Rescale
    <3>3. next_action'.version = orginal_action.version
      BY <2>8 DEF ScaleInput, Rescale
    <3> QED BY <2>8, <3>1, <3>2, <3>3 DEF ScaleInput
  <2>9. CASE SaveAction
    BY <2>9 DEF SaveAction
  <2>10. CASE SaveJob
    BY <2>10 DEF SaveJob
  <2>11. CASE End
    BY <2>11 DEF End
  <2>12. CASE UNCHANGED vars
    BY <2>12 DEF vars
  <2>13. CASE CopiesStop
    BY <2>13 DEF CopiesStop
  <2> QED
    BY <2>1, <2>2, <2>3, <2>4, <2>5, <2>6, <2>7, <2>8, <2>9, <2>10, <2>11, <2>12, <2>13
       DEF Next
<1> QED BY <1>1, <1>2, PTL DEF Spec

(* Whether ktc fails or not, the jobs and the abort actions a sensitivity  *)
(* run works on come from the same version of the program.                 *)
THEOREM AlwaysSameProgram == Spec => []SameProgram
<1>1. Provenance => SameProgram
  BY DEF Provenance, SameVersions, SameProgram
<1> QED BY <1>1, ProvenanceInvariant, PTL

(* Whatever goes wrong, job.csv is scaled from execution times nobody has  *)
(* scaled before.                                                          *)
THEOREM InputAlwaysUnscaled == Spec => []InputUnscaled
<1>1. Provenance => InputUnscaled
  BY DEF Provenance, InputUnscaled
<1> QED BY <1>1, ProvenanceInvariant, PTL
=============================================================================
