-------------------------- MODULE MCSensitivityRun --------------------------
(* Instances of SensitivityRun, with a job.rta.csv of an earlier run.      *)
EXTENDS SensitivityRun

MCLeftovers == {[delta |-> -3, m |-> 1], [delta |-> -3, m |-> 3]}
=============================================================================
