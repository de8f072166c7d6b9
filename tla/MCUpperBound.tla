---------------------------- MODULE MCUpperBound ----------------------------
(* An instance of MissCount, UpperBound and HardVerdict: one task with a   *)
(* window of three jobs, one with two, so that windows shorter and longer  *)
(* than the job lists occur; caps below and above the leeways that occur;  *)
(* each task hard in its first or in its third fragment.                   *)
EXTENDS UpperBound, HardVerdict

MCKlist == <<3, 2>>
MCCaps == {[num |-> 1, den |-> 2], [num |-> 3, den |-> 2], [num |-> 5, den |-> 1]}

Kind(f, k) == [fid |-> f, fkind |-> k]
MCJobKinds == {<<Kind(0, "hdelay"), Kind(1, "sdelay")>>,
               <<Kind(0, "fdelay"), Kind(2, "hdelay")>>}
=============================================================================
