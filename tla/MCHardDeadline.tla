--------------------------- MODULE MCHardDeadline ---------------------------
(***************************************************************************)
(* Two versions of a program with two tasks of two timing points.  Both    *)
(* fragments of the first task are hard at first; then one of them is not  *)
(* any more, and one of the second task is.                                *)
(***************************************************************************)
EXTENDS HardDeadline

MCPrograms == <<{<<1, 1>>, <<1, 2>>}, {<<1, 2>>, <<2, 1>>}>>
=============================================================================
