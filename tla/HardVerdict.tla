----------------------------- MODULE HardVerdict -----------------------------
(***************************************************************************)
(* The verdict of wcet.ml on hard deadlines, the last step of main_wcet in *)
(* HardDeadline: which jobs of the analysed schedule it looks at, and what *)
(* it takes for a deadline met.  It reads the same two kinds of file as    *)
(* the miss count of sensitivity.ml, so the jobs are those of MissCount.   *)
(***************************************************************************)
EXTENDS MissCount

CONSTANT JobKinds  \* contents of jobkind.csv: a row for a task

ASSUME JobKindsAssumption ==
  \A tl \in JobKinds : tl \in Seq([fid : Nat, fkind : {"hdelay", "fdelay", "sdelay"}])

-----------------------------------------------------------------------------
(* ktc numbers the jobs of a task from 0. *)
JobId(n) == Cardinality({e \in DOMAIN ip : e < n /\ ip[e].tskid = ip[n].tskid})

CreateMkList ==
  [n \in DOMAIN ip |->
    [tid |-> rta[n].tid, jid |-> JobId(n), misses |-> ip[n].dl - rta[n].wcct]]

(* Task ids count down along the file. *)
MakeTaskIdList(tl) ==
  {[id |-> Len(tl) + 1 - n, jid |-> tl[n].fid, knd |-> tl[n].fkind] : n \in DOMAIN tl}

MakeHtpList(tlst) == {t \in tlst : t.knd = "hdelay"}

FindJobIdEqual(mkid, hid) == hid - mkid
FindJobId(mkid, hid) == IF mkid = 0 THEN 0 ELSE hid % mkid

CheckList(tlst, mklist) ==
  \A h \in tlst, n \in DOMAIN mklist :
    mklist[n].tid = h.id /\ FindJobId(mklist[n].jid, h.jid) = 0 => mklist[n].misses > 0

Verdict(tl) == CheckList(MakeHtpList(MakeTaskIdList(tl)), CreateMkList)

-----------------------------------------------------------------------------
(* What a positive verdict is worth.  The first job of a task with a hard  *)
(* fragment and the job with the number of the fragment meet their         *)
(* deadlines.  And when the fragment has number 0, which every job id      *)
(* divides, no job of the task is late: the miss count of sensitivity.ml   *)
(* is 0 for it, whatever its k.                                            *)
HardKept ==
  \A tl \in JobKinds : Verdict(tl) =>
    \A h \in MakeHtpList(MakeTaskIdList(tl)) :
      /\ \A n \in DOMAIN ip :
           ip[n].tskid = h.id /\ JobId(n) \in {0, h.jid} => rta[n].wcct <= ip[n].dl
      /\ h.jid = 0 /\ h.id \in Tasks => SmallM[h.id] = 0
=============================================================================
