----------------------------- MODULE UpperBound -----------------------------
(***************************************************************************)
(* delta_sup, the factor at which the search of DeltaSearch starts.  The   *)
(* task set is analysed unscaled; the leeway of a job is the factor by     *)
(* which its own execution time may grow until it uses up its slack, and   *)
(* delta_sup is the largest leeway among the first k jobs of all tasks,    *)
(* or the utilization cap if that is smaller.                              *)
(*                                                                         *)
(* The float factors of the code are fractions here, with a numerator and  *)
(* a positive denominator.  The jobs are those of MissCount.               *)
(***************************************************************************)
EXTENDS MissCount

CONSTANT Caps  \* values of exp_util /. sys_util

ASSUME CapsAssumption == \A c \in Caps : c.num \in Nat \ {0} /\ c.den \in Nat \ {0}

-----------------------------------------------------------------------------
(* Fractions. *)
AtMost(f, g) == f.num * g.den <= g.num * f.den
Less(f, g) == f.num * g.den < g.num * f.den

Scale(f, c) == (f.num * c) \div f.den

SmallerOf(f, g) == IF AtMost(f, g) THEN f ELSE g

LeewayOfDeadline(n) == [num |-> ip[n].dl - rta[n].wcct, den |-> ip[n].cmax]
LeewayNoSlack(n) == [num |-> ip[n].cmax + ip[n].dl, den |-> ip[n].cmax]

Leeway(n) == [num |-> ip[n].cmax + ip[n].dl - rta[n].wcct, den |-> ip[n].cmax]

(* The first k jobs of task i by release. *)
FirstK(i, k) ==
  LET own == {n \in DOMAIN ip : ip[n].tskid = i}
  IN  {n \in own : Cardinality({e \in own : ip[e].rmin < ip[n].rmin}) < k}

(* The k of the first task serves for every task. *)
Considered == UNION {FirstK(i, Klist[1]) : i \in Tasks}

Leeways == {Leeway(n) : n \in Considered} \cup {[num |-> 0, den |-> 1]}

MaxInitialUpperBound == CHOOSE f \in Leeways : \A g \in Leeways : AtMost(g, f)

(* sys_util < exp_util and delta_sup_cap > 1.0, which say the same. *)
RoomToGrow(cap) == Less([num |-> 1, den |-> 1], cap)

(* The leeways only count while the cap leaves room to grow. *)
DeltaSup(cap) ==
  IF RoomToGrow(cap)
    THEN SmallerOf(MaxInitialUpperBound, cap)
    ELSE cap

-----------------------------------------------------------------------------
(* Completion times just beyond that bound: at the least, every job        *)
(* completes later by what its own execution time has grown.               *)
JustBeyond(c) == Scale(MaxInitialUpperBound, c) + 1

Completions ==
  [n \in DOMAIN rta |->
    [tid |-> rta[n].tid, wcct |-> rta[n].wcct + JustBeyond(ip[n].cmax) - ip[n].cmax]]

Beyond == INSTANCE MissCount WITH rta <- Completions

(* Beyond the largest leeway, which is delta_sup unless the cap is less,   *)
(* there is nothing left to search: once every execution time is one unit  *)
(* longer than at that factor, a task whose k is at most that of the first *)
(* task misses all of some k consecutive deadlines, so calculate_misses_k  *)
(* can not answer more.                                                    *)
Saturated ==
  \A i \in Tasks :
    Klist[i] <= Klist[1] /\ LlstOf(i) # <<>> => Beyond!SmallM[i] = Klist[i]

(* Below delta_sup there is always something to lose: at every smaller     *)
(* factor, one of the jobs considered would still have slack if only its   *)
(* own execution time grew.                                                *)
Least ==
  \A cap \in {c \in Caps : RoomToGrow(c)}, f \in [num : 0..(2 * MaxWcct), den : Costs] :
    Less(f, DeltaSup(cap)) =>
      \E n \in Considered : rta[n].wcct + Scale(f, ip[n].cmax) - ip[n].cmax < ip[n].dl
=============================================================================
