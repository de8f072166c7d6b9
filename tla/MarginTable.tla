---------------------------- MODULE MarginTable ----------------------------
(***************************************************************************)
(* What a sensitivity analysis promises, without its arrays, indices and   *)
(* order of work: it analyses scaling factors, each strictly inside an     *)
(* interval that is still too wide, until no such interval is left, and    *)
(* then publishes for each number of misses the largest factor analysed    *)
(* that gave it.                                                           *)
(***************************************************************************)
EXTENDS Integers

CONSTANTS Top,        \* the largest factor of interest
          Tolerance,  \* intervals narrower than this need no analysis
          Misses      \* the numbers of misses an analysis may count

VARIABLES known,      \* the analyses made: a factor and its misses
          published,  \* TRUE when the table has been published
          margins     \* the published table: misses |-> factor

varsMT == <<known, published, margins>>

Init ==
  /\ known = {}
  /\ published = FALSE
  /\ margins = <<>>

(* Without any execution time nothing is late. *)
Anchored == known \cup {[delta |-> 0, m |-> 0]}

(* a and b enclose factors of which too little is known. *)
Open(a, b) == a.m < b.m /\ b.delta - a.delta >= Tolerance

Neighbours(a, b) ==
  /\ a.delta < b.delta
  /\ \A c \in known : ~(a.delta < c.delta /\ c.delta < b.delta)

(* More execution time never gives fewer misses. *)
Consistent(delta, m) ==
  \A a \in Anchored : /\ a.delta <= delta => a.m <= m
                      /\ delta <= a.delta => m <= a.m

Largest(i) ==
  CHOOSE d \in {a.delta : a \in {b \in known : b.m = i}} :
    \A a \in known : a.m = i => a.delta <= d

Analyse(delta, m) ==
  /\ ~published
  /\ \/ known = {} /\ delta = Top
     \/ \E a, b \in Anchored : /\ Open(a, b)
                               /\ a.delta < delta /\ delta < b.delta
  /\ Consistent(delta, m)
  /\ known' = known \cup {[delta |-> delta, m |-> m]}
  /\ UNCHANGED <<published, margins>>

(* Only the row of Top itself is optional, when nothing below Top gave as  *)
(* many misses.                                                            *)
Publish ==
  /\ ~published /\ known # {}
  /\ \A a, b \in Anchored : Neighbours(a, b) => ~Open(a, b)
  /\ published' = TRUE
  /\ \E rows \in SUBSET {a.m : a \in known} :
       /\ \A a \in known : a.delta < Top => a.m \in rows
       /\ margins' = [i \in rows |-> Largest(i)]
  /\ UNCHANGED known

Next == Publish \/ \E delta \in 0..Top, m \in Misses : Analyse(delta, m)

Safety == Init /\ [][Next]_varsMT

Spec == Safety /\ WF_varsMT(Next)
=============================================================================
