------------------------- MODULE UpperBound_proofs -------------------------
(***************************************************************************)
(* Proofs about the miss count (MissCount), the verdict on hard deadlines  *)
(* (HardVerdict) and the initial upper bound (UpperBound), which share the *)
(* state of MissCount and so its specification.                            *)
(*                                                                         *)
(* The invariant is small: RowsInv, the two files hold the same jobs row   *)
(* by row, in order of release.  What is hard is arithmetic: that a list   *)
(* read as a circle (%) has all the windows of the endless schedule, that  *)
(* NthRow numbers the rows, that a finite set of fractions has a largest.  *)
(***************************************************************************)
EXTENDS UpperBound, HardVerdict, FiniteSetTheorems, WellFoundedInduction, TLAPS

-----------------------------------------------------------------------------
(* Sets of naturals and sums. Induction is out of the provers' reach, so a *)
(* property of all numbers is proved from the least counterexample.        *)

(* Every set of naturals has a least element. *)
LEMMA LeastNumber == ASSUME NEW S, S \subseteq Nat, S # {}
                     PROVE  \E n \in S : \A m \in S : n <= m
<1> DEFINE R == {ss \in Nat \X Nat : ss[1] < ss[2]}
<1>1. IsWellFoundedOn(R, Nat)
  <2>1. OpToRel(<, Nat) = R
    BY Zenon DEF OpToRel
  <2> QED BY <2>1, NatLessThanWellFounded, Zenon
<1> HIDE DEF R
<1>2. PICK n \in S : \A m \in S : ~ (<<m, n>> \in R)
  BY <1>1, WFMin
<1>3. \A m \in S : ~ (m < n)
  BY <1>2 DEF R
<1> QED BY <1>3

(* A bounded set of naturals has its maximum as a member.                  *)
LEMMA Largest == ASSUME NEW S, S \subseteq Nat, S # {}, NEW b \in Nat, \A x \in S : x <= b
                 PROVE  Max(S) \in S /\ \A x \in S : x <= Max(S)
<1> DEFINE T == {b - x : x \in S}
<1>1. T \subseteq Nat /\ T # {}
  <2>1. \A x \in S : x \in Nat /\ x <= b
    OBVIOUS
  <2>2. \A x \in S : b - x \in Nat
    BY <2>1
  <2> QED BY <2>2
<1> HIDE DEF T
<1>2. PICK t \in T : \A u \in T : t <= u
  BY <1>1, LeastNumber
<1>3. PICK x \in S : t = b - x
  BY DEF T
<1>4. \A y \in S : b - y \in T
  BY DEF T
<1>5. \A y \in S : x >= y
  BY <1>2, <1>3, <1>4
<1>6. Max(S) \in S /\ \A y \in S : Max(S) >= y
  BY <1>5 DEF Max
<1> QED BY <1>6

(* The sum of calculate_misses_for_each_task. *)
SumTo(g, N) ==
  LET m[i \in 0..N] == IF i = 0 THEN 0 ELSE m[i - 1] + g[i] IN m[N]

SumsUp(f, g, n) ==
  /\ f \in [0..n -> Nat] /\ f[0] = 0
  /\ \A i \in 1..n : f[i] = f[i - 1] + g[i]

(* There is a function of partial sums for every list of naturals.         *)
LEMMA SumExists == ASSUME NEW N \in Nat, NEW g \in [1..N -> Nat]
                   PROVE  \E f : SumsUp(f, g, N)
<1> DEFINE S == {n \in 0..N : ~ \E f : SumsUp(f, g, n)}
<1>1. CASE S = {}
  <2>1. N \in 0..N
    OBVIOUS
  <2> QED BY <1>1, <2>1
<1>2. CASE S # {}
  <2>1. S \subseteq Nat
    OBVIOUS
  <2>2. PICK n \in S : \A m \in S : n <= m
    <3> HIDE DEF S
    <3> QED BY <1>2, <2>1, LeastNumber
  <2>3. n \in 0..N /\ ~ \E f : SumsUp(f, g, n)
    OBVIOUS
  <2>4. CASE n = 0
    <3> DEFINE f == [i \in 0..0 |-> 0]
    <3>1. f \in [0..0 -> Nat] /\ f[0] = 0 /\ 1..0 = {}
      OBVIOUS
    <3> HIDE DEF f
    <3>2. SumsUp(f, g, 0)
      BY <3>1 DEF SumsUp
    <3> QED BY <2>3, <2>4, <3>2
  <2>5. CASE n # 0
    <3>1. n - 1 \in 0..N /\ ~(n - 1 \in S)
      BY <2>2, <2>3, <2>5
    <3>2. PICK f : SumsUp(f, g, n - 1)
      BY <3>1
    <3>3. f \in [0..(n - 1) -> Nat] /\ f[0] = 0 /\ \A i \in 1..(n - 1) : f[i] = f[i - 1] + g[i]
      BY <3>2 DEF SumsUp
    <3>4. g[n] \in Nat /\ n \in Nat \ {0} /\ f[n - 1] \in Nat
      BY <2>3, <2>5, <3>3
    <3> DEFINE h == [i \in 0..n |-> IF i = n THEN f[n - 1] + g[n] ELSE f[i]]
    <3>5. h \in [0..n -> Nat] /\ h[0] = 0 /\ h[n] = f[n - 1] + g[n]
          /\ \A i \in 0..(n - 1) : h[i] = f[i]
      BY <3>3, <3>4
    <3> HIDE DEF h
    <3>6. ASSUME NEW i \in 1..n PROVE h[i] = h[i - 1] + g[i]
      <4>1. CASE i = n
        BY <3>4, <3>5, <4>1
      <4>2. CASE i # n
        <5>1. i \in 1..(n - 1) /\ i \in 0..(n - 1) /\ i - 1 \in 0..(n - 1)
          BY <3>4, <4>2
        <5> QED BY <3>3, <3>5, <5>1
      <4> QED BY <4>1, <4>2
    <3>7. SumsUp(h, g, n)
      BY <3>5, <3>6 DEF SumsUp
    <3> QED BY <2>3, <3>7
  <2> QED BY <2>4, <2>5
<1> QED BY <1>1, <1>2

(* SumTo is the last of the partial sums.                                  *)
LEMMA SumIs == ASSUME NEW N \in Nat, NEW g \in [1..N -> Nat]
               PROVE  \E f : SumsUp(f, g, N) /\ SumTo(g, N) = f[N]
<1> DEFINE Body(m) == [i \in 0..N |-> IF i = 0 THEN 0 ELSE m[i - 1] + g[i]]
           f == CHOOSE m : m = Body(m)
<1>1. PICK e : SumsUp(e, g, N)
  BY SumExists
<1>2. e = Body(e)
  BY <1>1 DEF SumsUp
<1>3. f = Body(f)
  <2> HIDE DEF Body
  <2> QED BY <1>2
<1>4. SumTo(g, N) = f[N]
  BY DEF SumTo
<1> HIDE DEF f
<1>5. f[0] = 0 /\ \A i \in 1..N : f[i] = f[i - 1] + g[i]
  BY <1>3
<1>6. \A i \in 0..N : f[i] \in Nat
  <2> DEFINE S == {i \in 0..N : f[i] \notin Nat}
  <2>1. CASE S = {}
    BY <2>1
  <2>2. CASE S # {}
    <3>1. S \subseteq Nat
      OBVIOUS
    <3>2. PICK n \in S : \A m \in S : n <= m
      <4> HIDE DEF S
      <4> QED BY <2>2, <3>1, LeastNumber
    <3>3. n \in 1..N
      BY <1>5, <3>2
    <3>4. n - 1 \in 0..N /\ n - 1 \notin S
      BY <3>2, <3>3
    <3>5. f[n - 1] \in Nat
      BY <3>4
    <3> QED BY <1>5, <3>2, <3>3, <3>5
  <2> QED BY <2>1, <2>2
<1>7. f \in [0..N -> Nat]
  BY <1>3, <1>6
<1> QED BY <1>4, <1>5, <1>7 DEF SumsUp

(* Larger summands have a larger sum.                                      *)
LEMMA SumMonotone == ASSUME NEW N \in Nat, NEW g \in [1..N -> Nat], NEW h \in [1..N -> Nat],
                            \A i \in 1..N : g[i] <= h[i]
                     PROVE  SumTo(g, N) <= SumTo(h, N)
<1>1. PICK a : SumsUp(a, g, N) /\ SumTo(g, N) = a[N]
  BY SumIs
<1>2. PICK b : SumsUp(b, h, N) /\ SumTo(h, N) = b[N]
  BY SumIs
<1>3. /\ a \in [0..N -> Nat] /\ a[0] = 0 /\ \A i \in 1..N : a[i] = a[i - 1] + g[i]
      /\ b \in [0..N -> Nat] /\ b[0] = 0 /\ \A i \in 1..N : b[i] = b[i - 1] + h[i]
  BY <1>1, <1>2 DEF SumsUp
<1> DEFINE S == {i \in 0..N : ~(a[i] <= b[i])}
<1>4. CASE S = {}
  <2>1. N \in 0..N
    OBVIOUS
  <2> QED BY <1>1, <1>2, <1>4, <2>1
<1>5. CASE S # {}
  <2>1. S \subseteq Nat
    OBVIOUS
  <2>2. PICK n \in S : \A m \in S : n <= m
    <3> HIDE DEF S
    <3> QED BY <1>5, <2>1, LeastNumber
  <2>3. n \in 1..N
    BY <1>3, <2>2
  <2>4. n - 1 \in 0..N /\ n - 1 \notin S
    BY <2>2, <2>3
  <2>5. a[n - 1] <= b[n - 1] /\ g[n] <= h[n] /\ g[n] \in Nat /\ h[n] \in Nat
        /\ a[n - 1] \in Nat /\ b[n - 1] \in Nat
    BY <1>3, <2>3, <2>4
  <2>6. a[n] = a[n - 1] + g[n] /\ b[n] = b[n - 1] + h[n]
    BY <1>3, <2>3
  <2>7. ~(a[n] <= b[n])
    BY <2>2
  <2> QED BY <2>5, <2>6, <2>7
<1> QED BY <1>4, <1>5

-----------------------------------------------------------------------------
(* The rows of a file in order, and numbers as rounds and rests.           *)

Below(S, n) == {e \in S : e < n}

(* The members below one of a finite set are fewer than the set has.       *)
LEMMA BelowCount == ASSUME NEW S, S \subseteq Nat, IsFiniteSet(S), NEW n \in S
                    PROVE  /\ IsFiniteSet(Below(S, n)) /\ Cardinality(Below(S, n)) \in Nat
                           /\ Cardinality(Below(S, n)) + 1 <= Cardinality(S)
                           /\ Cardinality(S) \in Nat
<1>1. Below(S, n) \subseteq S \ {n}
  BY DEF Below
<1>2. IsFiniteSet(S \ {n}) /\ Cardinality(S \ {n}) = Cardinality(S) - 1
  BY FS_RemoveElement
<1>3. Cardinality(S) \in Nat
  BY FS_CardinalityType
<1>4. IsFiniteSet(Below(S, n)) /\ Cardinality(Below(S, n)) <= Cardinality(S \ {n})
  BY <1>1, <1>2, FS_Subset
<1>5. Cardinality(Below(S, n)) \in Nat
  BY <1>4, FS_CardinalityType
<1> QED BY <1>2, <1>3, <1>4, <1>5

(* Of two members, the larger has more below it.                           *)
LEMMA BelowGrows == ASSUME NEW S, S \subseteq Nat, IsFiniteSet(S), NEW n \in S, NEW m \in S, n < m
                    PROVE  Cardinality(Below(S, n)) < Cardinality(Below(S, m))
<1>1. Below(S, n) \cup {n} \subseteq Below(S, m) /\ n \notin Below(S, n)
  <2>1. \A e \in S : e \in Nat
    OBVIOUS
  <2>2. \A e \in S : e < n => e < m
    BY <2>1
  <2>3. ~(n < n)
    BY <2>1
  <2> QED BY <2>2, <2>3 DEF Below
<1>2. /\ IsFiniteSet(Below(S, n)) /\ Cardinality(Below(S, n)) \in Nat
      /\ IsFiniteSet(Below(S, m)) /\ Cardinality(Below(S, m)) \in Nat
  BY BelowCount
<1>3. Cardinality(Below(S, n) \cup {n}) = Cardinality(Below(S, n)) + 1
  BY <1>1, <1>2, FS_AddElement
<1>4. Cardinality(Below(S, n) \cup {n}) <= Cardinality(Below(S, m))
  BY <1>1, <1>2, FS_Subset
<1> QED BY <1>2, <1>3, <1>4

(* NthRow numbers the rows of a file from 1 on, each row once: the x-th    *)
(* has x - 1 rows below it.                                                *)
LEMMA RowsInOrder == ASSUME NEW S, S \subseteq Nat, IsFiniteSet(S)
                     PROVE  /\ Cardinality(S) \in Nat
                            /\ \A x \in 1..Cardinality(S) :
                                 NthRow(S, x) \in S /\ Cardinality(Below(S, NthRow(S, x))) = x - 1
                            /\ \A n \in S : /\ Cardinality(Below(S, n)) + 1 \in 1..Cardinality(S)
                                            /\ NthRow(S, Cardinality(Below(S, n)) + 1) = n
<1> DEFINE c == Cardinality(S)
           r(n) == Cardinality(Below(S, n)) + 1
           f == [n \in S |-> r(n)]
<1>1. c \in Nat
  BY FS_CardinalityType
<1>2. \A n \in S : r(n) \in 1..c /\ Cardinality(Below(S, n)) \in Nat
  <2> SUFFICES ASSUME NEW n \in S PROVE r(n) \in 1..c /\ Cardinality(Below(S, n)) \in Nat
    OBVIOUS
  <2>1. Cardinality(Below(S, n)) \in Nat /\ Cardinality(Below(S, n)) + 1 <= c
    BY BelowCount
  <2> QED BY <1>1, <2>1
<1>3. \A n, m \in S : r(n) = r(m) => n = m
  <2> SUFFICES ASSUME NEW n \in S, NEW m \in S, r(n) = r(m), n # m PROVE FALSE
    OBVIOUS
  <2>1. n < m \/ m < n
    OBVIOUS
  <2> DEFINE a == Cardinality(Below(S, n))  b == Cardinality(Below(S, m))
  <2>2. a \in Nat /\ b \in Nat /\ a + 1 = b + 1
    BY <1>2
  <2>3. n < m => a < b
    BY BelowGrows
  <2>4. m < n => b < a
    BY BelowGrows
  <2> HIDE DEF a, b
  <2> QED BY <2>1, <2>2, <2>3, <2>4
<1>4. f \in [S -> 1..c]
  <2> HIDE DEF r, c
  <2> QED BY <1>2
<1>5. f \in Injection(S, 1..c)
  <2>1. \A n, m \in S : f[n] = f[m] => n = m
    <3>1. \A n \in S : f[n] = r(n)
      OBVIOUS
    <3> HIDE DEF r, f
    <3> QED BY <1>3, <3>1
  <2> HIDE DEF f
  <2> QED BY <1>4, <2>1 DEF Injection, IsInjective
<1>6. IsFiniteSet(1..c) /\ Cardinality(1..c) = c
  BY <1>1, FS_Interval
<1>7. f \in Surjection(S, 1..c)
  <2> HIDE DEF f
  <2> QED BY <1>5, <1>6, FS_Injection
<1>8. ASSUME NEW x \in 1..c PROVE \E n \in S : r(n) = x
  <2> HIDE DEF r
  <2>1. \E n \in S : f[n] = x
    <3> HIDE DEF f
    <3> QED BY <1>7, <1>8 DEF Surjection
  <2> QED BY <2>1
<1>9. ASSUME NEW x \in 1..c
      PROVE NthRow(S, x) \in S /\ Cardinality(Below(S, NthRow(S, x))) = x - 1
  <2>1. \E n \in S : Cardinality(Below(S, n)) = x - 1
    BY <1>2, <1>8
  <2> QED BY <2>1 DEF NthRow, Below
<1>10. ASSUME NEW n \in S PROVE NthRow(S, r(n)) = n
  <2>1. r(n) \in 1..c
    BY <1>2
  <2>2. NthRow(S, r(n)) \in S /\ Cardinality(Below(S, NthRow(S, r(n)))) = r(n) - 1
    BY <1>9, <2>1
  <2> DEFINE m == NthRow(S, r(n))
  <2>3. m \in S /\ Cardinality(Below(S, m)) = r(n) - 1
    BY <2>2
  <2> HIDE DEF m
  <2>4. r(m) = r(n)
    BY <1>2, <2>3
  <2>5. m = n
    BY <1>3, <2>3, <2>4
  <2> QED BY <2>5 DEF m
<1> QED BY <1>1, <1>2, <1>9, <1>10

(* Division: full rounds of n and a rest. *)
LEMMA Rounds == ASSUME NEW n \in Nat \ {0}, NEW x \in Nat
                PROVE  /\ x % n \in 0..(n - 1)
                       /\ \E c \in 0..x : x = c * n + (x % n)
<1>1. x % n \in 0..(n - 1) /\ x = n * (x \div n) + (x % n)
  OBVIOUS
<1>2. x \div n \in 0..x
  OBVIOUS
<1> DEFINE c == x \div n
<1>3. c \in 0..x /\ x = n * c + (x % n) /\ n * c = c * n
  BY <1>1, <1>2
<1> HIDE DEF c
<1> QED BY <1>1, <1>3

(* A multiple is at least the number itself.                               *)
LEMMA TimesUp == \A a \in Int, n \in Nat : a >= 1 => a * n >= n
BY Z3

(* A number is written as full rounds and a rest in one way only.          *)
LEMMA RoundsOnce == ASSUME NEW n \in Nat \ {0}, NEW r \in 0..(n - 1), NEW s \in 0..(n - 1),
                           NEW c \in Int, NEW d \in Int, c * n + r = d * n + s
                    PROVE  r = s
<1>1. (c - d) * n = s - r
  OBVIOUS
<1>2. s - r < n /\ s - r > -n
  OBVIOUS
<1>3. ~(c - d >= 1)
  <2> SUFFICES ASSUME c - d >= 1 PROVE FALSE
    OBVIOUS
  <2>1. (c - d) * n >= n
    BY TimesUp
  <2> QED BY <1>1, <1>2, <2>1
<1>4. ~(c - d <= -1)
  <2> SUFFICES ASSUME c - d <= -1 PROVE FALSE
    OBVIOUS
  <2>1. (d - c) * n >= n
    BY TimesUp
  <2>2. (d - c) * n = -((c - d) * n)
    OBVIOUS
  <2> QED BY <1>1, <1>2, <2>1, <2>2
<1>5. c - d = 0
  BY <1>3, <1>4
<1> QED BY <1>1, <1>5

MissSet(llst, k, i) == {j \in 0..(k - 1) : llst[((i + j) % Len(llst)) + 1].slack < 0}

(* The misses of a window of k jobs are those of MissSet, from 0 to k.     *)
LEMMA WindowCount == ASSUME NEW llst, NEW k \in Nat, NEW i
                     PROVE  /\ MissesIn(KWindow(llst, k, i)) = Cardinality(MissSet(llst, k, i))
                            /\ IsFiniteSet(MissSet(llst, k, i))
                            /\ MissesIn(KWindow(llst, k, i)) \in 0..k
<1>1. MissesIn(KWindow(llst, k, i)) = Cardinality(MissSet(llst, k, i))
  <2> DEFINE w == KWindow(llst, k, i)
  <2>1. DOMAIN w = 0..(k - 1) /\ \A j \in 0..(k - 1) : w[j] = llst[((i + j) % Len(llst)) + 1]
    BY DEF KWindow
  <2> HIDE DEF w
  <2>2. {j \in DOMAIN w : w[j].slack < 0} = MissSet(llst, k, i)
    BY <2>1 DEF MissSet
  <2> QED BY <2>2 DEF MissesIn, w
<1>2. MissSet(llst, k, i) \subseteq 0..(k - 1)
  BY DEF MissSet
<1>3. IsFiniteSet(0..(k - 1)) /\ Cardinality(0..(k - 1)) = k
  BY FS_Interval
<1>4. IsFiniteSet(MissSet(llst, k, i)) /\ Cardinality(MissSet(llst, k, i)) <= k
  BY <1>2, <1>3, FS_Subset
<1>5. Cardinality(MissSet(llst, k, i)) \in Nat
  BY <1>4, FS_CardinalityType
<1> QED BY <1>1, <1>4, <1>5

(* What calculate_misses_k answers: the largest count of a window. *)
LEMMA Counted == ASSUME NEW llst, Len(llst) \in Nat, NEW k \in Nat
                 PROVE  /\ CalculateMissesK(llst, k) \in 0..k
                        /\ \A i \in 0..(Len(llst) - 1) :
                             MissesIn(KWindow(llst, k, i)) <= CalculateMissesK(llst, k)
                        /\ Len(llst) # 0 =>
                             \E i \in 0..(Len(llst) - 1) :
                               MissesIn(KWindow(llst, k, i)) = CalculateMissesK(llst, k)
<1> DEFINE Count(i) == MissesIn(KWindow(llst, k, i))
           starts == 0..(Len(llst) - 1)
           S == {0} \cup {Count(i) : i \in starts}
<1>1. \A i \in starts : Count(i) \in 0..k
  BY WindowCount
<1>2. CalculateMissesK(llst, k) = Max(S)
  BY DEF CalculateMissesK
<1> HIDE DEF Count
<1>3. S \subseteq Nat /\ \A x \in S : x <= k
  BY <1>1
<1>4. S # {} /\ 0 \in S
  OBVIOUS
<1>5. \A i \in starts : Count(i) \in S
  OBVIOUS
<1>6. \A x \in S : x = 0 \/ \E i \in starts : x = Count(i)
  OBVIOUS
<1> HIDE DEF S
<1>7. Max(S) \in S /\ \A x \in S : x <= Max(S)
  BY <1>3, <1>4, Largest
<1>8. Max(S) \in 0..k
  <2> DEFINE x == Max(S)
  <2>1. x \in S /\ x \in Nat /\ x <= k
    BY <1>3, <1>7
  <2> HIDE DEF x
  <2> QED BY <2>1 DEF x
<1>9. \A i \in starts : Count(i) <= Max(S)
  BY <1>5, <1>7
<1>10. Len(llst) # 0 => \E i \in starts : Count(i) = Max(S)
  <2> SUFFICES ASSUME Len(llst) # 0, Max(S) = 0 PROVE \E i \in starts : Count(i) = Max(S)
    BY <1>6, <1>7
  <2>1. 0 \in starts
    OBVIOUS
  <2>2. Count(0) \in 0..k /\ Count(0) <= 0
    BY <1>1, <1>9, <2>1
  <2> QED BY <2>1, <2>2
<1> QED BY <1>2, <1>8, <1>9, <1>10 DEF Count

-----------------------------------------------------------------------------
(* The rows of the two files: the same jobs, in order of their releases.   *)
JobRows == Seq([tskid : Tasks, rmin : Nat, cmax : Costs, dl : Deadlines])
RtaRows == Seq([tid : Tasks, wcct : Nat])

RowsInv ==
  /\ ip \in JobRows /\ rta \in RtaRows /\ Len(rta) = Len(ip)
  /\ \A n \in 1..Len(ip) : rta[n].tid = ip[n].tskid /\ ip[n].rmin = n - 1

(* The empty files satisfy RowsInv.                                        *)
LEMMA InitRows == Init => RowsInv
BY DEF Init, RowsInv, JobRows, RtaRows

(* RowsInv is inductive: a job is added to both files, and a later         *)
(* completion changes no task.                                             *)
LEMMA NextRows == RowsInv /\ [Next]_vars => RowsInv'
<1> SUFFICES ASSUME RowsInv, [Next]_vars PROVE RowsInv'
  OBVIOUS
<1>1. CASE AddJob
  <2>1. PICK i \in Tasks, c \in Costs, d \in Deadlines, w \in 1..MaxWcct :
          /\ ip' = Append(ip, [tskid |-> i, rmin |-> Len(ip), cmax |-> c, dl |-> d])
          /\ rta' = Append(rta, [tid |-> i, wcct |-> w])
    BY <1>1 DEF AddJob
  <2> DEFINE a == [tskid |-> i, rmin |-> Len(ip), cmax |-> c, dl |-> d]
             b == [tid |-> i, wcct |-> w]
             A == [tskid : Tasks, rmin : Nat, cmax : Costs, dl : Deadlines]
             B == [tid : Tasks, wcct : Nat]
  <2>2. ip \in Seq(A) /\ rta \in Seq(B) /\ Len(rta) = Len(ip) /\ Len(ip) \in Nat
    BY DEF RowsInv, JobRows, RtaRows
  <2>3. w \in Nat
    BY BoundsAssumption
  <2>4. a \in A /\ b \in B /\ a.tskid = i /\ a.rmin = Len(ip) /\ b.tid = i
    BY <2>2, <2>3
  <2>5. ip' = Append(ip, a) /\ rta' = Append(rta, b)
    BY <2>1
  <2> HIDE DEF a, b, A, B
  <2>6. /\ ip' \in Seq(A) /\ rta' \in Seq(B) /\ Len(rta') = Len(ip') /\ Len(ip') = Len(ip) + 1
        /\ \A n \in 1..Len(ip) : ip'[n] = ip[n] /\ rta'[n] = rta[n]
        /\ ip'[Len(ip) + 1] = a /\ rta'[Len(ip) + 1] = b
    BY <2>2, <2>4, <2>5
  <2>7. ASSUME NEW n \in 1..Len(ip') PROVE rta'[n].tid = ip'[n].tskid /\ ip'[n].rmin = n - 1
    <3>1. n \in 1..Len(ip) \/ n = Len(ip) + 1
      BY <2>2, <2>6
    <3>2. CASE n \in 1..Len(ip)
      BY <2>6, <3>2 DEF RowsInv
    <3>3. CASE n = Len(ip) + 1
      BY <2>2, <2>4, <2>6, <3>3
    <3> QED BY <3>1, <3>2, <3>3
  <2> QED BY <2>6, <2>7 DEF RowsInv, JobRows, RtaRows, A, B
<1>2. CASE Later
  <2>1. PICK n \in DOMAIN rta : rta' = [rta EXCEPT ![n].wcct = @ + 1] /\ UNCHANGED ip
    BY <1>2 DEF Later
  <2> DEFINE B == [tid : Tasks, wcct : Nat]
             b == [tid |-> rta[n].tid, wcct |-> rta[n].wcct + 1]
  <2>2. rta \in Seq(B) /\ Len(rta) = Len(ip)
    BY DEF RowsInv, RtaRows
  <2>3. rta[n] \in B
    <3> HIDE DEF B
    <3> QED BY <2>1, <2>2
  <2>4. b \in B /\ b.tid = rta[n].tid /\ rta' = [rta EXCEPT ![n] = b]
    <3> DEFINE r == rta[n]
    <3>1. r \in B
      BY <2>3
    <3> HIDE DEF r
    <3>2. r.tid \in Tasks /\ r.wcct \in Nat /\ r = [tid |-> r.tid, wcct |-> r.wcct]
      BY <3>1
    <3>3. b = [r EXCEPT !.wcct = @ + 1] /\ b \in B /\ b.tid = r.tid
      BY <3>2 DEF r
    <3>4. rta' = [rta EXCEPT ![n] = [r EXCEPT !.wcct = @ + 1]]
      BY <2>1 DEF r
    <3> HIDE DEF b
    <3> QED BY <3>3, <3>4 DEF r
  <2> HIDE DEF b, B
  <2>5. /\ rta' \in Seq(B) /\ Len(rta') = Len(rta) /\ DOMAIN rta = 1..Len(rta)
        /\ \A m \in DOMAIN rta : rta'[m] = IF m = n THEN b ELSE rta[m]
    BY <2>2, <2>4
  <2>6. \A m \in 1..Len(ip) : rta'[m].tid = rta[m].tid
    BY <2>2, <2>4, <2>5
  <2> QED BY <2>1, <2>2, <2>5, <2>6 DEF RowsInv, RtaRows, B
<1>3. CASE UNCHANGED vars
  BY <1>3 DEF vars, RowsInv
<1> QED BY <1>1, <1>2, <1>3 DEF Next

(* What RowsInv says of each row.                                          *)
LEMMA RowFacts == ASSUME RowsInv
                  PROVE  /\ Len(ip) \in Nat /\ DOMAIN ip = 1..Len(ip) /\ DOMAIN rta = 1..Len(ip)
                         /\ \A n \in 1..Len(ip) :
                              /\ ip[n].tskid \in Tasks /\ ip[n].rmin = n - 1
                              /\ ip[n].cmax \in Nat \ {0} /\ ip[n].cmax \in Costs
                              /\ ip[n].dl \in Nat
                              /\ rta[n].tid = ip[n].tskid /\ rta[n].wcct \in Nat
<1> DEFINE A == [tskid : Tasks, rmin : Nat, cmax : Costs, dl : Deadlines]
           B == [tid : Tasks, wcct : Nat]
<1>1. ip \in Seq(A) /\ rta \in Seq(B) /\ Len(rta) = Len(ip)
  BY DEF RowsInv, JobRows, RtaRows
<1>2. /\ Len(ip) \in Nat /\ DOMAIN ip = 1..Len(ip) /\ DOMAIN rta = 1..Len(ip)
      /\ \A n \in 1..Len(ip) : ip[n] \in A /\ rta[n] \in B
  <2> HIDE DEF A, B
  <2> QED BY <1>1
<1>3. \A n \in 1..Len(ip) :
        /\ ip[n].tskid \in Tasks /\ ip[n].cmax \in Costs /\ ip[n].dl \in Deadlines
        /\ rta[n].wcct \in Nat
  BY <1>2
<1> QED BY <1>2, <1>3, JobsAssumption DEF RowsInv

(* The rows of a task. *)
LEMMA JobsFacts == ASSUME RowsInv, NEW i
                   PROVE  /\ JobsOf(i) \subseteq Nat /\ IsFiniteSet(JobsOf(i))
                          /\ JobsOf(i) \subseteq 1..Len(ip)
                          /\ JobsOf(i) = {n \in DOMAIN rta : rta[n].tid = i}
                          /\ Cardinality(JobsOf(i)) \in Nat
<1>1. JobsOf(i) \subseteq 1..Len(ip) /\ JobsOf(i) = {n \in DOMAIN rta : rta[n].tid = i}
  BY RowFacts DEF JobsOf
<1>2. IsFiniteSet(1..Len(ip))
  BY RowFacts, FS_Interval
<1>3. IsFiniteSet(JobsOf(i))
  BY <1>1, <1>2, FS_Subset
<1>4. JobsOf(i) \subseteq Nat
  BY <1>1, RowFacts
<1> QED BY <1>1, <1>3, <1>4, FS_CardinalityType

(* The job list of a task: its rows in order, with their slacks.           *)
LEMMA LlstIs == ASSUME RowsInv, NEW i
                PROVE  /\ Len(LlstOf(i)) = Cardinality(JobsOf(i))
                       /\ DOMAIN LlstOf(i) = 1..Cardinality(JobsOf(i))
                       /\ \A x \in 1..Cardinality(JobsOf(i)) :
                            LET n == NthRow(JobsOf(i), x) IN
                            n \in JobsOf(i) /\ LlstOf(i)[x].slack = ip[n].dl - rta[n].wcct
<1> DEFINE J == JobsOf(i)  c == Cardinality(J)
<1>1. /\ J \subseteq Nat /\ IsFiniteSet(J) /\ J \subseteq 1..Len(ip) /\ c \in Nat
      /\ J = {n \in DOMAIN rta : rta[n].tid = i}
  BY JobsFacts
<1>2. LlstOf(i) = [x \in 1..c |-> CreateMk[NthRow(J, x)]]
  BY <1>1 DEF LlstOf
<1> HIDE DEF J, c
<1>3. DOMAIN LlstOf(i) = 1..c /\ Len(LlstOf(i)) = c
  <2> DEFINE G(x) == CreateMk[NthRow(J, x)]
  <2>1. LlstOf(i) = [x \in 1..c |-> G(x)]
    BY <1>2
  <2> HIDE DEF G
  <2> QED BY <1>1, <2>1
<1>4. ASSUME NEW x \in 1..c
      PROVE  /\ NthRow(J, x) \in J
             /\ LlstOf(i)[x].slack = ip[NthRow(J, x)].dl - rta[NthRow(J, x)].wcct
  <2>1. NthRow(J, x) \in J
    BY <1>1, RowsInOrder DEF c
  <2>2. NthRow(J, x) \in DOMAIN ip
    BY <1>1, <2>1, RowFacts
  <2> QED BY <1>2, <2>1, <2>2 DEF CreateMk
<1> QED BY <1>3, <1>4 DEF c, J

-----------------------------------------------------------------------------
(* The endless schedule.                                                   *)

(* The rest of a number written as full rounds and a rest.                 *)
LEMMA RoundIs == ASSUME NEW c \in Nat \ {0}, NEW a \in Nat, NEW d \in Int, NEW r \in 0..(c - 1),
                        a = d * c + r
                 PROVE  a % c = r
<1>1. PICK e \in 0..a : a = e * c + (a % c)
  BY Rounds
<1> DEFINE s == a % c
<1>2. s \in 0..(c - 1) /\ e * c + s = d * c + r
  BY <1>1, Rounds
<1> HIDE DEF s
<1>3. s = r
  BY <1>2, RoundsOnce
<1> QED BY <1>3 DEF s

(* Going j places on from a place of a round.                              *)
LEMMA RoundShift == ASSUME NEW c \in Nat \ {0}, NEW a \in Nat, NEW j \in Nat
                    PROVE  ((a % c) + j) % c = (a + j) % c
<1> DEFINE r == a % c
<1>1. r \in 0..(c - 1) /\ \E d \in 0..a : a = d * c + r
  BY Rounds
<1> HIDE DEF r
<1>2. PICK d \in 0..a : a = d * c + r
  BY <1>1
<1> DEFINE b == a + j  s == b % c
<1>3. s \in 0..(c - 1) /\ \E e \in 0..b : b = e * c + s
  <2>1. b \in Nat
    OBVIOUS
  <2> HIDE DEF b
  <2> QED BY <2>1, Rounds
<1>4. PICK e \in 0..b : b = e * c + s
  BY <1>3
<1> HIDE DEF s
<1>5. r + j = (e - d) * c + s
  <2>1. r + j = (e * c + s) - d * c
    BY <1>1, <1>2, <1>4, <1>3
  <2>2. (e - d) * c = e * c - d * c
    OBVIOUS
  <2>3. e * c \in Int /\ d * c \in Int /\ s \in Int
    BY <1>3
  <2> QED BY <2>1, <2>2, <2>3
<1>6. r + j \in Nat /\ e - d \in Int
  BY <1>1
<1>7. (r + j) % c = s
  BY <1>3, <1>5, <1>6, RoundIs
<1> QED BY <1>7 DEF s, r

(* The p-th job of the endless schedule, by its place in its round.        *)
LEMMA JobAtIs == ASSUME RowsInv, NEW i, JobsOf(i) # {}, NEW p \in Nat \ {0}
                 PROVE  JobAt(i, p) = NthRow(JobsOf(i), ((p - 1) % Cardinality(JobsOf(i))) + 1)
<1> DEFINE c == Cardinality(JobsOf(i))
<1>1. c \in Nat \ {0}
  BY JobsFacts, FS_EmptySet
<1> DEFINE D == {x \in 1..c : \E d \in 0..p : p = d * c + x}
           r == (p - 1) % c
<1>2. JobAt(i, p) = NthRow(JobsOf(i), CHOOSE x \in 1..c : \E d \in 0..p : p = d * c + x)
  BY DEF JobAt
<1> HIDE DEF c
<1>3. r \in 0..(c - 1) /\ \E d \in 0..(p - 1) : p - 1 = d * c + r
  <2>1. p - 1 \in Nat
    OBVIOUS
  <2> QED BY <1>1, <2>1, Rounds
<1> HIDE DEF r
<1>4. PICK d \in 0..(p - 1) : p - 1 = d * c + r
  BY <1>3
<1>5. r + 1 \in 1..c /\ d \in 0..p /\ p = d * c + (r + 1)
  <2>1. d * c \in Int
    BY <1>1
  <2> QED BY <1>1, <1>3, <1>4, <2>1
<1>6. ASSUME NEW x \in 1..c, NEW e \in 0..p, p = e * c + x PROVE x = r + 1
  <2>1. x - 1 \in 0..(c - 1)
    BY <1>1
  <2>2. e * c + (x - 1) = d * c + r
    <3>1. d * c \in Int /\ e * c \in Int
      BY <1>1
    <3> QED BY <1>3, <1>4, <1>6, <3>1
  <2>3. x - 1 = r
    BY <1>1, <1>3, <2>1, <2>2, RoundsOnce
  <2> QED BY <1>3, <2>3
<1>7. (CHOOSE x \in 1..c : \E e \in 0..p : p = e * c + x) = r + 1
  BY <1>5, <1>6
<1> QED BY <1>2, <1>7 DEF c, r

(* A window of the endless schedule has as many misses as the window of    *)
(* k_window at the same place of a round.                                  *)
LEMMA LateFromIs == ASSUME RowsInv, NEW i \in Tasks, JobsOf(i) # {}, NEW p \in Nat \ {0}
                    PROVE  LateFrom(i, p) =
                             MissesIn(KWindow(LlstOf(i), Klist[i],
                                              (p - 1) % Cardinality(JobsOf(i))))
<1> DEFINE c == Cardinality(JobsOf(i))  k == Klist[i]  r == (p - 1) % c
           M == MissSet(LlstOf(i), k, r)
           L == {q \in p..(p + k - 1) : rta[JobAt(i, q)].wcct > ip[JobAt(i, q)].dl}
<1>1. c \in Nat \ {0} /\ k \in Nat \ {0} /\ Len(LlstOf(i)) = c
  BY JobsFacts, FS_EmptySet, LlstIs, KlistAssumption DEF Tasks
<1>2. ASSUME NEW j \in 0..(k - 1)
      PROVE  LlstOf(i)[((r + j) % c) + 1].slack < 0 <=>
               rta[JobAt(i, p + j)].wcct > ip[JobAt(i, p + j)].dl
  <2>1. p + j \in Nat \ {0} /\ (p + j) - 1 = (p - 1) + j /\ p - 1 \in Nat /\ j \in Nat
    BY <1>1
  <2>2. (r + j) % c = ((p + j) - 1) % c
    <3> DEFINE a == p - 1
    <3>1. a \in Nat /\ (p + j) - 1 = a + j
      BY <2>1
    <3>2. r = a % c
      OBVIOUS
    <3> HIDE DEF a, c, r
    <3>3. ((a % c) + j) % c = (a + j) % c
      BY <1>1, <2>1, <3>1, RoundShift
    <3> QED BY <3>1, <3>2, <3>3
  <2> DEFINE x == (((p + j) - 1) % c) + 1
  <2>3. JobAt(i, p + j) = NthRow(JobsOf(i), x)
    BY <2>1, JobAtIs
  <2>4. x \in 1..c
    <3> DEFINE s == ((p + j) - 1) % c
    <3>1. s \in 0..(c - 1)
      <4>1. (p + j) - 1 \in Nat
        BY <2>1
      <4> HIDE DEF c
      <4> QED BY <1>1, <4>1, Rounds
    <3> HIDE DEF s, c
    <3>2. s + 1 \in 1..c
      BY <1>1, <3>1
    <3> QED BY <3>2 DEF s
  <2>5. ((r + j) % c) + 1 = x
    BY <2>2
  <2> HIDE DEF x, r, c
  <2> DEFINE n == NthRow(JobsOf(i), x)
  <2>6. n \in JobsOf(i) /\ LlstOf(i)[x].slack = ip[n].dl - rta[n].wcct
    BY <2>4, LlstIs DEF c
  <2>7. ip[n].dl \in Nat /\ rta[n].wcct \in Nat
    BY <2>6, JobsFacts, RowFacts
  <2> HIDE DEF n
  <2>8. LlstOf(i)[x].slack < 0 <=> rta[n].wcct > ip[n].dl
    BY <2>6, <2>7
  <2> QED BY <2>3, <2>5, <2>8 DEF n
<1>3. MissesIn(KWindow(LlstOf(i), k, r)) = Cardinality(M) /\ IsFiniteSet(M)
  <2> HIDE DEF r
  <2> QED BY <1>1, WindowCount
<1>4. LateFrom(i, p) = Cardinality(L)
  BY DEF LateFrom
<1>5. \A j \in 0..(k - 1) : j \in M <=> p + j \in L
  <2> SUFFICES ASSUME NEW j \in 0..(k - 1) PROVE j \in M <=> p + j \in L
    OBVIOUS
  <2>1. j \in M <=> LlstOf(i)[((r + j) % c) + 1].slack < 0
    BY <1>1 DEF MissSet
  <2>2. p + j \in p..(p + k - 1)
    BY <1>1
  <2>3. p + j \in L <=> rta[JobAt(i, p + j)].wcct > ip[JobAt(i, p + j)].dl
    BY <2>2
  <2> HIDE DEF M, L, r, c
  <2> QED BY <1>2, <2>1, <2>3
<1>6. M \subseteq 0..(k - 1) /\ L \subseteq p..(p + k - 1)
  BY DEF MissSet
<1> HIDE DEF M, L, r, c, k
<1> DEFINE f == [j \in M |-> p + j]
<1>7. f \in Bijection(M, L)
  <2>1. f \in [M -> L]
    BY <1>5, <1>6
  <2>2. \A a, b \in M : f[a] = f[b] => a = b
    BY <1>1, <1>6
  <2>3. \A q \in L : \E j \in M : f[j] = q
    <3> SUFFICES ASSUME NEW q \in L PROVE \E j \in M : f[j] = q
      OBVIOUS
    <3>1. q - p \in 0..(k - 1) /\ p + (q - p) = q
      BY <1>1, <1>6
    <3>2. q - p \in M
      BY <1>5, <3>1
    <3> QED BY <3>1, <3>2
  <2> HIDE DEF f
  <2> QED BY <2>1, <2>2, <2>3 DEF Bijection, Injection, Surjection, IsInjective
<1>8. ExistsBijection(M, L)
  BY <1>7 DEF ExistsBijection
<1>9. Cardinality(L) = Cardinality(M)
  BY <1>3, <1>8, FS_Bijection
<1> QED BY <1>3, <1>4, <1>9 DEF c, k, r

(* For every window of the endless schedule, not only those of two rounds. *)
WorstForEver ==
  \A i \in Tasks : JobsOf(i) # {} =>
    /\ \A p \in Nat \ {0} : LateFrom(i, p) <= SmallM[i]
    /\ \E p \in 1..Cardinality(JobsOf(i)) : LateFrom(i, p) = SmallM[i]

(* m is the worst window of the schedule repeated for ever: windows of the *)
(* endless schedule are those of k_window, and Counted says that           *)
(* calculate_misses_k answers the largest of them.                         *)
LEMMA WorstIs == RowsInv => WorstForEver
<1> SUFFICES ASSUME RowsInv, NEW i \in Tasks, JobsOf(i) # {}
             PROVE  /\ \A p \in Nat \ {0} : LateFrom(i, p) <= SmallM[i]
                    /\ \E p \in 1..Cardinality(JobsOf(i)) : LateFrom(i, p) = SmallM[i]
  BY DEF WorstForEver
<1> DEFINE c == Cardinality(JobsOf(i))  k == Klist[i]  l == LlstOf(i)
<1>1. c \in Nat \ {0} /\ k \in Nat /\ Len(l) = c /\ SmallM[i] = CalculateMissesK(l, k)
  BY JobsFacts, FS_EmptySet, LlstIs, KlistAssumption DEF Tasks, SmallM
<1>2. ASSUME NEW p \in Nat \ {0} PROVE LateFrom(i, p) <= SmallM[i]
  <2> DEFINE r == (p - 1) % c
  <2>1. r \in 0..(c - 1)
    <3>1. p - 1 \in Nat
      OBVIOUS
    <3> HIDE DEF c
    <3> QED BY <1>1, <3>1, Rounds
  <2>2. LateFrom(i, p) = MissesIn(KWindow(l, k, r))
    BY LateFromIs
  <2> HIDE DEF r, l, k, c
  <2> QED BY <1>1, <2>1, <2>2, Counted
<1>3. \E p \in 1..c : LateFrom(i, p) = SmallM[i]
  <2>1. PICK s \in 0..(c - 1) : MissesIn(KWindow(l, k, s)) = SmallM[i]
    <3> HIDE DEF l, k, c
    <3> QED BY <1>1, Counted
  <2>2. s + 1 \in Nat \ {0} /\ s + 1 \in 1..c /\ (s + 1) - 1 = s
    BY <1>1
  <2>3. s % c = s
    <3> HIDE DEF c
    <3> QED BY <1>1, RoundIs
  <2>4. LateFrom(i, s + 1) = MissesIn(KWindow(l, k, ((s + 1) - 1) % c))
    BY <2>2, LateFromIs
  <2> HIDE DEF l, k, c
  <2> QED BY <2>1, <2>2, <2>3, <2>4
<1> QED BY <1>2, <1>3

(* The two files hold the same jobs in every state.                        *)
LEMMA RowsKept == Spec => []RowsInv
BY InitRows, NextRows, PTL DEF Spec

(* In particular among the windows that begin in the first two rounds.     *)
LEMMA WorstOfTwoRounds == RowsInv => WorstWindow
<1> SUFFICES ASSUME RowsInv, NEW i \in Tasks, 1..(2 * Cardinality(JobsOf(i))) # {}
             PROVE  /\ \A p \in 1..(2 * Cardinality(JobsOf(i))) : LateFrom(i, p) <= SmallM[i]
                    /\ \E p \in 1..(2 * Cardinality(JobsOf(i))) : LateFrom(i, p) = SmallM[i]
  BY DEF WorstWindow
<1> DEFINE c == Cardinality(JobsOf(i))
<1>1. c \in Nat /\ 1..(2 * c) # {}
  BY JobsFacts
<1>2. c # 0
  BY <1>1
<1>3. JobsOf(i) # {}
  BY <1>2, FS_EmptySet
<1>4. /\ \A p \in Nat \ {0} : LateFrom(i, p) <= SmallM[i]
      /\ \E p \in 1..c : LateFrom(i, p) = SmallM[i]
  BY <1>3, WorstIs DEF WorstForEver
<1> HIDE DEF c
<1>5. 1..(2 * c) \subseteq Nat \ {0} /\ 1..c \subseteq 1..(2 * c)
  BY <1>1
<1> QED BY <1>4, <1>5 DEF c

(* m of each task is the worst window of k consecutive jobs among those    *)
(* that begin in two rounds of the schedule (create_mk_analysis_csv,       *)
(* k_window and calculate_misses_k).                                       *)
THEOREM CountIsWorst == Spec => []WorstWindow
BY RowsKept, WorstOfTwoRounds, PTL

(* The same of every window of the schedule repeated for ever: that        *)
(* k_window looks at one round of starts, and reads the list as a circle,  *)
(* loses nothing.                                                          *)
THEOREM CountIsWorstForEver == Spec => []WorstForEver
BY RowsKept, WorstIs, PTL

-----------------------------------------------------------------------------
(* A list with slacks at most as large is counted at least as high. *)
LEMMA LaterMissesMore ==
  ASSUME NEW l, NEW m, NEW c \in Nat, Len(l) = c, Len(m) = c, NEW k \in Nat,
         \A x \in 1..c : l[x].slack \in Int /\ m[x].slack \in Int /\ m[x].slack <= l[x].slack
  PROVE  CalculateMissesK(l, k) <= CalculateMissesK(m, k)
<1>1. /\ CalculateMissesK(l, k) \in 0..k /\ CalculateMissesK(m, k) \in 0..k
      /\ Len(l) # 0 => \E i \in 0..(Len(l) - 1) :
                         MissesIn(KWindow(l, k, i)) = CalculateMissesK(l, k)
      /\ \A i \in 0..(Len(m) - 1) : MissesIn(KWindow(m, k, i)) <= CalculateMissesK(m, k)
  BY Counted
<1>2. CASE c = 0
  <2>1. CalculateMissesK(l, k) = CalculateMissesK(m, k)
    <3>1. 0..(Len(l) - 1) = {} /\ 0..(Len(m) - 1) = {}
      BY <1>2
    <3>2. CalculateMissesK(l, k) = Max({0}) /\ CalculateMissesK(m, k) = Max({0})
      BY <3>1 DEF CalculateMissesK
    <3> QED BY <3>2
  <2> QED BY <1>1, <2>1
<1>3. CASE c # 0
  <2>1. PICK i \in 0..(c - 1) : MissesIn(KWindow(l, k, i)) = CalculateMissesK(l, k)
    BY <1>1, <1>3
  <2>2. MissesIn(KWindow(m, k, i)) <= CalculateMissesK(m, k)
    BY <1>1
  <2>3. MissSet(l, k, i) \subseteq MissSet(m, k, i)
    <3> SUFFICES ASSUME NEW j \in 0..(k - 1), l[((i + j) % c) + 1].slack < 0
                 PROVE  m[((i + j) % c) + 1].slack < 0
      BY DEF MissSet
    <3> DEFINE r == (i + j) % c
    <3>1. i + j \in Nat
      OBVIOUS
    <3>2. r \in 0..(c - 1)
      BY <1>3, <3>1, Rounds
    <3> HIDE DEF r
    <3>3. r + 1 \in 1..c
      BY <3>2
    <3>4. l[r + 1].slack < 0
      BY DEF r
    <3>5. m[r + 1].slack < 0
      BY <3>3, <3>4
    <3> QED BY <3>5 DEF r
  <2> DEFINE L == MissSet(l, k, i)  M == MissSet(m, k, i)
  <2>4. /\ IsFiniteSet(L) /\ MissesIn(KWindow(l, k, i)) = Cardinality(L)
        /\ IsFiniteSet(M) /\ MissesIn(KWindow(m, k, i)) = Cardinality(M)
    BY WindowCount
  <2>5. L \subseteq M
    BY <2>3
  <2> HIDE DEF L, M
  <2>6. Cardinality(L) <= Cardinality(M)
    BY <2>4, <2>5, FS_Subset
  <2> DEFINE a == Cardinality(L)  b == Cardinality(M)
  <2>7. a \in Nat /\ b \in Nat /\ a <= b
    BY <2>4, <2>6, FS_CardinalityType
  <2>8. CalculateMissesK(l, k) = a /\ b <= CalculateMissesK(m, k)
    BY <2>1, <2>2, <2>4
  <2> HIDE DEF a, b
  <2> QED BY <1>1, <2>7, <2>8
<1> QED BY <1>2, <1>3

(* The counts of a state, in the form the two states of a step share. *)
Counts ==
  /\ CalculateMissesForEachTask = SumTo(SmallM, NumTask)
  /\ SmallM \in [1..NumTask -> Nat]
  /\ \A i \in Tasks :
       /\ SmallM[i] = CalculateMissesK(LlstOf(i), Klist[i])
       /\ Len(LlstOf(i)) = Cardinality(JobsOf(i))
       /\ \A x \in 1..Cardinality(JobsOf(i)) :
            LlstOf(i)[x].slack =
              ip[NthRow(JobsOf(i), x)].dl - rta[NthRow(JobsOf(i), x)].wcct

(* Counts holds in every state.                                            *)
LEMMA CountsHold == RowsInv => Counts
<1> SUFFICES ASSUME RowsInv PROVE Counts
  OBVIOUS
<1>1. CalculateMissesForEachTask = SumTo(SmallM, NumTask)
  BY DEF CalculateMissesForEachTask, SumTo
<1>2. \A i \in Tasks : /\ SmallM[i] = CalculateMissesK(LlstOf(i), Klist[i])
                       /\ Len(LlstOf(i)) = Cardinality(JobsOf(i))
                       /\ Klist[i] \in Nat /\ Cardinality(JobsOf(i)) \in Nat
  BY LlstIs, JobsFacts, KlistAssumption DEF SmallM, Tasks
<1>3. \A i \in Tasks : SmallM[i] \in Nat
  <2> SUFFICES ASSUME NEW i \in Tasks PROVE SmallM[i] \in Nat
    OBVIOUS
  <2> DEFINE l == LlstOf(i)  k == Klist[i]
  <2>1. Len(l) \in Nat /\ k \in Nat /\ SmallM[i] = CalculateMissesK(l, k)
    BY <1>2
  <2> HIDE DEF l, k
  <2>2. CalculateMissesK(l, k) \in 0..k
    BY <2>1, Counted
  <2> QED BY <2>1, <2>2
<1>4. SmallM \in [1..NumTask -> Nat]
  <2>1. SmallM = [i \in 1..NumTask |-> SmallM[i]]
    BY DEF SmallM, Tasks
  <2> QED BY <1>3, <2>1 DEF Tasks
<1>5. ASSUME NEW i \in Tasks, NEW x \in 1..Cardinality(JobsOf(i))
      PROVE  LlstOf(i)[x].slack =
               ip[NthRow(JobsOf(i), x)].dl - rta[NthRow(JobsOf(i), x)].wcct
  BY LlstIs
<1> QED BY <1>1, <1>2, <1>4, <1>5 DEF Counts

(* A step that adds no job never lowers the count: completion times only   *)
(* grow, so no slack of a job list does.                                   *)
LEMMA StepSustains == RowsInv /\ RowsInv' /\ [Next]_vars /\ ip' = ip
                        => CalculateMissesForEachTask <= CalculateMissesForEachTask'
<1> SUFFICES ASSUME RowsInv, RowsInv', [Next]_vars, ip' = ip
             PROVE  CalculateMissesForEachTask <= CalculateMissesForEachTask'
  OBVIOUS
<1>1. Counts
  BY CountsHold
<1>2. Counts'
  BY CountsHold, PTL
<1>3. /\ Len(ip) \in Nat /\ DOMAIN ip = 1..Len(ip) /\ DOMAIN rta = 1..Len(ip)
      /\ \A n \in 1..Len(ip) : ip[n].dl \in Nat /\ rta[n].wcct \in Nat
  BY RowFacts
<1>4. \A n \in 1..Len(ip) : rta'[n].wcct \in Nat /\ rta'[n].wcct >= rta[n].wcct
  <2>1. CASE AddJob
    <3>1. PICK a : ip' = Append(ip, a)
      BY <2>1 DEF AddJob
    <3>2. ip \in Seq([tskid : Tasks, rmin : Nat, cmax : Costs, dl : Deadlines])
      BY DEF RowsInv, JobRows
    <3> DEFINE A == [tskid : Tasks, rmin : Nat, cmax : Costs, dl : Deadlines]
    <3> HIDE DEF A
    <3>3. Len(ip') = Len(ip) + 1
      BY <3>1, <3>2
    <3> QED BY <1>3, <3>3
  <2>2. CASE Later
    <3>1. PICK m \in DOMAIN rta : rta' = [rta EXCEPT ![m].wcct = @ + 1]
      BY <2>2 DEF Later
    <3> SUFFICES ASSUME NEW n \in 1..Len(ip)
                 PROVE  rta'[n].wcct \in Nat /\ rta'[n].wcct >= rta[n].wcct
      OBVIOUS
    <3>2. CASE n = m
      <4>1. rta'[n] = [rta[n] EXCEPT !.wcct = @ + 1]
        BY <1>3, <3>1, <3>2
      <4>2. rta[n] \in [tid : Tasks, wcct : Nat]
        <5> DEFINE B == [tid : Tasks, wcct : Nat]
        <5>1. rta \in Seq(B) /\ n \in DOMAIN rta
          BY <1>3 DEF RowsInv, RtaRows
        <5> HIDE DEF B
        <5>2. rta[n] \in B
          BY <5>1
        <5> QED BY <5>2 DEF B
      <4> DEFINE r == rta[n]
      <4> HIDE DEF r
      <4>3. r \in [tid : Tasks, wcct : Nat] /\ rta'[n] = [r EXCEPT !.wcct = @ + 1]
        BY <4>1, <4>2 DEF r
      <4>4. rta'[n].wcct = r.wcct + 1
        BY <4>3
      <4> QED BY <1>3, <4>4 DEF r
    <3>3. CASE n # m
      BY <1>3, <3>1, <3>3
    <3> QED BY <3>2, <3>3
  <2>3. CASE UNCHANGED vars
    BY <1>3, <2>3 DEF vars
  <2> QED BY <2>1, <2>2, <2>3 DEF Next
<1>5. ASSUME NEW i \in Tasks PROVE SmallM[i] <= SmallM'[i]
  <2> DEFINE J == JobsOf(i)  c == Cardinality(J)  k == Klist[i]
             l == LlstOf(i)  m == LlstOf(i)'
  <2>1. JobsOf(i)' = J
    BY DEF JobsOf
  <2>2. J \subseteq Nat /\ IsFiniteSet(J) /\ J \subseteq 1..Len(ip) /\ c \in Nat /\ k \in Nat
    BY JobsFacts, KlistAssumption DEF Tasks
  <2>3. /\ SmallM[i] = CalculateMissesK(l, k) /\ Len(l) = c
        /\ \A x \in 1..c : l[x].slack = ip[NthRow(J, x)].dl - rta[NthRow(J, x)].wcct
    BY <1>1 DEF Counts
  <2>4. /\ SmallM'[i] = CalculateMissesK(m, k) /\ Len(m) = c
        /\ \A x \in 1..c : m[x].slack = ip[NthRow(J, x)].dl - rta'[NthRow(J, x)].wcct
    BY <1>2, <2>1 DEF Counts
  <2> HIDE DEF l, m, k
  <2>5. ASSUME NEW x \in 1..c
        PROVE  l[x].slack \in Int /\ m[x].slack \in Int /\ m[x].slack <= l[x].slack
    <3> DEFINE n == NthRow(J, x)
    <3> HIDE DEF J
    <3>1. n \in J
      BY <2>2, RowsInOrder
    <3>2. n \in 1..Len(ip)
      BY <2>2, <3>1
    <3>3. /\ ip[n].dl \in Nat /\ rta[n].wcct \in Nat /\ rta'[n].wcct \in Nat
          /\ rta'[n].wcct >= rta[n].wcct
      BY <1>3, <1>4, <3>2
    <3>4. l[x].slack = ip[n].dl - rta[n].wcct /\ m[x].slack = ip[n].dl - rta'[n].wcct
      BY <2>3, <2>4
    <3> HIDE DEF n
    <3> QED BY <3>3, <3>4
  <2> HIDE DEF c
  <2>6. CalculateMissesK(l, k) <= CalculateMissesK(m, k)
    BY <2>2, <2>3, <2>4, <2>5, LaterMissesMore
  <2> QED BY <2>3, <2>4, <2>6
<1> DEFINE g == SmallM  h == SmallM'
<1>6. /\ g \in [1..NumTask -> Nat] /\ CalculateMissesForEachTask = SumTo(g, NumTask)
      /\ h \in [1..NumTask -> Nat]
  BY <1>1, <1>2 DEF Counts
<1>7. CalculateMissesForEachTask' = SumTo(h, NumTask)
  BY <1>2 DEF Counts, SumTo
<1>8. \A i \in 1..NumTask : g[i] <= h[i]
  BY <1>5 DEF Tasks
<1> HIDE DEF g, h
<1>9. SumTo(g, NumTask) <= SumTo(h, NumTask)
  BY <1>6, <1>8, SumMonotone, NumTaskAssumption
<1> QED BY <1>6, <1>7, <1>9

(* Jobs that complete later never have a smaller total of misses: the      *)
(* arrays of main that are sized by the count at delta_sup.                *)
THEOREM CountAlwaysSustainable == Spec => CountSustainable
<1>1. RowsInv /\ RowsInv' /\ [Next]_vars
        => [ip' = ip => CalculateMissesForEachTask <= CalculateMissesForEachTask']_vars
  BY StepSustains
<1> QED BY <1>1, RowsKept, PTL DEF Spec, CountSustainable

-----------------------------------------------------------------------------
(* The verdict on hard deadlines.                                          *)

(* A list without a negative slack is counted 0.                           *)
LEMMA NoneLateNone ==
  ASSUME NEW l, NEW c \in Nat, Len(l) = c, NEW k \in Nat,
         \A x \in 1..c : l[x].slack \in Int /\ l[x].slack >= 0
  PROVE  CalculateMissesK(l, k) = 0
<1>1. CASE c = 0
  <2>1. 0..(Len(l) - 1) = {}
    BY <1>1
  <2>2. CalculateMissesK(l, k) = Max({0})
    BY <2>1 DEF CalculateMissesK
  <2>3. {0} \subseteq Nat /\ {0} # {} /\ \A x \in {0} : x <= 0
    OBVIOUS
  <2>4. Max({0}) \in {0}
    BY <2>3, Largest
  <2> QED BY <2>2, <2>4
<1>2. CASE c # 0
  <2>1. PICK i \in 0..(c - 1) : MissesIn(KWindow(l, k, i)) = CalculateMissesK(l, k)
    BY <1>2, Counted
  <2>2. ASSUME NEW j \in 0..(k - 1) PROVE ~(l[((i + j) % c) + 1].slack < 0)
    <3> DEFINE r == (i + j) % c
    <3>1. i + j \in Nat
      OBVIOUS
    <3>2. r \in 0..(c - 1)
      BY <1>2, <3>1, Rounds
    <3> HIDE DEF r
    <3>3. r + 1 \in 1..c
      BY <3>2
    <3>4. ~(l[r + 1].slack < 0)
      BY <3>3
    <3> QED BY <3>4 DEF r
  <2>3. MissSet(l, k, i) = {}
    BY <2>2 DEF MissSet
  <2>4. MissesIn(KWindow(l, k, i)) = 0
    BY <2>3, WindowCount, FS_EmptySet
  <2> QED BY <2>1, <2>4
<1> QED BY <1>1, <1>2

(* A job id of 0 is always looked at, a job with the number of the         *)
(* fragment is, and with a fragment of number 0 every job is.              *)
LEMMA Divides == /\ \A h \in Nat : FindJobId(0, h) = 0
                 /\ \A h \in Nat : FindJobId(h, h) = 0
                 /\ \A m \in Nat : FindJobId(m, 0) = 0
<1>1. ASSUME NEW m \in Nat \ {0}, NEW a \in Nat, NEW d \in Int, a = d * m PROVE a % m = 0
  <2>1. 0 \in 0..(m - 1) /\ a = d * m + 0
    <3>1. d * m \in Int
      OBVIOUS
    <3> QED BY <1>1, <3>1
  <2> QED BY <2>1, RoundIs
<1>2. ASSUME NEW m \in Nat \ {0} PROVE m % m = 0 /\ 0 % m = 0
  <2>1. m = 1 * m /\ 0 = 0 * m /\ 1 \in Int /\ 0 \in Int /\ 0 \in Nat
    OBVIOUS
  <2>2. m % m = 0
    BY <1>1, <2>1
  <2>3. 0 % m = 0
    BY <1>1, <2>1
  <2> QED BY <2>2, <2>3
<1> QED BY <1>2 DEF FindJobId

(* What a positive verdict says of the jobs it looked at.                  *)
LEMMA VerdictKeeps == RowsInv => HardKept
<1> SUFFICES ASSUME RowsInv, NEW tl \in JobKinds, Verdict(tl),
                    NEW h \in MakeHtpList(MakeTaskIdList(tl))
             PROVE  /\ \A n \in DOMAIN ip : ip[n].tskid = h.id /\ JobId(n) \in {0, h.jid}
                                              => rta[n].wcct <= ip[n].dl
                    /\ h.jid = 0 /\ h.id \in Tasks => SmallM[h.id] = 0
  BY DEF HardKept
<1>1. h.jid \in Nat
  <2> DEFINE E == [fid : Nat, fkind : {"hdelay", "fdelay", "sdelay"}]
  <2>1. tl \in Seq(E)
    BY JobKindsAssumption
  <2>2. PICK x \in DOMAIN tl : h = [id |-> Len(tl) + 1 - x, jid |-> tl[x].fid, knd |-> tl[x].fkind]
    BY DEF MakeHtpList, MakeTaskIdList
  <2> HIDE DEF E
  <2>3. tl[x] \in E
    BY <2>1
  <2>4. h.jid = tl[x].fid
    BY <2>2
  <2> QED BY <2>3, <2>4 DEF E
<1>2. DOMAIN ip = 1..Len(ip) /\ Len(ip) \in Nat
      /\ \A n \in 1..Len(ip) : /\ rta[n].tid = ip[n].tskid
                               /\ ip[n].dl \in Nat /\ rta[n].wcct \in Nat
  BY RowFacts
<1>3. ASSUME NEW n \in 1..Len(ip) PROVE JobId(n) \in Nat
  <2> DEFINE S == {e \in DOMAIN ip : e < n /\ ip[e].tskid = ip[n].tskid}
  <2>1. S \subseteq 1..Len(ip) /\ IsFiniteSet(1..Len(ip))
    BY <1>2, FS_Interval
  <2> HIDE DEF S
  <2>2. IsFiniteSet(S)
    BY <2>1, FS_Subset
  <2>3. Cardinality(S) \in Nat
    BY <2>2, FS_CardinalityType
  <2> QED BY <2>3 DEF JobId, S
<1>4. ASSUME NEW n \in 1..Len(ip), ip[n].tskid = h.id, FindJobId(JobId(n), h.jid) = 0
      PROVE  rta[n].wcct < ip[n].dl
  <2> DEFINE L == CreateMkList
  <2>1. CheckList(MakeHtpList(MakeTaskIdList(tl)), L)
    BY DEF Verdict
  <2>2. n \in DOMAIN L /\ L[n].tid = rta[n].tid /\ L[n].jid = JobId(n)
        /\ L[n].misses = ip[n].dl - rta[n].wcct
    BY <1>2 DEF CreateMkList
  <2> HIDE DEF L
  <2>3. L[n].misses > 0
    BY <1>2, <1>4, <2>1, <2>2 DEF CheckList
  <2> QED BY <1>2, <2>2, <2>3
<1>5. ASSUME NEW n \in DOMAIN ip, ip[n].tskid = h.id, JobId(n) \in {0, h.jid}
      PROVE  rta[n].wcct <= ip[n].dl
  <2>1. FindJobId(JobId(n), h.jid) = 0
    BY <1>1, <1>5, Divides
  <2> QED BY <1>2, <1>4, <1>5, <2>1
<1>6. ASSUME h.jid = 0, h.id \in Tasks PROVE SmallM[h.id] = 0
  <2> DEFINE i == h.id  c == Cardinality(JobsOf(i))  l == LlstOf(i)  k == Klist[i]
  <2>1. c \in Nat /\ Len(l) = c /\ k \in Nat /\ SmallM[i] = CalculateMissesK(l, k)
    BY <1>6, JobsFacts, LlstIs, KlistAssumption DEF Tasks, SmallM
  <2>2. ASSUME NEW x \in 1..c PROVE l[x].slack \in Int /\ l[x].slack >= 0
    <3> DEFINE n == NthRow(JobsOf(i), x)
    <3>1. n \in JobsOf(i) /\ l[x].slack = ip[n].dl - rta[n].wcct
      BY LlstIs
    <3> HIDE DEF n
    <3>2. n \in 1..Len(ip) /\ ip[n].tskid = h.id
      BY <1>2, <3>1 DEF JobsOf
    <3>3. FindJobId(JobId(n), h.jid) = 0
      BY <1>3, <1>6, <3>2, Divides
    <3>4. rta[n].wcct < ip[n].dl /\ ip[n].dl \in Nat /\ rta[n].wcct \in Nat
      BY <1>2, <1>4, <3>2, <3>3
    <3> HIDE DEF l
    <3> QED BY <3>1, <3>4
  <2> HIDE DEF i, c, l, k
  <2>3. CalculateMissesK(l, k) = 0
    BY <2>1, <2>2, NoneLateNone
  <2> QED BY <2>1, <2>3 DEF i
<1> QED BY <1>5, <1>6

(* What a positive verdict of check_list is worth to the deadlines of a    *)
(* task with a hard fragment.                                              *)
THEOREM HardAlwaysKept == Spec => []HardKept
BY RowsKept, VerdictKeeps, PTL

-----------------------------------------------------------------------------
(* Fractions.                                                              *)

Fraction(f) == f.num \in Int /\ f.den \in Nat \ {0}

(* Scaling by a positive number keeps the order.                           *)
LEMMA TimesKeepsOrder == \A a \in Int, b \in Int, n \in Nat \ {0} : a < b <=> a * n < b * n
<1>1. \A d \in Int, n \in Nat \ {0} : d >= 1 => d * n >= 1
  BY Z3
<1> SUFFICES ASSUME NEW a \in Int, NEW b \in Int, NEW n \in Nat \ {0}
             PROVE  a < b <=> a * n < b * n
  OBVIOUS
<1>2. (b - a) * n = b * n - a * n /\ (a - b) * n = a * n - b * n /\ a * n \in Int /\ b * n \in Int
  BY Z3
<1>3. a < b => (b - a) * n >= 1
  BY <1>1
<1>4. a > b => (a - b) * n >= 1
  BY <1>1
<1>5. a = b => a * n = b * n
  OBVIOUS
<1> HIDE <1>1
<1> QED BY <1>2, <1>3, <1>4, <1>5

(* Of two fractions one is at most the other.                              *)
LEMMA LessIsNotAtMost == ASSUME NEW f, NEW g, Fraction(f), Fraction(g)
                         PROVE  Less(f, g) <=> ~AtMost(g, f)
<1>1. f.num * g.den \in Int /\ g.num * f.den \in Int
  BY DEF Fraction
<1> DEFINE a == f.num * g.den  b == g.num * f.den
<1>2. a < b <=> ~(b <= a)
  <2>1. a \in Int /\ b \in Int
    BY <1>1
  <2> HIDE DEF a, b
  <2> QED BY <2>1
<1> QED BY <1>2 DEF Less, AtMost

(* AtMost is transitive.                                                   *)
LEMMA AtMostTransitive ==
  ASSUME NEW f, NEW g, NEW h, Fraction(f), Fraction(g), Fraction(h),
         AtMost(f, g), AtMost(g, h)
  PROVE  AtMost(f, h)
<1> DEFINE fn == f.num  fd == f.den  gn == g.num  gd == g.den  hn == h.num  hd == h.den
<1>1. /\ fn \in Int /\ gn \in Int /\ hn \in Int
      /\ fd \in Nat \ {0} /\ gd \in Nat \ {0} /\ hd \in Nat \ {0}
      /\ fn * gd <= gn * fd /\ gn * hd <= hn * gd
  BY DEF Fraction, AtMost
<1>2. AtMost(f, h) <=> fn * hd <= hn * fd
  BY DEF AtMost
<1> HIDE DEF fn, fd, gn, gd, hn, hd
<1>3. (fn * gd) * hd <= (gn * fd) * hd
  <2> DEFINE a == fn * gd  b == gn * fd
  <2>1. a \in Int /\ b \in Int /\ ~(b < a)
    BY <1>1
  <2> HIDE DEF a, b
  <2>2. ~(b * hd < a * hd) /\ a * hd \in Int /\ b * hd \in Int
    BY <1>1, <2>1, TimesKeepsOrder
  <2>3. a * hd <= b * hd
    BY <2>2
  <2> QED BY <2>3 DEF a, b
<1>4. (gn * hd) * fd <= (hn * gd) * fd
  <2> DEFINE a == gn * hd  b == hn * gd
  <2>1. a \in Int /\ b \in Int /\ ~(b < a)
    BY <1>1
  <2> HIDE DEF a, b
  <2>2. ~(b * fd < a * fd) /\ a * fd \in Int /\ b * fd \in Int
    BY <1>1, <2>1, TimesKeepsOrder
  <2>3. a * fd <= b * fd
    BY <2>2
  <2> QED BY <2>3 DEF a, b
<1>5. /\ (fn * gd) * hd = (fn * hd) * gd /\ (gn * fd) * hd = (gn * hd) * fd
      /\ (hn * gd) * fd = (hn * fd) * gd
  BY <1>1, Z3
<1>6. (fn * hd) * gd <= (hn * fd) * gd
  <2> DEFINE a == (fn * hd) * gd  b == (gn * hd) * fd  c == (hn * fd) * gd
  <2>1. a \in Int /\ b \in Int /\ c \in Int
    BY <1>1
  <2>2. a <= b /\ b <= c
    BY <1>3, <1>4, <1>5
  <2> HIDE DEF a, b, c
  <2>3. a <= c
    BY <2>1, <2>2
  <2> QED BY <2>3 DEF a, c
<1>7. ~(hn * fd < fn * hd)
  <2> DEFINE a == fn * hd  b == hn * fd
  <2>1. a \in Int /\ b \in Int
    BY <1>1
  <2>2. a * gd <= b * gd /\ a * gd \in Int /\ b * gd \in Int
    BY <1>1, <1>6
  <2> HIDE DEF a, b
  <2>3. ~(b < a)
    BY <1>1, <2>1, <2>2, TimesKeepsOrder
  <2> QED BY <2>3 DEF a, b
<1> QED BY <1>1, <1>2, <1>7

(* What a scaled cost is compared with. *)
LEMMA ScaleBelow == ASSUME NEW f, f.num \in Nat, f.den \in Nat \ {0},
                           NEW c \in Nat, NEW s \in Int
                    PROVE  /\ Scale(f, c) \in Nat
                           /\ s * f.den <= f.num * c => s < Scale(f, c) + 1
                           /\ f.num * c < s * f.den => Scale(f, c) < s
<1> DEFINE a == f.num * c  d == f.den  q == Scale(f, c)
<1>1. a \in Nat /\ d \in Nat \ {0} /\ q = a \div d
  BY DEF Scale
<1> HIDE DEF a, d, q
<1>2. a \div d \in Nat /\ a % d \in 0..(d - 1) /\ a = d * (a \div d) + (a % d)
  BY <1>1
<1> DEFINE r == a % d
<1>3. q \in Nat /\ r \in 0..(d - 1) /\ a = d * q + r /\ d * q = q * d /\ (q + 1) * d = q * d + d
      /\ q * d \in Nat
  BY <1>1, <1>2, Z3
<1> HIDE DEF r
<1>4. ASSUME s * d <= a PROVE s < q + 1
  <2>1. s * d < (q + 1) * d
    <3>1. s * d \in Int
      BY <1>1
    <3> QED BY <1>1, <1>3, <1>4, <3>1
  <2> QED BY <1>1, <1>3, <2>1, TimesKeepsOrder
<1>5. ASSUME a < s * d PROVE q < s
  <2>1. q * d < s * d
    <3>1. s * d \in Int
      BY <1>1
    <3> QED BY <1>1, <1>3, <1>5, <3>1
  <2> QED BY <1>1, <1>3, <2>1, TimesKeepsOrder
<1> QED BY <1>3, <1>4, <1>5 DEF a, d, q

(* A finite set of fractions has a largest. *)
LEMMA LargestFraction ==
  ASSUME NEW S, IsFiniteSet(S), S # {}, \A f \in S : Fraction(f)
  PROVE  \E f \in S : \A g \in S : AtMost(g, f)
<1> DEFINE Under(f) == {x \in S : AtMost(x, f)}
           T == {Cardinality(Under(f)) : f \in S}
<1>1. \A f \in S : /\ IsFiniteSet(Under(f)) /\ Cardinality(Under(f)) \in Nat
                   /\ Cardinality(Under(f)) <= Cardinality(S)
  <2> SUFFICES ASSUME NEW f \in S
               PROVE  /\ IsFiniteSet(Under(f)) /\ Cardinality(Under(f)) \in Nat
                      /\ Cardinality(Under(f)) <= Cardinality(S)
    OBVIOUS
  <2> DEFINE U == Under(f)
  <2>1. U \subseteq S
    OBVIOUS
  <2> HIDE DEF U
  <2>2. IsFiniteSet(U) /\ Cardinality(U) <= Cardinality(S)
    BY <2>1, FS_Subset
  <2>3. Cardinality(U) \in Nat
    BY <2>2, FS_CardinalityType
  <2> QED BY <2>2, <2>3 DEF U
<1>2. \A f, x \in S : x \in Under(f) <=> AtMost(x, f)
  OBVIOUS
<1>3. \A f \in S : Under(f) \subseteq S
  OBVIOUS
<1> HIDE DEF Under
<1>4. T \subseteq Nat /\ T # {} /\ (\A t \in T : t <= Cardinality(S)) /\ Cardinality(S) \in Nat
  BY <1>1, FS_CardinalityType
<1>5. \A f \in S : Cardinality(Under(f)) \in T
  OBVIOUS
<1>6. \A t \in T : \E f \in S : t = Cardinality(Under(f))
  OBVIOUS
<1> HIDE DEF T
<1>7. Max(T) \in T /\ \A t \in T : t <= Max(T)
  BY <1>4, Largest
<1>8. PICK f \in S : Max(T) = Cardinality(Under(f))
  BY <1>6, <1>7
<1>9. ASSUME NEW g \in S, ~AtMost(g, f) PROVE FALSE
  <2>1. AtMost(f, g)
    <3>1. Less(f, g)
      BY <1>9, LessIsNotAtMost
    <3> DEFINE a == f.num * g.den  b == g.num * f.den
    <3>2. a \in Int /\ b \in Int /\ a < b
      BY <3>1 DEF Less, Fraction
    <3>3. a <= b
      <4> HIDE DEF a, b
      <4> QED BY <3>2
    <3> QED BY <3>3 DEF AtMost
  <2>2. AtMost(g, g)
    <3>1. g.num * g.den \in Int
      BY DEF Fraction
    <3> QED BY <3>1 DEF AtMost
  <2> DEFINE U == Under(f)  V == Under(g)
  <2>3. U \subseteq V
    <3> SUFFICES ASSUME NEW x \in S, AtMost(x, f) PROVE AtMost(x, g)
      BY <1>2, <1>3
    <3> QED BY <2>1, AtMostTransitive
  <2>4. g \in V /\ g \notin U
    BY <1>2, <1>9, <2>2
  <2>5. IsFiniteSet(V) /\ IsFiniteSet(U) /\ Cardinality(V) <= Cardinality(U)
        /\ Cardinality(V) \in Nat /\ Cardinality(U) \in Nat
    BY <1>1, <1>5, <1>7, <1>8
  <2> HIDE DEF U, V
  <2>6. Cardinality(U) <= Cardinality(V) /\ (Cardinality(U) = Cardinality(V) => U = V)
    BY <2>3, <2>5, FS_Subset
  <2> DEFINE u == Cardinality(U)  v == Cardinality(V)
  <2>7. u \in Nat /\ v \in Nat /\ v <= u /\ u <= v
    BY <2>5, <2>6
  <2>8. u = v
    <3> HIDE DEF u, v
    <3> QED BY <2>7
  <2> QED BY <2>4, <2>6, <2>8
<1> QED BY <1>9

-----------------------------------------------------------------------------
(* The initial upper bound.                                                *)

(* The first k jobs by release are the first k rows, as rows are in order  *)
(* of release.                                                             *)
LEMMA FirstKIs == ASSUME RowsInv, NEW i, NEW k
                  PROVE  FirstK(i, k) = {n \in JobsOf(i) : Cardinality(Below(JobsOf(i), n)) < k}
<1>1. \A n \in JobsOf(i) : {e \in JobsOf(i) : ip[e].rmin < ip[n].rmin} = Below(JobsOf(i), n)
  <2> SUFFICES ASSUME NEW n \in JobsOf(i), NEW e \in JobsOf(i)
               PROVE  ip[e].rmin < ip[n].rmin <=> e < n
    BY DEF Below
  <2>1. n \in 1..Len(ip) /\ e \in 1..Len(ip) /\ Len(ip) \in Nat
    BY JobsFacts, RowFacts
  <2>2. ip[n].rmin = n - 1 /\ ip[e].rmin = e - 1
    BY <2>1, RowFacts
  <2> QED BY <2>1, <2>2
<1>2. FirstK(i, k) =
        {n \in JobsOf(i) : Cardinality({e \in JobsOf(i) : ip[e].rmin < ip[n].rmin}) < k}
  BY DEF FirstK, JobsOf
<1> QED BY <1>1, <1>2

(* The jobs considered are finitely many, and their leeways are fractions. *)
LEMMA ConsideredFacts == ASSUME RowsInv
                         PROVE  /\ Considered \subseteq 1..Len(ip) /\ IsFiniteSet(Considered)
                                /\ \A n \in Considered :
                                     /\ Fraction(Leeway(n))
                                     /\ Leeway(n).num = ip[n].cmax + ip[n].dl - rta[n].wcct
                                     /\ Leeway(n).den = ip[n].cmax
<1>1. \A i \in Tasks : FirstK(i, Klist[1]) \subseteq 1..Len(ip)
  BY FirstKIs, JobsFacts
<1>2. Considered \subseteq 1..Len(ip)
  <2> SUFFICES ASSUME NEW n \in Considered PROVE n \in 1..Len(ip)
    OBVIOUS
  <2>1. PICK i \in Tasks : n \in FirstK(i, Klist[1])
    BY DEF Considered
  <2> QED BY <1>1, <2>1
<1>3. IsFiniteSet(Considered)
  <2>1. IsFiniteSet(1..Len(ip))
    BY RowFacts, FS_Interval
  <2> QED BY <1>2, <2>1, FS_Subset
<1>4. ASSUME NEW n \in Considered
      PROVE  /\ Fraction(Leeway(n))
             /\ Leeway(n).num = ip[n].cmax + ip[n].dl - rta[n].wcct
             /\ Leeway(n).den = ip[n].cmax
  <2>1. ip[n].cmax \in Nat \ {0} /\ ip[n].dl \in Nat /\ rta[n].wcct \in Nat
    BY <1>2, RowFacts
  <2> QED BY <2>1 DEF Fraction, Leeway
<1> QED BY <1>2, <1>3, <1>4

(* The initial bound is the largest leeway, and not negative. *)
LEMMA BoundIs == ASSUME RowsInv
                 PROVE  /\ Fraction(MaxInitialUpperBound) /\ MaxInitialUpperBound.num \in Nat
                        /\ \A n \in Considered : AtMost(Leeway(n), MaxInitialUpperBound)
                        /\ \/ MaxInitialUpperBound = [num |-> 0, den |-> 1]
                           \/ \E n \in Considered : MaxInitialUpperBound = Leeway(n)
<1> DEFINE zero == [num |-> 0, den |-> 1]  S == Considered  L == {Leeway(n) : n \in S}
           F == MaxInitialUpperBound
<1>1. Fraction(zero) /\ zero.num = 0 /\ zero.den = 1
  BY DEF Fraction
<1>2. IsFiniteSet(S) /\ \A n \in S : Fraction(Leeway(n))
  BY ConsideredFacts
<1>3. IsFiniteSet(L)
  <2> DEFINE f == [n \in S |-> Leeway(n)]
  <2>1. f \in Surjection(S, L)
    BY DEF Surjection
  <2> HIDE DEF f, L, S
  <2> QED BY <1>2, <2>1, FS_Surjection
<1>4. Leeways = L \cup {zero}
  BY DEF Leeways
<1>5. \A g \in L : \E n \in S : g = Leeway(n)
  OBVIOUS
<1>6. \A n \in S : Leeway(n) \in L
  OBVIOUS
<1> HIDE DEF L, S, zero
<1>7. IsFiniteSet(Leeways) /\ Leeways # {} /\ \A f \in Leeways : Fraction(f)
  <2>1. IsFiniteSet(L \cup {zero})
    BY <1>3, FS_AddElement
  <2> QED BY <1>1, <1>2, <1>4, <1>5, <2>1
<1>8. \E f \in Leeways : \A g \in Leeways : AtMost(g, f)
  BY <1>7, LargestFraction
<1>9. F \in Leeways /\ \A g \in Leeways : AtMost(g, F)
  BY <1>8 DEF MaxInitialUpperBound
<1> HIDE DEF F
<1>10. Fraction(F)
  BY <1>7, <1>9
<1>11. AtMost(zero, F)
  BY <1>4, <1>9
<1>12. F.num \in Nat
  <2>1. zero.num * F.den <= F.num * zero.den
    BY <1>11 DEF AtMost
  <2>2. 0 <= F.num
    BY <1>1, <1>10, <2>1 DEF Fraction
  <2> QED BY <1>10, <2>2 DEF Fraction
<1>13. \A n \in S : AtMost(Leeway(n), F)
  BY <1>4, <1>6, <1>9
<1>14. F = zero \/ \E n \in S : F = Leeway(n)
  BY <1>4, <1>5, <1>9
<1> QED BY <1>10, <1>12, <1>13, <1>14 DEF F, S, zero

(* A factor below delta_sup is below the leeway of some job considered,    *)
(* which then has slack left.                                              *)
LEMMA LeastIs == RowsInv => Least
<1> SUFFICES ASSUME RowsInv, NEW cap \in Caps, RoomToGrow(cap),
                    NEW f \in [num : 0..(2 * MaxWcct), den : Costs],
                    Less(f, DeltaSup(cap))
             PROVE  \E n \in Considered : rta[n].wcct + Scale(f, ip[n].cmax) - ip[n].cmax < ip[n].dl
  BY DEF Least
<1> DEFINE F == MaxInitialUpperBound
<1>1. Fraction(F) /\ F.num \in Nat
      /\ (F = [num |-> 0, den |-> 1] \/ \E n \in Considered : F = Leeway(n))
  BY BoundIs
<1>2. Fraction(f) /\ f.num \in Nat
  <2>1. f.num \in 0..(2 * MaxWcct) /\ f.den \in Costs
    OBVIOUS
  <2>2. f.num \in Nat
    BY <2>1
  <2>3. \A e \in Costs : e \in Nat \ {0}
    BY JobsAssumption
  <2>4. f.den \in Nat \ {0}
    BY <2>1, <2>3
  <2> QED BY <2>2, <2>4 DEF Fraction
<1>3. Fraction(cap)
  BY CapsAssumption DEF Fraction
<1>4. Less(f, F)
  <2>1. DeltaSup(cap) = IF AtMost(F, cap) THEN F ELSE cap
    BY DEF DeltaSup, SmallerOf
  <2> HIDE DEF F
  <2>2. CASE AtMost(F, cap)
    BY <2>1, <2>2
  <2>3. CASE ~AtMost(F, cap)
    <3>1. Less(f, cap) /\ Less(cap, F)
      BY <1>1, <1>3, <2>1, <2>3, LessIsNotAtMost
    <3>2. AtMost(cap, F)
      <4> DEFINE a == cap.num * F.den  b == F.num * cap.den
      <4>1. a \in Int /\ b \in Int /\ a < b
        BY <1>1, <1>3, <3>1 DEF Less, Fraction
      <4>2. a <= b
        <5> HIDE DEF a, b
        <5> QED BY <4>1
      <4> QED BY <4>2 DEF AtMost
    <3>3. ASSUME ~Less(f, F) PROVE FALSE
      <4>1. AtMost(F, f)
        BY <1>1, <1>2, <3>3, LessIsNotAtMost
      <4>2. AtMost(cap, f)
        BY <1>1, <1>2, <1>3, <3>2, <4>1, AtMostTransitive
      <4> QED BY <1>2, <1>3, <3>1, <4>2, LessIsNotAtMost
    <3> QED BY <3>3
  <2> QED BY <2>2, <2>3
<1>5. F # [num |-> 0, den |-> 1]
  <2> SUFFICES ASSUME F = [num |-> 0, den |-> 1] PROVE FALSE
    OBVIOUS
  <2>1. F.num = 0 /\ F.den = 1
    OBVIOUS
  <2> HIDE DEF F
  <2>2. f.num * 1 < 0 * f.den
    BY <1>4, <2>1 DEF Less
  <2> QED BY <1>2, <2>2 DEF Fraction
<1>6. PICK n \in Considered : F = Leeway(n)
  BY <1>1, <1>5
<1> HIDE DEF F
<1> DEFINE c == ip[n].cmax  s == ip[n].cmax + ip[n].dl - rta[n].wcct
<1>7. c \in Nat \ {0} /\ s \in Int /\ ip[n].dl \in Nat /\ rta[n].wcct \in Nat
      /\ F.num = s /\ F.den = c
  BY <1>6, ConsideredFacts, RowFacts
<1>8. f.num * c < s * f.den
  BY <1>4, <1>7 DEF Less
<1>9. Scale(f, c) \in Nat /\ Scale(f, c) < s
  <2>1. f.num \in Nat /\ f.den \in Nat \ {0}
    BY <1>2 DEF Fraction
  <2> HIDE DEF c, s
  <2> QED BY <1>7, <1>8, <2>1, ScaleBelow
<1>10. rta[n].wcct + Scale(f, c) - c < ip[n].dl
  <2> DEFINE q == Scale(f, c)
  <2>1. q \in Nat /\ q < s
    BY <1>9
  <2> HIDE DEF q
  <2>2. rta[n].wcct + q - c < ip[n].dl
    BY <1>7, <2>1
  <2> QED BY <2>2 DEF q
<1> QED BY <1>10

(* Every factor below delta_sup leaves some job considered with slack      *)
(* (max_initial_upper_bound_updated).                                      *)
THEOREM BoundAlwaysLeast == Spec => []Least
BY RowsKept, LeastIs, PTL

(* The operators of the instance Beyond are those of MissCount, as far as  *)
(* they do not read the completion times: Cardinality,                     *)
LEMMA SameCardinality == ASSUME NEW S PROVE Beyond!Cardinality(S) = Cardinality(S)
BY DEF Beyond!Cardinality, Cardinality

(* Max,                                                                    *)
LEMMA SameMax == ASSUME NEW S PROVE Beyond!Max(S) = Max(S)
BY DEF Beyond!Max, Max

(* calculate_misses_k, which is given the job list,                        *)
LEMMA SameCount == ASSUME NEW l, NEW k
                   PROVE  Beyond!CalculateMissesK(l, k) = CalculateMissesK(l, k)
<1>1. \A i : Beyond!KWindow(l, k, i) = KWindow(l, k, i)
  BY DEF Beyond!KWindow, KWindow
<1>2. \A w : Beyond!MissesIn(w) = MissesIn(w)
  <2> SUFFICES ASSUME NEW w PROVE Beyond!MissesIn(w) = MissesIn(w)
    OBVIOUS
  <2>1. Beyond!MissesIn(w) = Beyond!Cardinality({j \in DOMAIN w : w[j].slack < 0})
    BY DEF Beyond!MissesIn
  <2>2. MissesIn(w) = Cardinality({j \in DOMAIN w : w[j].slack < 0})
    BY DEF MissesIn
  <2> QED BY <2>1, <2>2, SameCardinality
<1>3. {0} \cup {Beyond!MissesIn(Beyond!KWindow(l, k, i)) : i \in 0..(Len(l) - 1)}
        = {0} \cup {MissesIn(KWindow(l, k, i)) : i \in 0..(Len(l) - 1)}
  BY <1>1, <1>2
<1> DEFINE S == {0} \cup {MissesIn(KWindow(l, k, i)) : i \in 0..(Len(l) - 1)}
<1>4. Beyond!CalculateMissesK(l, k) = Beyond!Max(S)
  BY <1>3 DEF Beyond!CalculateMissesK
<1>5. CalculateMissesK(l, k) = Max(S)
  BY DEF CalculateMissesK
<1> HIDE DEF S
<1> QED BY <1>4, <1>5, SameMax

(* and the x-th of some rows.                                              *)
LEMMA SameRow == ASSUME NEW rows, NEW x PROVE Beyond!NthRow(rows, x) = NthRow(rows, x)
BY DEF Beyond!NthRow, NthRow, Beyond!Cardinality, Cardinality

(* Beyond the bound: the miss count of the later completion times. *)
LEMMA BeyondIs ==
  ASSUME RowsInv, NEW i \in Tasks
  PROVE  LET J == JobsOf(i)
             m == Beyond!LlstOf(i)
         IN  /\ Beyond!SmallM[i] = CalculateMissesK(m, Klist[i])
             /\ Len(m) = Cardinality(J)
             /\ \A x \in 1..Cardinality(J) :
                  m[x].slack = ip[NthRow(J, x)].dl
                    - (rta[NthRow(J, x)].wcct + JustBeyond(ip[NthRow(J, x)].cmax)
                         - ip[NthRow(J, x)].cmax)
<1> DEFINE J == JobsOf(i)  m == Beyond!LlstOf(i)  c == Cardinality(J)
<1>1. Beyond!SmallM[i] = CalculateMissesK(m, Klist[i])
  <2> HIDE DEF m
  <2>1. Beyond!SmallM[i] = Beyond!CalculateMissesK(m, Klist[i])
    BY DEF Beyond!SmallM, Tasks, Beyond!Tasks, m
  <2> QED BY <2>1, SameCount
<1>2. /\ J \subseteq Nat /\ IsFiniteSet(J) /\ J \subseteq 1..Len(ip) /\ c \in Nat
      /\ J = {n \in DOMAIN rta : rta[n].tid = i}
  BY JobsFacts
<1>3. DOMAIN Completions = DOMAIN rta
      /\ \A n \in DOMAIN rta :
           /\ Completions[n].tid = rta[n].tid
           /\ Completions[n].wcct = rta[n].wcct + JustBeyond(ip[n].cmax) - ip[n].cmax
  BY DEF Completions
<1>4. J = {n \in DOMAIN Completions : Completions[n].tid = i}
  BY <1>2, <1>3
<1>5. \A x : Beyond!NthRow(J, x) = NthRow(J, x)
  BY SameRow
<1> HIDE DEF J
<1>6. m = [x \in 1..c |-> Beyond!CreateMk[NthRow(J, x)]]
  <2>1. Beyond!Cardinality(J) = c
    BY SameCardinality
  <2>2. m = [x \in 1..Beyond!Cardinality(J) |-> Beyond!CreateMk[Beyond!NthRow(J, x)]]
    BY <1>4 DEF Beyond!LlstOf
  <2> QED BY <1>5, <2>1, <2>2
<1> HIDE DEF c, m
<1>7. DOMAIN m = 1..c /\ Len(m) = c
  <2> DEFINE G(x) == Beyond!CreateMk[NthRow(J, x)]
  <2>1. m = [x \in 1..c |-> G(x)]
    BY <1>6
  <2> HIDE DEF G
  <2> QED BY <1>2, <2>1
<1>8. ASSUME NEW x \in 1..c
      PROVE  m[x].slack = ip[NthRow(J, x)].dl
               - (rta[NthRow(J, x)].wcct + JustBeyond(ip[NthRow(J, x)].cmax)
                    - ip[NthRow(J, x)].cmax)
  <2> DEFINE n == NthRow(J, x)
  <2>1. n \in J
    BY <1>2, RowsInOrder DEF c
  <2> HIDE DEF n
  <2>2. n \in DOMAIN ip /\ n \in DOMAIN rta
    BY <1>2, <2>1, RowFacts
  <2>3. Beyond!CreateMk[n].slack = ip[n].dl - Completions[n].wcct
    BY <2>2 DEF Beyond!CreateMk
  <2>4. m[x] = Beyond!CreateMk[n]
    BY <1>6 DEF n
  <2> QED BY <1>3, <2>2, <2>3, <2>4 DEF n
<1> QED BY <1>1, <1>7, <1>8 DEF J, c, m

(* A list whose first k jobs are all late is counted k.                    *)
LEMMA AllLateAll ==
  ASSUME NEW l, NEW c \in Nat \ {0}, Len(l) = c, NEW k \in Nat \ {0},
         \A x \in 1..c : x <= k => l[x].slack < 0
  PROVE  CalculateMissesK(l, k) = k
<1>1. ASSUME NEW j \in 0..(k - 1) PROVE l[((0 + j) % c) + 1].slack < 0
  <2> DEFINE r == (0 + j) % c
  <2>1. 0 + j \in Nat /\ 0 + j = j
    OBVIOUS
  <2>2. r \in 0..(c - 1) /\ \E d \in 0..(0 + j) : 0 + j = d * c + r
    BY <2>1, Rounds
  <2> HIDE DEF r
  <2>3. PICK d \in 0..j : j = d * c + r
    BY <2>1, <2>2
  <2>4. d * c \in Nat
    <3>1. d \in Nat
      OBVIOUS
    <3> QED BY <3>1, Z3
  <2>5. r + 1 \in 1..c /\ r + 1 <= k
    BY <2>2, <2>3, <2>4
  <2>6. l[r + 1].slack < 0
    BY <2>5
  <2> QED BY <2>6 DEF r
<1>2. MissSet(l, k, 0) = 0..(k - 1)
  BY <1>1 DEF MissSet
<1>3. MissesIn(KWindow(l, k, 0)) = k
  <2>1. Cardinality(0..(k - 1)) = k
    BY FS_Interval
  <2> QED BY <1>2, <2>1, WindowCount
<1>4. CalculateMissesK(l, k) \in 0..k /\ MissesIn(KWindow(l, k, 0)) <= CalculateMissesK(l, k)
  <2>1. 0 \in 0..(c - 1)
    OBVIOUS
  <2> QED BY <2>1, Counted
<1> QED BY <1>3, <1>4

(* Every one of the first k jobs has a leeway of at most the bound; one    *)
(* unit of cost beyond it the job is late, and the window at the head of   *)
(* the job list misses all its deadlines.                                  *)
LEMMA SaturatedIs == RowsInv => Saturated
<1> SUFFICES ASSUME RowsInv, NEW i \in Tasks, Klist[i] <= Klist[1], LlstOf(i) # <<>>
             PROVE  Beyond!SmallM[i] = Klist[i]
  BY DEF Saturated
<1> DEFINE J == JobsOf(i)  c == Cardinality(J)  k == Klist[i]  m == Beyond!LlstOf(i)
           F == MaxInitialUpperBound
<1>1. k \in Nat \ {0} /\ Klist[1] \in Nat \ {0} /\ k <= Klist[1]
  <2>1. 1 \in Tasks
    BY NumTaskAssumption DEF Tasks
  <2> QED BY <2>1, KlistAssumption DEF Tasks
<1>2. J \subseteq Nat /\ IsFiniteSet(J) /\ J \subseteq 1..Len(ip) /\ c \in Nat
  BY JobsFacts
<1>3. c # 0
  <2> SUFFICES ASSUME c = 0 PROVE FALSE
    OBVIOUS
  <2> DEFINE G(x) == CreateMk[NthRow(J, x)]
  <2>1. LlstOf(i) = [x \in 1..c |-> G(x)]
    BY JobsFacts DEF LlstOf
  <2>2. 1..c = {}
    OBVIOUS
  <2> HIDE DEF G, c
  <2>3. LlstOf(i) = <<>>
    BY <2>1, <2>2
  <2> QED BY <2>3
<1>4. /\ Beyond!SmallM[i] = CalculateMissesK(m, k) /\ Len(m) = c
      /\ \A x \in 1..c : m[x].slack = ip[NthRow(J, x)].dl
                           - (rta[NthRow(J, x)].wcct + JustBeyond(ip[NthRow(J, x)].cmax)
                                - ip[NthRow(J, x)].cmax)
  BY BeyondIs
<1>5. ASSUME NEW x \in 1..c, x <= k PROVE m[x].slack < 0
  <2> DEFINE n == NthRow(J, x)
  <2>1. n \in J /\ Cardinality(Below(J, n)) = x - 1
    BY <1>2, RowsInOrder
  <2> HIDE DEF n
  <2>2. n \in FirstK(i, Klist[1])
    <3>1. Cardinality(Below(J, n)) < Klist[1]
      BY <1>1, <1>2, <1>5, <2>1
    <3> QED BY <2>1, <3>1, FirstKIs
  <2>3. n \in Considered
    BY <2>2 DEF Considered
  <2> DEFINE d == ip[n].dl  w == rta[n].wcct  b == ip[n].cmax  s == b + d - w
  <2>4. d \in Nat /\ w \in Nat /\ b \in Nat \ {0}
    BY <1>2, <2>1, RowFacts
  <2>5. s * F.den <= F.num * b
    <3>1. AtMost(Leeway(n), F) /\ Leeway(n).num = s /\ Leeway(n).den = b
      BY <2>3, BoundIs, ConsideredFacts
    <3> QED BY <3>1 DEF AtMost
  <2>6. F.num \in Nat /\ F.den \in Nat \ {0}
    BY BoundIs DEF Fraction
  <2>7. m[x].slack = d - (w + JustBeyond(b) - b)
    BY <1>4 DEF n
  <2>8. JustBeyond(b) = Scale(F, b) + 1
    BY DEF JustBeyond
  <2> HIDE DEF d, w, b, F
  <2>9. s \in Int
    BY <2>4
  <2> HIDE DEF s
  <2>10. Scale(F, b) \in Nat /\ s < Scale(F, b) + 1
    BY <2>4, <2>5, <2>6, <2>9, ScaleBelow
  <2> DEFINE q == Scale(F, b)
  <2>11. q \in Nat /\ s < q + 1 /\ m[x].slack = d - (w + (q + 1) - b)
    BY <2>7, <2>8, <2>10
  <2> HIDE DEF q
  <2> QED BY <2>4, <2>11 DEF s
<1> HIDE DEF m, c, k
<1>6. CalculateMissesK(m, k) = k
  BY <1>1, <1>2, <1>3, <1>4, <1>5, AllLateAll
<1> QED BY <1>4, <1>6 DEF k

(* Beyond the largest leeway a task whose k is at most that of the first   *)
(* task misses all of some k consecutive deadlines.                        *)
THEOREM BoundAlwaysSaturates == Spec => []Saturated
BY RowsKept, SaturatedIs, PTL
=============================================================================
