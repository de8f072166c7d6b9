------------------------- MODULE ProfiledTask_proofs -------------------------
(***************************************************************************)
(* Proofs about the trace of a profiled task: for every generated task     *)
(* set, every clock and however the calls of log.c are timed, the types    *)
(* are right, each row of the trace is of one fragment but for a first one *)
(* without any, fragments do not overlap and arrivals are periodic.        *)
(***************************************************************************)
EXTENDS ProfiledTask, GenTaskSet_proofs

Fields == [col : Columns, val : Int]

LEMMA ColumnsAre ==
  Columns = {"SRC", "ARRIVAL", "RELEASE", "JITTER", "EXECUTION", "ABORT", "DST"}
<1>1. DOMAIN Header = {1, 2, 3, 4, 5, 6, 7}
  BY DEF Header
<1>2. Columns = {Header[1], Header[2], Header[3], Header[4], Header[5], Header[6], Header[7]}
  BY <1>1 DEF Columns
<1> QED BY <1>2 DEF Header

(* The first n fields of a row with these columns, of a fragment behind    *)
(* timing point src.                                                       *)
Filled(row, n, names, src) ==
  /\ row \in Seq(Fields)
  /\ Len(row) = n
  /\ \A m \in 1..n : row[m].col = names[m]
  /\ n # 0 => row[1].val = src

Holds(row, n, val) == row[n].val = val

(* The one row of a task that was aborted before its first release.        *)
OnlyBare == Len(trace) = 1 /\ IsBare(trace[1]) /\ Value(trace[1], "DST") = 0

(* The last row of the trace ended at the timing point src, or by abort.   *)
Chained(src) ==
  trace # <<>> => Value(trace[Len(trace)], "DST") \in {0, src}

-----------------------------------------------------------------------------
(* Rows grow field by field.                                               *)

LEMMA FieldIs ==
  ASSUME NEW c \in Columns, NEW v \in Int
  PROVE  \E f \in Fields : f.col = c /\ f.val = v /\ Field(c, v) = <<f>>
<1> DEFINE f == [col |-> c, val |-> v]
<1>1. f \in Fields /\ f.col = c /\ f.val = v /\ Field(c, v) = <<f>>
  BY DEF Fields, Field
<1> QED BY <1>1

LEMMA AppendField ==
  ASSUME NEW row \in Seq(Fields), NEW f \in Fields, NEW new, new = row \o <<f>>,
         NEW k \in Nat, k = Len(row) + 1
  PROVE  /\ new \in Seq(Fields) /\ Len(new) = k /\ new[k] = f
         /\ \A m \in 1..(k - 1) : new[m] = row[m]
<1>1. new = Append(row, f)
  OBVIOUS
<1> QED BY <1>1

LEMMA NextField ==
  ASSUME NEW names, NEW src, NEW row, NEW n \in Nat, Filled(row, n, names, src),
         NEW k \in Nat, k = n + 1,
         NEW c \in Columns, c = names[k], NEW v \in Int, n = 0 => v = src
  PROVE  /\ Filled(row \o Field(c, v), k, names, src)
         /\ Holds(row \o Field(c, v), k, v)
<1>1. PICK f \in Fields : f.col = c /\ f.val = v /\ Field(c, v) = <<f>>
  BY FieldIs
<1>2. PICK new : new = row \o <<f>>
  OBVIOUS
<1>3. row \in Seq(Fields) /\ k = Len(row) + 1
  BY DEF Filled
<1>4. /\ new \in Seq(Fields) /\ Len(new) = k /\ new[k] = f
      /\ \A m \in 1..(k - 1) : new[m] = row[m]
  BY <1>2, <1>3, AppendField
<1>5. \A m \in 1..k : new[m].col = names[m]
  BY <1>1, <1>4 DEF Filled
<1>6. new[1].val = src
  <2>1. CASE n = 0
    BY <1>1, <1>4, <2>1
  <2>2. CASE n # 0
    BY <1>4, <2>2 DEF Filled
  <2> QED BY <2>1, <2>2
<1>7. Filled(new, k, names, src) /\ new[k].val = v
  BY <1>1, <1>4, <1>5, <1>6 DEF Filled
<1> QED BY <1>1, <1>2, <1>7 DEF Holds

(* The two kinds of row are the same up to their fifth field. *)
LEMMA SameStart ==
  ASSUME NEW row, NEW src, NEW n \in 0..5
  PROVE  Filled(row, n, EndedRow, src) <=> Filled(row, n, AbortedRow, src)
<1>1. \A m \in 1..5 : EndedRow[m] = AbortedRow[m]
  BY DEF EndedRow, AbortedRow, Header
<1> QED BY <1>1 DEF Filled

LEMMA NoFields == ASSUME NEW names, NEW src PROVE Filled(<<>>, 0, names, src)
BY DEF Filled

LEMMA ArrivalFields ==
  ASSUME NEW src \in Int, NEW a \in Int
  PROVE  Filled(<<>> \o Field("SRC", src) \o Field("ARRIVAL", a), 2, EndedRow, src)
<1>1. "SRC" \in Columns /\ "ARRIVAL" \in Columns
  BY ColumnsAre
<1>2. "SRC" = EndedRow[1] /\ "ARRIVAL" = EndedRow[2]
  BY DEF EndedRow
<1>3. PICK one : one = <<>> \o Field("SRC", src)
  OBVIOUS
<1>4. Filled(one, 1, EndedRow, src)
  <2>1. PICK none : none = <<>>
    OBVIOUS
  <2>2. Filled(none, 0, EndedRow, src)
    BY <2>1, NoFields
  <2>3. Filled(none \o Field("SRC", src), 1, EndedRow, src)
    BY <1>1, <1>2, <2>2, NextField
  <2> QED BY <1>3, <2>1, <2>3
<1>5. Filled(one \o Field("ARRIVAL", a), 2, EndedRow, src)
  BY <1>1, <1>2, <1>4, NextField
<1> QED BY <1>3, <1>5

LEMMA ReleaseFields ==
  ASSUME NEW row, NEW src, Filled(row, 2, EndedRow, src), NEW r \in Int, NEW j \in Int
  PROVE  Filled(row \o Field("RELEASE", r) \o Field("JITTER", j), 4, EndedRow, src)
<1>1. "RELEASE" \in Columns /\ "JITTER" \in Columns
  BY ColumnsAre
<1>2. "RELEASE" = EndedRow[3] /\ "JITTER" = EndedRow[4]
  BY DEF EndedRow
<1>3. PICK three : three = row \o Field("RELEASE", r)
  OBVIOUS
<1>4. Filled(three, 3, EndedRow, src)
  BY <1>1, <1>2, <1>3, NextField
<1>5. Filled(three \o Field("JITTER", j), 4, EndedRow, src)
  BY <1>1, <1>2, <1>4, NextField
<1> QED BY <1>3, <1>5

LEMMA ExecutionField ==
  ASSUME NEW row, NEW src, Filled(row, 4, EndedRow, src), NEW e \in Int
  PROVE  Filled(row \o Field("EXECUTION", e), 5, EndedRow, src)
<1>1. "EXECUTION" \in Columns /\ "EXECUTION" = EndedRow[5]
  BY ColumnsAre DEF EndedRow
<1> QED BY <1>1, NextField

(* A row that end_id closes, and one that abort_time closes.               *)
LEMMA EndedIsWhole ==
  ASSUME NEW src, NEW d \in Int \ {0},
         NEW w, Filled(w, 6, EndedRow, src), w[6].val = d
  PROVE  /\ w \in Seq(Fields)
         /\ IsFragment(w)
         /\ Value(w, "SRC") = src /\ Value(w, "DST") = d
<1>1. /\ w \in Seq(Fields) /\ DOMAIN w = 1..6
      /\ w[1].col = "SRC" /\ w[2].col = "ARRIVAL" /\ w[3].col = "RELEASE"
      /\ w[4].col = "JITTER" /\ w[5].col = "EXECUTION" /\ w[6].col = "DST"
      /\ w[1].val = src /\ w[6].val = d
  BY DEF Filled, EndedRow
<1>2. ColumnsOf(w) = EndedRow
  BY <1>1 DEF ColumnsOf, EndedRow
<1>3. \A n \in DOMAIN w : /\ w[n].col = "SRC" <=> n = 1
                          /\ w[n].col = "DST" <=> n = 6
  BY <1>1
<1>4. (CHOOSE n \in DOMAIN w : w[n].col = "SRC") = 1
  BY <1>1, <1>3
<1>5. (CHOOSE n \in DOMAIN w : w[n].col = "DST") = 6
  BY <1>1, <1>3
<1>6. Value(w, "SRC") = src /\ Value(w, "DST") = d
  BY <1>1, <1>4, <1>5 DEF Value
<1> QED BY <1>1, <1>2, <1>6 DEF IsFragment

LEMMA AbortedIsWhole ==
  ASSUME NEW src, NEW w, Filled(w, 7, AbortedRow, src), w[7].val = 0
  PROVE  /\ w \in Seq(Fields)
         /\ IsFragment(w)
         /\ Value(w, "SRC") = src /\ Value(w, "DST") = 0
<1>1. /\ w \in Seq(Fields) /\ DOMAIN w = 1..7
      /\ w[1].col = "SRC" /\ w[2].col = "ARRIVAL" /\ w[3].col = "RELEASE"
      /\ w[4].col = "JITTER" /\ w[5].col = "EXECUTION" /\ w[6].col = "ABORT"
      /\ w[7].col = "DST" /\ w[1].val = src /\ w[7].val = 0
  BY DEF Filled, AbortedRow, Header
<1>2. ColumnsOf(w) = AbortedRow
  BY <1>1 DEF ColumnsOf, AbortedRow, Header
<1>3. \A n \in DOMAIN w : /\ w[n].col = "SRC" <=> n = 1
                          /\ w[n].col = "DST" <=> n = 7
  BY <1>1
<1>4. (CHOOSE n \in DOMAIN w : w[n].col = "SRC") = 1
  BY <1>1, <1>3
<1>5. (CHOOSE n \in DOMAIN w : w[n].col = "DST") = 7
  BY <1>1, <1>3
<1>6. Value(w, "SRC") = src /\ Value(w, "DST") = 0
  BY <1>1, <1>4, <1>5 DEF Value
<1> QED BY <1>1, <1>2, <1>6 DEF IsFragment

LEMMA EndFields ==
  ASSUME NEW row, NEW src, Filled(row, 5, EndedRow, src), NEW d \in Int \ {0}
  PROVE  /\ row \o Field("DST", d) \in Seq(Fields)
         /\ IsFragment(row \o Field("DST", d))
         /\ Value(row \o Field("DST", d), "SRC") = src
         /\ Value(row \o Field("DST", d), "DST") = d
<1>1. "DST" \in Columns /\ "DST" = EndedRow[6]
  BY ColumnsAre DEF EndedRow
<1>2. PICK w : w = row \o Field("DST", d)
  OBVIOUS
<1>3. /\ Filled(row \o Field("DST", d), 6, EndedRow, src)
      /\ Holds(row \o Field("DST", d), 6, d)
  BY <1>1, NextField
<1>4. Filled(w, 6, EndedRow, src) /\ w[6].val = d
  BY <1>2, <1>3 DEF Holds
<1> QED BY <1>2, <1>4, EndedIsWhole

LEMMA AbortFields ==
  ASSUME NEW row, NEW src, Filled(row, 5, EndedRow, src)
  PROVE  /\ row \o Field("ABORT", 0) \o Field("DST", 0) \in Seq(Fields)
         /\ IsFragment(row \o Field("ABORT", 0) \o Field("DST", 0))
         /\ Value(row \o Field("ABORT", 0) \o Field("DST", 0), "SRC") = src
         /\ Value(row \o Field("ABORT", 0) \o Field("DST", 0), "DST") = 0
<1>1. /\ "ABORT" \in Columns /\ "ABORT" = AbortedRow[6]
      /\ "DST" \in Columns /\ "DST" = AbortedRow[7]
  BY ColumnsAre DEF AbortedRow, Header
<1>2. PICK six : six = row \o Field("ABORT", 0)
  OBVIOUS
<1>3. PICK w : w = six \o Field("DST", 0)
  OBVIOUS
<1>4. Filled(row, 5, AbortedRow, src)
  BY SameStart
<1>5. Filled(six, 6, AbortedRow, src)
  BY <1>1, <1>2, <1>4, NextField
<1>6. /\ Filled(six \o Field("DST", 0), 7, AbortedRow, src)
      /\ Holds(six \o Field("DST", 0), 7, 0)
  BY <1>1, <1>5, NextField
<1>7. Filled(w, 7, AbortedRow, src) /\ w[7].val = 0
  BY <1>3, <1>6 DEF Holds
<1> QED BY <1>2, <1>3, <1>7, AbortedIsWhole

(* What abort_time writes into an empty row.                               *)
LEMMA BareFields ==
  ASSUME NEW row, row = <<>>, NEW w, w = row \o Field("ABORT", 0) \o Field("DST", 0)
  PROVE  w \in Rows /\ IsBare(w) /\ Value(w, "DST") = 0
<1>1. /\ "ABORT" \in Columns /\ "ABORT" = BareAbort[1]
      /\ "DST" \in Columns /\ "DST" = BareAbort[2]
  BY ColumnsAre DEF BareAbort
<1>2. PICK v \in Int : v = 0
  OBVIOUS
<1>3. PICK one : one = row \o Field("ABORT", v)
  OBVIOUS
<1>4. Filled(one, 1, BareAbort, v)
  <2>1. PICK names, col : names = BareAbort /\ col = "ABORT"
    OBVIOUS
  <2>2. Filled(row, 0, names, v)
    BY NoFields
  <2>3. col \in Columns /\ col = names[1] /\ 1 = 0 + 1
    BY <1>1, <2>1
  <2>4. Filled(row \o Field(col, v), 1, names, v)
    BY <2>2, <2>3, NextField
  <2> QED BY <1>3, <2>1, <2>4
<1>5. Filled(w, 2, BareAbort, v) /\ Holds(w, 2, v)
  <2>1. /\ Filled(one \o Field("DST", v), 2, BareAbort, v)
        /\ Holds(one \o Field("DST", v), 2, v)
    BY <1>1, <1>4, NextField
  <2> QED BY <1>2, <1>3, <2>1
<1>6. /\ w \in Seq(Fields) /\ DOMAIN w = 1..2
      /\ w[1].col = "ABORT" /\ w[2].col = "DST" /\ w[2].val = 0
  BY <1>2, <1>5 DEF Filled, Holds, BareAbort
<1>7. ColumnsOf(w) = BareAbort
  BY <1>6 DEF ColumnsOf, BareAbort
<1>8. (CHOOSE n \in DOMAIN w : w[n].col = "DST") = 2
  <2>1. \A n \in DOMAIN w : w[n].col = "DST" <=> n = 2
    BY <1>6
  <2> QED BY <1>6, <2>1
<1> QED BY <1>6, <1>7, <1>8 DEF IsBare, Value, Rows, Fields

(* A row with a fragment is longer. *)
LEMMA LongIsNotBare ==
  ASSUME NEW w \in Seq(Fields), Len(w) >= 5
  PROVE  ~IsBare(w)
<1>1. 5 \in DOMAIN ColumnsOf(w)
  BY DEF ColumnsOf
<1>2. 5 \notin DOMAIN BareAbort
  BY DEF BareAbort
<1> QED BY <1>1, <1>2 DEF IsBare

(* A whole row that starts where the last one ended can be added. *)
LEMMA RowAdded ==
  ASSUME trace \in Seq(Rows), RowsOfOneFragment,
         NEW w \in Rows, IsFragment(w), Chained(Value(w, "SRC")),
         trace' = Append(trace, w), started' = started
  PROVE  /\ trace' \in Seq(Rows) /\ RowsOfOneFragment'
         /\ trace' # <<>> /\ trace'[Len(trace')] = w
<1>1. /\ trace' \in Seq(Rows) /\ Len(trace') = Len(trace) + 1
      /\ DOMAIN trace' = 1..Len(trace')
      /\ trace'[Len(trace) + 1] = w
      /\ \A n \in 1..Len(trace) : trace'[n] = trace[n]
  OBVIOUS
<1> DEFINE Allowed(t, n) == \/ IsFragment(t[n])
                            \/ IsBare(t[n]) /\ n = 1 /\ started = Infty
<1>2. \A n \in DOMAIN trace' : Allowed(trace', n)
  <2>1. ASSUME NEW n \in 1..Len(trace)
        PROVE  Allowed(trace', n)
    BY <1>1 DEF RowsOfOneFragment
  <2>2. Allowed(trace', Len(trace) + 1)
    BY <1>1
  <2>3. \A n \in DOMAIN trace' : n \in 1..Len(trace) \/ n = Len(trace) + 1
    BY <1>1
  <2> HIDE DEF Allowed
  <2> QED BY <2>1, <2>2, <2>3
<1>3. \A n \in DOMAIN trace' :
        n > 1 /\ Value(trace'[n - 1], "DST") # 0
          => Value(trace'[n], "SRC") = Value(trace'[n - 1], "DST")
  <2> SUFFICES ASSUME NEW n \in DOMAIN trace', n > 1, Value(trace'[n - 1], "DST") # 0
               PROVE  Value(trace'[n], "SRC") = Value(trace'[n - 1], "DST")
    OBVIOUS
  <2>1. CASE n \in 1..Len(trace)
    <3>1. n - 1 \in 1..Len(trace)
      BY <2>1
    <3> QED BY <1>1, <2>1, <3>1 DEF RowsOfOneFragment
  <2>2. CASE n = Len(trace) + 1
    <3>1. n - 1 = Len(trace) /\ Len(trace) \in 1..Len(trace) /\ trace # <<>>
      BY <2>2
    <3> QED BY <1>1, <2>2, <3>1 DEF Chained
  <2> QED BY <1>1, <2>1, <2>2
<1>4. RowsOfOneFragment'
  BY <1>1, <1>2, <1>3 DEF RowsOfOneFragment
<1> QED BY <1>1, <1>4

-----------------------------------------------------------------------------
(* Time. *)

LEMMA NsPerSecNat == NsPerSec \in Nat \ {0}
BY UnitsAssumption DEF NsPerSec

(* The units are those of the code: every time has its microseconds, and   *)
(* past the first second of the clock no time is taken for none.           *)
LEMMA Microseconds ==
  ASSUME NEW t \in [tv_sec : Int, tv_nsec : Int]
  PROVE  log_timespec_to_us(t) \in Int
<1>1. t.tv_nsec \div NsPerUs \in Int /\ t.tv_sec * UsPerSec \in Int
  BY UnitsAssumption
<1> QED BY <1>1 DEF log_timespec_to_us

LEMMA NoTimeIsNone == log_timespec_to_us(NoTime) = 0
<1>1. 0 * UsPerSec = 0 /\ 0 \div NsPerUs = 0
  BY UnitsAssumption
<1> QED BY <1>1 DEF NoTime, log_timespec_to_us

LEMMA ClockIsSome ==
  ASSUME clock \in Nat, clock >= NsPerSec
  PROVE  /\ ClockGettime \in Timespecs
         /\ ClockGettime # NoTime
         /\ log_timespec_to_us(ClockGettime) # 0
<1> DEFINE N == NsPerSec
           sec == clock \div N
           nsec == clock % N
<1>1. N \in Nat \ {0} /\ clock >= N
  BY NsPerSecNat
<1>2. sec \in Nat /\ sec >= 1 /\ nsec \in 0..(N - 1)
  <2> HIDE DEF N
  <2> QED BY <1>1, Z3
<1>3. ClockGettime = [tv_sec |-> sec, tv_nsec |-> nsec]
  BY DEF ClockGettime
<1> HIDE DEF sec, nsec
<1>4. sec * UsPerSec >= 1 /\ nsec \div NsPerUs >= 0
  <2>1. nsec \in Nat
    BY <1>1, <1>2
  <2>2. \A x \in Nat : x \div NsPerUs >= 0
    BY UnitsAssumption
  <2>3. sec * UsPerSec \in Int /\ sec * UsPerSec >= 1
    BY <1>2, UnitsAssumption, Z3
  <2> QED BY <2>1, <2>2, <2>3
<1>5. sec * UsPerSec + nsec \div NsPerUs # 0
  <2>1. sec * UsPerSec \in Int /\ nsec \div NsPerUs \in Int
    BY <1>1, <1>2, UnitsAssumption
  <2> QED BY <1>4, <2>1
<1> QED BY <1>2, <1>3, <1>5 DEF Timespecs, NoTime, log_timespec_to_us

LEMMA DiffTimes ==
  ASSUME NEW s \in [tv_sec : Int, tv_nsec : Int], NEW e \in [tv_sec : Int, tv_nsec : Int]
  PROVE  log_diff_timespec(s, e) \in [tv_sec : Int, tv_nsec : Int]
BY NsPerSecNat DEF log_diff_timespec
-----------------------------------------------------------------------------
(* The inductive invariant. *)

(* Every task that has been written has a frame. *)
Complete ==
  /\ \A n \in DOMAIN period_array : Len(tasks[n].frames) >= 1
  /\ Len(tasks) <= Task
  /\ at = "task" => Len(tasks) < Task

Clocks ==
  /\ clock \in Nat /\ clock >= NsPerSec
  /\ itime \in Timespecs /\ stime \in Timespecs
  /\ last_arrival \in Int
  /\ stime # NoTime => log_timespec_to_us(stime) # 0

(* Where the task is.  It never comes back to the first timing point, so   *)
(* that a point which logs nothing is only met before the first release,   *)
(* and that is at the second point at the latest.                          *)
Position ==
  /\ call \in {"none", "work", "execution", "end", "arrival", "sleep", "release"}
  /\ call = "none" => task = 0 /\ point = 0 /\ started = 0
  /\ call # "none" =>
       /\ at = "done" /\ task \in DOMAIN tasks
       /\ Len(tasks[task].frames) >= 1
       /\ point \in 1..(Len(tasks[task].frames) + 1)
       /\ started \in Nat \cup {Infty}
  /\ point \in {0, 1} => stime = NoTime
  /\ call # "none" /\ stime = NoTime /\ point # 1 => point = 2 /\ started = Infty

(* The row at hand: nothing before the first release, else the first n     *)
(* fields of a fragment that follows the last row of the trace.            *)
Open(n) ==
  IF stime = NoTime THEN line = <<>>
  ELSE \E src \in Int : Filled(line, n, EndedRow, src) /\ Chained(src)

Row ==
  /\ line \in Rows /\ trace \in Seq(Rows)
  /\ stime = NoTime /\ trace # <<>> =>
       OnlyBare /\ started = Infty /\ point = 2 /\ call \in {"arrival", "sleep", "release"}
  /\ call \in {"none", "arrival"} => line = <<>>
  /\ call \in {"work", "execution"} => Open(4)
  /\ call = "end" => Open(5)
  /\ call \in {"arrival", "sleep", "release"} => Chained(point)
  /\ call \in {"sleep", "release"} =>
       IF Interval = Infty THEN line = <<>> ELSE Filled(line, 2, EndedRow, point)

PInv == GInv /\ Complete /\ Clocks /\ Position /\ Row /\ RowsOfOneFragment

LEMMA FilledIsRow ==
  ASSUME NEW row, NEW n, NEW names, NEW src, Filled(row, n, names, src)
  PROVE  row \in Rows
BY DEF Filled, Rows, Fields

LEMMA EmptyRow == <<>> \in Rows /\ <<>> \in Seq(Rows)
BY DEF Rows

(* The lengths of frames are numbers, and only stp may be infinite. *)
LEMMA IntervalType ==
  ASSUME GenTypeOK, Position, call # "none"
  PROVE  /\ Interval \in Int
         /\ Interval = Infty => point = 1
<1>1. CASE point = 1
  BY <1>1 DEF Position, Interval, Infty
<1>2. CASE point # 1
  <2>1. tasks[task] \in TaskTexts
    BY DEF Position, GenTypeOK
  <2>2. tasks[task].frames \in Seq(Frames)
    BY <2>1 DEF TaskTexts
  <2>3. point - 1 \in 1..Len(tasks[task].frames)
    BY <1>2, <2>2 DEF Position
  <2>4. FrameAt(point) \in Frames
    BY <2>2, <2>3 DEF FrameAt
  <2>5. FrameAt(point).ms \in Nat
    BY <2>4 DEF Frames
  <2> QED BY <1>2, <2>5 DEF Interval, Infty
<1> QED BY <1>1, <1>2

LEMMA CompleteStep == GInv /\ Complete /\ GenNext => Complete'
<1> SUFFICES ASSUME GInv, Complete, GenNext PROVE Complete'
  OBVIOUS
<1>1. /\ tasks \in Seq(TaskTexts) /\ period_array \in Seq(Periods)
      /\ Len(tasks) = Len(period_array) + (IF at = "frame" THEN 1 ELSE 0)
      /\ DOMAIN period_array = 1..Len(period_array)
  BY DEF GInv, GenTypeOK, Lists
<1>2. CASE StartTask
  <2>1. PICK new \in TaskTexts : tasks' = Append(tasks, new)
    <3>1. PICK p \in SampleTable, ofst \in Offsets :
            tasks' = Append(tasks, [offset |-> ofst, priority |-> Priority(p),
                                    frames |-> <<>>])
      BY <1>2 DEF StartTask
    <3>2. p \in Periods /\ ofst \in Nat
      BY ArgumentsAssumption DEF SampleTable, Offsets
    <3>3. [offset |-> ofst, priority |-> Priority(p), frames |-> <<>>] \in TaskTexts
      BY <3>2, PriorityInTable DEF TaskTexts
    <3> QED BY <3>1, <3>3
  <2>2. /\ at = "task" /\ at' = "frame" /\ period_array' = period_array
    BY <1>2 DEF StartTask
  <2>3. /\ Len(tasks') = Len(tasks) + 1
        /\ \A n \in 1..Len(tasks) : tasks'[n] = tasks[n]
    BY <1>1, <2>1
  <2> QED BY <1>1, <2>2, <2>3, ArgumentsAssumption DEF Complete
<1>3. CASE WriteFrame
  <2>1. /\ at = "frame" /\ at' = "frame" /\ period_array' = period_array
    BY <1>3 DEF WriteFrame
  <2>2. PICK frame : tasks' = [tasks EXCEPT ![Len(tasks)].frames = Append(@, frame)]
    BY <1>3 DEF WriteFrame
  <2>3. /\ Len(tasks') = Len(tasks)
        /\ \A n \in 1..Len(period_array) : tasks'[n] = tasks[n]
    BY <1>1, <2>1, <2>2
  <2> QED BY <1>1, <2>1, <2>3 DEF Complete
<1>4. CASE EndTask
  <2>1. /\ at = "frame" /\ tasks' = tasks
        /\ period_array' = Append(period_array, priod)
        /\ Len(tasks[Len(tasks)].frames) = frme
        /\ at' = IF Len(tasks) < Task THEN "task" ELSE "main"
    BY <1>4 DEF EndTask
  <2>2. frme \in 1..Frame /\ priod \in Periods
    BY <2>1 DEF GInv, Cutting
  <2>3. DOMAIN period_array' = 1..(Len(period_array) + 1)
    BY <1>1, <2>1, <2>2
  <2>4. frme >= 1
    BY <2>2, ArgumentsAssumption
  <2> QED BY <1>1, <2>1, <2>3, <2>4 DEF Complete
<1>5. CASE WriteMain
  BY <1>5 DEF WriteMain, Complete
<1> QED BY <1>2, <1>3, <1>4, <1>5 DEF GenNext

LEMMA ProfileInit == Init => PInv
<1> SUFFICES ASSUME Init PROVE PInv
  OBVIOUS
<1>1. GInv
  BY GInit DEF Init
<1>2. Complete
  BY ArgumentsAssumption DEF Init, GenInit, Complete
<1>3. Clocks
  <2>1. clock \in NsPerSec..(NsPerSec + NsPerUs - 1) /\ NsPerSec \in Nat
    BY NsPerSecNat DEF Init
  <2>2. clock \in Nat /\ clock >= NsPerSec
    BY <2>1, UnitsAssumption
  <2>3. NoTime \in Timespecs
    BY NsPerSecNat DEF NoTime, Timespecs
  <2> QED BY <2>2, <2>3 DEF Init, Clocks
<1>4. Position
  BY DEF Init, Position
<1>5. Row
  BY EmptyRow DEF Init, Row
<1>6. RowsOfOneFragment
  BY DEF Init, RowsOfOneFragment
<1> QED BY <1>1, <1>2, <1>3, <1>4, <1>5, <1>6 DEF PInv
-----------------------------------------------------------------------------
(* Every step preserves it. *)

(* The calls of log.c leave the task set alone. *)
LEMMA TasksKept == GInv /\ Complete /\ UNCHANGED genVars => GInv' /\ Complete'
<1> SUFFICES ASSUME GInv, Complete, UNCHANGED genVars PROVE GInv' /\ Complete'
  OBVIOUS
<1>1. GInv'
  BY GNextInv
<1>2. Complete'
  BY DEF genVars, Complete
<1> QED BY <1>1, <1>2

LEMMA ProfileGenerate == PInv /\ Generate => PInv'
<1> SUFFICES ASSUME PInv, Generate PROVE PInv'
  OBVIOUS
<1>1. GenNext /\ UNCHANGED <<logVars, profileVars>>
  BY DEF Generate
<1>2. at # "done"
  BY <1>1 DEF GenNext, StartTask, WriteFrame, EndTask, WriteMain
<1>3. call = "none"
  BY <1>2 DEF PInv, Position
<1>4. GInv' /\ Complete'
  BY <1>1, GNextInv, CompleteStep DEF PInv
<1>5. Clocks'
  BY <1>1 DEF PInv, Clocks, logVars, callerVars
<1>6. Position'
  BY <1>1, <1>3 DEF PInv, Position, profileVars, logVars, callerVars
<1>7. Row'
  BY <1>1, <1>3 DEF PInv, Row, logVars, callerVars, profileVars
<1>8. RowsOfOneFragment'
  BY <1>1 DEF PInv, RowsOfOneFragment, logVars, profileVars
<1> QED BY <1>4, <1>5, <1>6, <1>7, <1>8 DEF PInv

LEMMA ProfileStart == PInv /\ Start => PInv'
<1> SUFFICES ASSUME PInv, Start PROVE PInv'
  OBVIOUS
<1>1. PICK t \in DOMAIN tasks : task' = t /\ started' \in {tasks[t].offset, Infty}
  BY DEF Start
<1>2. /\ at = "done" /\ task = 0 /\ point' = 1 /\ call' = "work"
      /\ last_arrival' = 0 /\ line' = <<>> /\ trace' = <<>>
      /\ itime' = ClockGettime
      /\ UNCHANGED <<genVars, clock, stime>>
  BY DEF Start, InitTp
<1>3. tasks \in Seq(TaskTexts) /\ period_array \in Seq(Periods)
      /\ Len(tasks) = Len(period_array)
  BY <1>2 DEF PInv, GInv, GenTypeOK, Lists
<1>4. call = "none" /\ stime = NoTime
  <2>1. 0 \notin DOMAIN tasks
    BY <1>3
  <2> QED BY <1>2, <2>1 DEF PInv, Position
<1>5. GInv' /\ Complete'
  BY <1>2, TasksKept DEF PInv
<1>6. Clocks'
  BY <1>2, ClockIsSome DEF PInv, Clocks
<1>7. Position'
  <2>1. tasks' = tasks /\ at' = at
    BY <1>2 DEF genVars
  <2>2. tasks[t] \in TaskTexts /\ t \in DOMAIN period_array
    BY <1>1, <1>3
  <2>3. tasks[t].offset \in Nat /\ Len(tasks[t].frames) >= 1
    BY <2>2 DEF TaskTexts, PInv, Complete
  <2>4. Len(tasks[t].frames) \in Nat
    BY <2>2 DEF TaskTexts
  <2> QED BY <1>1, <1>2, <1>4, <2>1, <2>3, <2>4 DEF Position
<1>8. Row'
  BY <1>2, <1>4, EmptyRow DEF Row, Open
<1>9. RowsOfOneFragment'
  BY <1>2 DEF RowsOfOneFragment
<1> QED BY <1>5, <1>6, <1>7, <1>8, <1>9 DEF PInv

(* Time passes while the fragment works. *)
LEMMA ProfileWork == PInv /\ Work => PInv'
<1> SUFFICES ASSUME PInv, Work PROVE PInv'
  OBVIOUS
<1>1. PICK ns \in 0..MaxWork : clock' = clock + ns
  BY DEF Work, Passes
<1>2. /\ call = "work" /\ call' = "execution"
      /\ UNCHANGED <<genVars, itime, stime, last_arrival, line, trace, task, point, started>>
  BY DEF Work, callerVars
<1>3. GInv' /\ Complete'
  BY <1>2, TasksKept DEF PInv
<1>4. Clocks'
  <2>1. clock' \in Nat /\ clock' >= NsPerSec
    BY <1>1, BoundsAssumption, NsPerSecNat DEF PInv, Clocks
  <2>2. UNCHANGED <<itime, stime, last_arrival>>
    BY <1>2
  <2>3. NsPerSec' = NsPerSec
    BY DEF NsPerSec
  <2> QED BY <2>1, <2>2, <2>3 DEF PInv, Clocks
<1>5. Position'
  BY <1>2 DEF PInv, Position, genVars
<1>6. Row'
  BY <1>2 DEF PInv, Row, Open, Chained, OnlyBare
<1>7. RowsOfOneFragment'
  BY <1>2 DEF PInv, RowsOfOneFragment
<1> QED BY <1>3, <1>4, <1>5, <1>6, <1>7 DEF PInv

(* The execution time is the fifth field of a fragment that was released.  *)
LEMMA ProfileExecution == PInv /\ LogExecution => PInv'
<1> SUFFICES ASSUME PInv, LogExecution PROVE PInv'
  OBVIOUS
<1> DEFINE time == log_timespec_to_us(ClockGettime) - log_timespec_to_us(stime)
<1>1. /\ call = "execution" /\ call' = "end"
      /\ line' = IF log_timespec_to_us(stime) = 0 THEN line
                 ELSE line \o Field("EXECUTION", time)
      /\ UNCHANGED <<genVars, clock, itime, stime, last_arrival, trace, task, point, started>>
  BY DEF LogExecution, Execution, callerVars
<1>2. GInv' /\ Complete'
  BY <1>1, TasksKept DEF PInv
<1>3. Clocks'
  BY <1>1 DEF PInv, Clocks
<1>4. Position'
  BY <1>1 DEF PInv, Position, genVars
<1>5. RowsOfOneFragment'
  BY <1>1 DEF PInv, RowsOfOneFragment
<1>6. time \in Int
  <2>1. stime \in [tv_sec : Int, tv_nsec : Int] /\ ClockGettime \in [tv_sec : Int, tv_nsec : Int]
    BY ClockIsSome, NsPerSecNat DEF PInv, Clocks, Timespecs
  <2> QED BY <2>1, Microseconds
<1> HIDE DEF time
<1>7. CASE stime = NoTime
  <2>1. line' = line /\ line = <<>>
    BY <1>1, <1>7, NoTimeIsNone DEF PInv, Row, Open
  <2> QED BY <1>1, <1>2, <1>3, <1>4, <1>5, <1>7, <2>1 DEF PInv, Row, Open
<1>8. CASE stime # NoTime
  <2>1. PICK src \in Int : Filled(line, 4, EndedRow, src) /\ Chained(src)
    BY <1>1, <1>8 DEF PInv, Row, Open
  <2>2. line' = line \o Field("EXECUTION", time)
    BY <1>1, <1>8 DEF PInv, Clocks
  <2>3. Filled(line', 5, EndedRow, src)
    BY <1>6, <2>1, <2>2, ExecutionField
  <2>4. Open(5)'
    BY <1>1, <1>8, <2>1, <2>3 DEF Open, Chained
  <2>5. Row'
    BY <1>1, <1>8, <2>3, <2>4, FilledIsRow DEF PInv, Row
  <2> QED BY <1>2, <1>3, <1>4, <1>5, <2>5 DEF PInv
<1> QED BY <1>7, <1>8
(* end_id or abort_time closes the row; before the first release end_id    *)
(* writes nothing, and abort_time a row of its own.                        *)
LEMMA ProfileEnd == PInv /\ LogEnd => PInv'
<1> SUFFICES ASSUME PInv, LogEnd PROVE PInv'
  OBVIOUS
<1>1. /\ call = "end" /\ call' = "arrival"
      /\ EndId(point) \/ (MayAbort /\ AbortTime)
      /\ UNCHANGED <<genVars, task, point, started>>
  BY DEF LogEnd
<1>2. UNCHANGED <<clock, itime, stime, last_arrival>>
  BY <1>1 DEF EndId, AbortTime, callerVars
<1>3. GInv' /\ Complete'
  BY <1>1, TasksKept DEF PInv
<1>4. Clocks'
  BY <1>2 DEF PInv, Clocks
<1>5. Position'
  BY <1>1, <1>2 DEF PInv, Position, genVars
<1>6. point \in Int /\ point # 0
  <2>1. tasks[task] \in TaskTexts
    BY <1>1 DEF PInv, Position, GInv, GenTypeOK
  <2>2. Len(tasks[task].frames) \in Nat
    BY <2>1 DEF TaskTexts
  <2> QED BY <1>1, <2>2 DEF PInv, Position
<1>7. CASE stime = NoTime
  <2>1. line = <<>> /\ trace = <<>>
    BY <1>1, <1>7 DEF PInv, Row, Open
  <2>2. CASE EndId(point)
    <3>1. line' = <<>> /\ trace' = <<>>
      BY <1>7, <2>1, <2>2, NoTimeIsNone DEF EndId
    <3>2. Row'
      BY <1>1, <1>2, <3>1, EmptyRow DEF Row, Chained
    <3>3. RowsOfOneFragment'
      BY <3>1 DEF RowsOfOneFragment
    <3> QED BY <1>3, <1>4, <1>5, <3>2, <3>3 DEF PInv
  <2>3. CASE MayAbort /\ AbortTime
    <3>1. point = 2 /\ started = Infty
      BY <1>1, <1>7, <2>3 DEF MayAbort, PInv, Position
    <3>2. PICK w : w = line \o Field("ABORT", 0) \o Field("DST", 0)
      OBVIOUS
    <3>3. w \in Rows /\ IsBare(w) /\ Value(w, "DST") = 0
      BY <2>1, <3>2, BareFields
    <3>4. trace' = <<w>> /\ line' = <<>>
      BY <2>1, <2>3, <3>2 DEF AbortTime
    <3>5. /\ trace' \in Seq(Rows) /\ Len(trace') = 1 /\ trace'[1] = w
          /\ DOMAIN trace' = {1}
      BY <3>3, <3>4
    <3>6. OnlyBare' /\ Chained(point)'
      BY <3>3, <3>5 DEF OnlyBare, Chained
    <3>7. Row'
      BY <1>1, <1>2, <3>1, <3>4, <3>5, <3>6, EmptyRow DEF Row
    <3>8. RowsOfOneFragment'
      BY <1>1, <3>1, <3>3, <3>5 DEF RowsOfOneFragment
    <3> QED BY <1>3, <1>4, <1>5, <3>7, <3>8 DEF PInv
  <2> QED BY <1>1, <2>2, <2>3
<1>8. CASE stime # NoTime
  <2>1. PICK src \in Int : Filled(line, 5, EndedRow, src) /\ Chained(src)
    BY <1>1, <1>8 DEF PInv, Row, Open
  <2>2. PICK w \in Seq(Fields) :
          /\ trace' = Append(trace, w) /\ line' = <<>>
          /\ IsFragment(w)
          /\ Value(w, "SRC") = src /\ Value(w, "DST") \in {0, point}
    <3>1. CASE EndId(point)
      <4>1. PICK w : w = line \o Field("DST", point)
        OBVIOUS
      <4>2. trace' = Append(trace, w) /\ line' = <<>>
        BY <1>6, <1>8, <3>1, <4>1 DEF EndId, PInv, Clocks
      <4>3. /\ w \in Seq(Fields) /\ IsFragment(w)
            /\ Value(w, "SRC") = src /\ Value(w, "DST") = point
        BY <1>6, <2>1, <4>1, EndFields
      <4> QED BY <4>2, <4>3
    <3>2. CASE MayAbort /\ AbortTime
      <4>1. PICK w : w = line \o Field("ABORT", 0) \o Field("DST", 0)
        OBVIOUS
      <4>2. trace' = Append(trace, w) /\ line' = <<>>
        BY <3>2, <4>1 DEF AbortTime
      <4>3. /\ w \in Seq(Fields) /\ IsFragment(w)
            /\ Value(w, "SRC") = src /\ Value(w, "DST") = 0
        BY <2>1, <4>1, AbortFields
      <4> QED BY <4>2, <4>3
    <3> QED BY <1>1, <3>1, <3>2
  <2>3. /\ trace' \in Seq(Rows) /\ RowsOfOneFragment'
        /\ trace' # <<>> /\ trace'[Len(trace')] = w
    <3>1. trace \in Seq(Rows) /\ RowsOfOneFragment /\ w \in Rows
      BY <2>2 DEF PInv, Row, Rows, Fields
    <3>2. Chained(Value(w, "SRC"))
      BY <2>1, <2>2
    <3> QED BY <1>1, <2>2, <3>1, <3>2, RowAdded
  <2>4. Chained(point)'
    BY <1>1, <2>2, <2>3 DEF Chained
  <2>5. Row'
    BY <1>1, <1>2, <1>8, <2>2, <2>3, <2>4, EmptyRow DEF Row
  <2> QED BY <1>3, <1>4, <1>5, <2>3, <2>5 DEF PInv
<1> QED BY <1>7, <1>8

(* The arrival opens the next row, unless the timing point is infinite.    *)
LEMMA ProfileArrival == PInv /\ LogArrival => PInv'
<1> SUFFICES ASSUME PInv, LogArrival PROVE PInv'
  OBVIOUS
<1> DEFINE next == last_arrival + Interval * UsPerMs
<1>1. /\ call = "arrival" /\ call' = "sleep"
      /\ UNCHANGED <<genVars, clock, itime, stime, trace, task, point, started>>
  BY DEF LogArrival, Arrival
<1>2. /\ Interval \in Int /\ next \in Int
      /\ point \in Int /\ point # -1
  <2>1. GenTypeOK /\ Position
    BY DEF PInv, GInv
  <2>2. Interval \in Int
    BY <1>1, <2>1, IntervalType
  <2>3. tasks[task] \in TaskTexts
    BY <1>1, <2>1 DEF Position, GenTypeOK
  <2>4. point \in Int /\ point # -1
    <3>1. Len(tasks[task].frames) \in Nat
      BY <2>3 DEF TaskTexts
    <3> QED BY <1>1, <2>1, <3>1 DEF Position
  <2>5. last_arrival \in Int
    BY DEF PInv, Clocks
  <2> QED BY <2>2, <2>4, <2>5, UnitsAssumption
<1>3. IF Interval = Infty
        THEN UNCHANGED <<last_arrival, line>>
        ELSE /\ last_arrival' = next
             /\ line' = line \o Field("SRC", point) \o Field("ARRIVAL", next)
  BY <1>2 DEF LogArrival, Arrival
<1> HIDE DEF next
<1>4. GInv' /\ Complete'
  BY <1>1, TasksKept DEF PInv
<1>5. Clocks'
  BY <1>1, <1>2, <1>3 DEF PInv, Clocks
<1>6. Position'
  BY <1>1 DEF PInv, Position, genVars
<1>7. RowsOfOneFragment'
  BY <1>1 DEF PInv, RowsOfOneFragment
<1>8. line = <<>> /\ Chained(point) /\ Interval' = Interval
  BY <1>1 DEF PInv, Row, Interval, FrameAt, genVars
<1>9. IF Interval = Infty THEN line' = <<>> ELSE Filled(line', 2, EndedRow, point)
  BY <1>2, <1>3, <1>8, ArrivalFields
<1>10. line' \in Rows
  BY <1>9, EmptyRow, FilledIsRow
<1>11. Row'
  BY <1>1, <1>8, <1>9, <1>10 DEF PInv, Row, Chained, OnlyBare
<1> QED BY <1>4, <1>5, <1>6, <1>7, <1>11 DEF PInv

LEMMA ProfileSleep == PInv /\ Sleep => PInv'
<1> SUFFICES ASSUME PInv, Sleep PROVE PInv'
  OBVIOUS
<1>1. PICK late \in 0..MaxLate :
        clock' = (IF Interval # Infty /\ clock < Due THEN Due ELSE clock) + late
  BY DEF Sleep
<1>2. /\ call = "sleep" /\ call' = "release"
      /\ UNCHANGED <<genVars, itime, stime, last_arrival, line, trace, task, point, started>>
  BY DEF Sleep, callerVars
<1>3. GInv' /\ Complete'
  BY <1>2, TasksKept DEF PInv
<1>4. Clocks'
  <2>1. Due \in Int
    <3>1. itime.tv_sec \in Int /\ itime.tv_nsec \in Int /\ last_arrival \in Int
      BY NsPerSecNat DEF PInv, Clocks, Timespecs
    <3>2. itime.tv_sec * NsPerSec \in Int /\ last_arrival * NsPerUs \in Int
      BY <3>1, NsPerSecNat, UnitsAssumption
    <3> QED BY <3>1, <3>2 DEF Due
  <2> HIDE DEF Due
  <2>2. clock' \in Int /\ clock' >= clock
    BY <1>1, <2>1, BoundsAssumption DEF PInv, Clocks
  <2>3. clock' \in Nat /\ clock' >= NsPerSec
    BY <2>2, NsPerSecNat DEF PInv, Clocks
  <2>4. NsPerSec' = NsPerSec
    BY DEF NsPerSec
  <2> QED BY <1>2, <2>3, <2>4 DEF PInv, Clocks
<1>5. Position'
  BY <1>2 DEF PInv, Position, genVars
<1>6. Interval' = Interval
  BY <1>2 DEF Interval, FrameAt, genVars
<1>7. Row'
  BY <1>2, <1>6 DEF PInv, Row, Chained, OnlyBare
<1>8. RowsOfOneFragment'
  BY <1>2 DEF PInv, RowsOfOneFragment
<1> QED BY <1>3, <1>4, <1>5, <1>7, <1>8 DEF PInv
(* The release is the third field, the jitter the fourth; the next timing  *)
(* point is never the first again.                                         *)
LEMMA ProfileRelease == PInv /\ LogRelease => PInv'
<1> SUFFICES ASSUME PInv, LogRelease PROVE PInv'
  OBVIOUS
<1> DEFINE time == log_timespec_to_us(log_diff_timespec(itime, ClockGettime))
<1>1. /\ call = "release" /\ call' = "work"
      /\ IF Interval = Infty
           THEN UNCHANGED <<stime, line>>
           ELSE /\ line' = line \o Field("RELEASE", time)
                                \o Field("JITTER", time - last_arrival)
                /\ stime' = ClockGettime
      /\ point' = IF point = Len(tasks[task].frames) + 1 THEN 2 ELSE point + 1
      /\ UNCHANGED <<genVars, clock, itime, last_arrival, trace, task, started>>
  BY DEF LogRelease, Release
<1>2. time \in Int /\ time - last_arrival \in Int
  <2>1. itime \in [tv_sec : Int, tv_nsec : Int] /\ ClockGettime \in [tv_sec : Int, tv_nsec : Int]
    BY ClockIsSome, NsPerSecNat DEF PInv, Clocks, Timespecs
  <2>2. time \in Int
    BY <2>1, DiffTimes, Microseconds
  <2>3. last_arrival \in Int
    BY DEF PInv, Clocks
  <2> HIDE DEF time
  <2> QED BY <2>2, <2>3
<1> HIDE DEF time
<1>3. GInv' /\ Complete'
  BY <1>1, TasksKept DEF PInv
<1>4. Clocks'
  <2>1. clock \in Nat /\ clock >= NsPerSec
    BY DEF PInv, Clocks
  <2>2. ClockGettime \in Timespecs /\ log_timespec_to_us(ClockGettime) # 0
    BY <2>1, ClockIsSome
  <2>3. stime' \in Timespecs /\ (stime' # NoTime => log_timespec_to_us(stime') # 0)
    BY <1>1, <2>2 DEF PInv, Clocks
  <2> QED BY <1>1, <2>3 DEF PInv, Clocks
<1>5. Interval \in Int /\ (Interval = Infty => point = 1)
  BY <1>1, IntervalType DEF PInv, GInv
<1>6. Position'
  <2>1. tasks[task] \in TaskTexts
    BY <1>1 DEF PInv, Position, GInv, GenTypeOK
  <2>2. Len(tasks[task].frames) \in Nat
    BY <2>1 DEF TaskTexts
  <2>3. point' \in 2..(Len(tasks[task].frames) + 1)
    BY <1>1, <2>2 DEF PInv, Position
  <2>4. tasks' = tasks /\ at' = at
    BY <1>1 DEF genVars
  <2>5. stime' = NoTime => point' = 2 /\ started' = Infty
    <3>1. Interval # Infty => stime' # NoTime
      BY <1>1, ClockIsSome DEF PInv, Clocks
    <3>2. Interval = Infty => point' = 2 /\ started' = Infty
      BY <1>1, <1>5, <2>2 DEF PInv, Position, Interval
    <3> QED BY <3>1, <3>2
  <2> QED BY <1>1, <2>2, <2>3, <2>4, <2>5 DEF PInv, Position
<1>7. RowsOfOneFragment'
  BY <1>1 DEF PInv, RowsOfOneFragment
<1>8. CASE Interval = Infty
  <2>1. line' = <<>> /\ stime' = NoTime /\ trace' = <<>>
    BY <1>1, <1>5, <1>8 DEF PInv, Row, Position
  <2>2. Row'
    BY <1>1, <2>1, EmptyRow DEF Row, Open
  <2> QED BY <1>3, <1>4, <1>6, <1>7, <2>2 DEF PInv
<1>9. CASE Interval # Infty
  <2>1. Filled(line, 2, EndedRow, point) /\ Chained(point)
    BY <1>1, <1>9 DEF PInv, Row
  <2>2. Filled(line', 4, EndedRow, point)
    BY <1>1, <1>2, <1>9, <2>1, ReleaseFields
  <2>3. stime' # NoTime
    BY <1>1, <1>9, ClockIsSome DEF PInv, Clocks
  <2>4. point \in Int
    <3>1. tasks[task] \in TaskTexts
      BY <1>1 DEF PInv, Position, GInv, GenTypeOK
    <3>2. Len(tasks[task].frames) \in Nat
      BY <3>1 DEF TaskTexts
    <3> QED BY <1>1, <3>2 DEF PInv, Position
  <2>5. Open(4)'
    BY <1>1, <2>1, <2>2, <2>3, <2>4 DEF Open, Chained
  <2>6. line' \in Rows
    BY <2>2, FilledIsRow
  <2>7. Row'
    BY <1>1, <2>3, <2>5, <2>6 DEF PInv, Row
  <2> QED BY <1>3, <1>4, <1>6, <1>7, <2>7 DEF PInv
<1> QED BY <1>8, <1>9

LEMMA ProfileStep == PInv /\ [Next]_vars => PInv'
<1> SUFFICES ASSUME PInv, [Next]_vars PROVE PInv'
  OBVIOUS
<1>1. CASE UNCHANGED vars
  <2> USE <1>1 DEF vars, logVars, callerVars, profileVars
  <2>1. GInv' /\ Complete'
    BY TasksKept DEF PInv
  <2>2. Clocks'
    BY DEF PInv, Clocks
  <2>3. Position'
    BY DEF PInv, Position, genVars
  <2>4. Interval' = Interval
    BY DEF Interval, FrameAt, genVars
  <2>5. Row'
    BY <2>4 DEF PInv, Row, Open, Chained, OnlyBare
  <2>6. RowsOfOneFragment'
    BY DEF PInv, RowsOfOneFragment
  <2> QED BY <2>1, <2>2, <2>3, <2>5, <2>6 DEF PInv
<1> QED
  BY <1>1, ProfileGenerate, ProfileStart, ProfileWork, ProfileExecution, ProfileEnd,
     ProfileArrival, ProfileSleep, ProfileRelease DEF Next

-----------------------------------------------------------------------------
(* The generator and log.c keep their types: no time stamp is out of its   *)
(* range, and the row at hand has only columns of the header.              *)
THEOREM ProfiledTypeCorrect == Spec => []TypeOK
<1>1. PInv => TypeOK
  <2> SUFFICES ASSUME PInv PROVE TypeOK
    OBVIOUS
  <2>1. GenTypeOK /\ LogTypeOK
    BY DEF PInv, GInv, Clocks, Row, LogTypeOK
  <2>2. CASE call = "none"
    BY <2>1, <2>2, ArgumentsAssumption DEF PInv, Position, TypeOK
  <2>3. CASE call # "none"
    <3>1. tasks \in Seq(TaskTexts) /\ task \in DOMAIN tasks /\ Len(tasks) <= Task
      BY <2>1, <2>3 DEF PInv, Position, Complete, GenTypeOK
    <3>2. task \in 0..Task
      BY <3>1, ArgumentsAssumption
    <3>3. Len(tasks[task].frames) \in Nat
      BY <3>1 DEF TaskTexts
    <3>4. point \in Nat /\ started \in Int
      BY <2>3, <3>3 DEF PInv, Position, Infty
    <3> QED BY <2>1, <3>2, <3>4 DEF PInv, Position, TypeOK
  <2> QED BY <2>2, <2>3
<1> QED BY <1>1, ProfileInit, ProfileStep, PTL DEF Spec

(* Whatever the calls of log.c take for a fragment that never began, a row *)
(* they write together is of one fragment and starts where the row before  *)
(* ended: at an infinite timing point, around an abort and behind it.  The *)
(* one row without a fragment is that of an abort before the first         *)
(* release; there is none, or it is the first.                             *)
THEOREM RowsAlwaysOfOneFragment == Spec => []RowsOfOneFragment
<1>1. PInv => RowsOfOneFragment
  BY DEF PInv
<1> QED BY <1>1, ProfileInit, ProfileStep, PTL DEF Spec

-----------------------------------------------------------------------------
(* What the calls do to the row, beyond its columns. *)

LEMMA FieldsOf ==
  ASSUME NEW row \in Seq(Fields), NEW n \in Nat \ {0}, Len(row) = n
  PROVE  row # <<>> /\ \A m \in 1..n : row[m] \in Fields
<1>1. row # <<>>
  OBVIOUS
<1>2. \A m \in 1..n : row[m] \in Fields
  OBVIOUS
<1> QED BY <1>1, <1>2

Longer(new, row, k) ==
  /\ new \in Seq(Fields) /\ Len(new) = Len(row) + k
  /\ \A m \in 1..Len(row) : new[m] = row[m]

LEMMA FieldAdded ==
  ASSUME NEW row \in Seq(Fields), NEW k \in Nat, k = Len(row) + 1,
         NEW c \in Columns, NEW v \in Int
  PROVE  Longer(row \o Field(c, v), row, 1) /\ Holds(row \o Field(c, v), k, v)
<1>1. PICK f \in Fields : f.col = c /\ f.val = v /\ Field(c, v) = <<f>>
  BY FieldIs
<1>2. PICK new : new = row \o <<f>>
  OBVIOUS
<1>3. /\ new \in Seq(Fields) /\ Len(new) = k /\ new[k] = f
      /\ \A m \in 1..(k - 1) : new[m] = row[m]
  BY <1>2, AppendField
<1>4. Longer(new, row, 1) /\ Holds(new, k, v)
  BY <1>1, <1>3 DEF Longer, Holds
<1> QED BY <1>1, <1>2, <1>4

LEMMA TwoFieldsAdded ==
  ASSUME NEW row \in Seq(Fields), NEW k \in Nat, k = Len(row) + 1,
         NEW c \in Columns, NEW v \in Int, NEW d \in Columns, NEW u \in Int
  PROVE  /\ Longer(row \o Field(c, v) \o Field(d, u), row, 2)
         /\ Holds(row \o Field(c, v) \o Field(d, u), k, v)
         /\ Holds(row \o Field(c, v) \o Field(d, u), k + 1, u)
<1>1. PICK one : one = row \o Field(c, v)
  OBVIOUS
<1>2. Longer(one, row, 1) /\ Holds(one, k, v)
  <2>1. Longer(row \o Field(c, v), row, 1) /\ Holds(row \o Field(c, v), k, v)
    BY FieldAdded
  <2> QED BY <1>1, <2>1
<1>3. one \in Seq(Fields) /\ Len(one) = k /\ \A m \in 1..(k - 1) : one[m] = row[m]
  BY <1>2 DEF Longer
<1>4. PICK new : new = one \o Field(d, u)
  OBVIOUS
<1>5. Longer(new, one, 1) /\ Holds(new, k + 1, u)
  <2>1. k + 1 \in Nat /\ k + 1 = Len(one) + 1
    BY <1>3
  <2>2. Longer(one \o Field(d, u), one, 1) /\ Holds(one \o Field(d, u), k + 1, u)
    BY <1>3, <2>1, FieldAdded
  <2> QED BY <1>4, <2>2
<1>6. new \in Seq(Fields) /\ Len(new) = k + 1 /\ \A m \in 1..k : new[m] = one[m]
  BY <1>3, <1>5 DEF Longer
<1>7. Longer(new, row, 2)
  <2>1. Len(row) = k - 1 /\ \A m \in 1..(k - 1) : new[m] = row[m]
    BY <1>3, <1>6
  <2> QED BY <1>6, <2>1 DEF Longer
<1>8. Holds(new, k, v)
  <2>1. k \in 1..k
    OBVIOUS
  <2> QED BY <1>2, <1>6, <2>1 DEF Holds
<1> QED BY <1>1, <1>4, <1>5, <1>7, <1>8

(* Where the columns of a whole row are. *)
LEMMA WholeRow ==
  ASSUME NEW w \in Rows, IsFragment(w)
  PROVE  /\ Value(w, "SRC") = w[1].val /\ Value(w, "ARRIVAL") = w[2].val
         /\ Value(w, "RELEASE") = w[3].val /\ Value(w, "EXECUTION") = w[5].val
         /\ \A m \in 1..5 : w[m].val \in Int
<1>1. w \in Seq(Fields)
  BY DEF Rows, Fields
<1>2. PICK names \in {EndedRow, AbortedRow} : ColumnsOf(w) = names
  BY DEF IsFragment
<1>3. /\ DOMAIN names = 1..Len(names) /\ Len(names) \in {6, 7}
      /\ names[1] = "SRC" /\ names[2] = "ARRIVAL" /\ names[3] = "RELEASE"
      /\ names[4] = "JITTER" /\ names[5] = "EXECUTION"
      /\ names[6] \in {"ABORT", "DST"} /\ (Len(names) = 7 => names[7] = "DST")
  BY <1>2 DEF EndedRow, AbortedRow, Header
<1>4. DOMAIN w = DOMAIN names /\ \A n \in DOMAIN w : w[n].col = names[n]
  BY <1>2 DEF ColumnsOf
<1>5. /\ w[1].col = "SRC" /\ w[2].col = "ARRIVAL" /\ w[3].col = "RELEASE"
      /\ w[5].col = "EXECUTION" /\ \A m \in 1..5 : m \in DOMAIN w
  BY <1>3, <1>4
<1>6. \A n \in DOMAIN w : /\ w[n].col = "SRC" <=> n = 1
                          /\ w[n].col = "ARRIVAL" <=> n = 2
                          /\ w[n].col = "RELEASE" <=> n = 3
                          /\ w[n].col = "EXECUTION" <=> n = 5
  <2> SUFFICES ASSUME NEW n \in DOMAIN w
               PROVE  /\ w[n].col = "SRC" <=> n = 1
                      /\ w[n].col = "ARRIVAL" <=> n = 2
                      /\ w[n].col = "RELEASE" <=> n = 3
                      /\ w[n].col = "EXECUTION" <=> n = 5
    OBVIOUS
  <2>1. n \in {1, 2, 3, 4, 5, 6, 7} /\ w[n].col = names[n]
    BY <1>3, <1>4
  <2>2. n = 6 => names[n] \in {"ABORT", "DST"}
    BY <1>3
  <2>3. n = 7 => names[n] = "DST"
    BY <1>3, <1>4
  <2> QED BY <1>3, <2>1, <2>2, <2>3
<1>7. /\ (CHOOSE n \in DOMAIN w : w[n].col = "SRC") = 1
      /\ (CHOOSE n \in DOMAIN w : w[n].col = "ARRIVAL") = 2
      /\ (CHOOSE n \in DOMAIN w : w[n].col = "RELEASE") = 3
      /\ (CHOOSE n \in DOMAIN w : w[n].col = "EXECUTION") = 5
  BY <1>5, <1>6
<1>8. \A m \in 1..5 : w[m].val \in Int
  <2>1. \A m \in 1..5 : w[m] \in Fields
    BY <1>1, <1>5
  <2> QED BY <2>1 DEF Fields
<1> QED BY <1>7, <1>8 DEF Value

LEMMA ArrivalRow ==
  ASSUME PInv, LogArrival
  PROVE  /\ line = <<>> /\ UNCHANGED trace
         /\ IF Interval = Infty
              THEN line' = <<>> /\ last_arrival' = last_arrival
              ELSE /\ last_arrival' = last_arrival + Interval * UsPerMs
                   /\ Len(line') = 2 /\ line' # <<>>
                   /\ line'[1].val = point /\ line'[2].val = last_arrival'
<1>1. call = "arrival" /\ line = <<>> /\ trace' = trace
  BY DEF LogArrival, Arrival, PInv, Row
<1>2. point \in Int /\ point # -1 /\ Interval \in Int
  <2>1. GenTypeOK /\ Position
    BY DEF PInv, GInv
  <2>2. tasks[task] \in TaskTexts
    BY <1>1, <2>1 DEF Position, GenTypeOK
  <2>3. Len(tasks[task].frames) \in Nat
    BY <2>2 DEF TaskTexts
  <2> QED BY <1>1, <2>1, <2>3, IntervalType DEF Position
<1>3. CASE Interval = Infty
  BY <1>1, <1>3 DEF LogArrival, Arrival
<1>4. CASE Interval # Infty
  <2>1. PICK next : next = last_arrival + Interval * UsPerMs
    OBVIOUS
  <2>2. next \in Int
    <3>1. last_arrival \in Int
      BY DEF PInv, Clocks
    <3>2. Interval * UsPerMs \in Int
      BY <1>2, UnitsAssumption
    <3> QED BY <2>1, <3>1, <3>2
  <2>3. /\ last_arrival' = next
        /\ line' = line \o Field("SRC", point) \o Field("ARRIVAL", next)
    BY <1>2, <1>4, <2>1 DEF LogArrival, Arrival
  <2>4. PICK none, new : none = <<>> /\ new = none \o Field("SRC", point) \o Field("ARRIVAL", next)
    OBVIOUS
  <2>5. none \in Seq(Fields) /\ Len(none) = 0 /\ "SRC" \in Columns /\ "ARRIVAL" \in Columns
    BY <2>4, ColumnsAre
  <2>8. Longer(new, none, 2) /\ Holds(new, 1, point) /\ Holds(new, 1 + 1, next)
    <3>1. /\ Longer(none \o Field("SRC", point) \o Field("ARRIVAL", next), none, 2)
          /\ Holds(none \o Field("SRC", point) \o Field("ARRIVAL", next), 1, point)
          /\ Holds(none \o Field("SRC", point) \o Field("ARRIVAL", next), 1 + 1, next)
      <4>1. 1 \in Nat /\ 1 = Len(none) + 1
        BY <2>5
      <4> QED BY <1>2, <2>2, <2>5, <4>1, TwoFieldsAdded
    <3> QED BY <2>4, <3>1
  <2>6. new \in Seq(Fields) /\ Len(new) = 2 /\ new[1].val = point /\ new[2].val = next
    BY <2>5, <2>8 DEF Longer, Holds
  <2>7. line' = new /\ Len(new) = 2 /\ new # <<>> /\ new[1].val = point /\ new[2].val = next
    BY <1>1, <2>3, <2>4, <2>5, <2>6
  <2> QED BY <1>1, <1>4, <2>1, <2>3, <2>7
<1> QED BY <1>3, <1>4

LEMMA ReleaseRow ==
  ASSUME PInv, LogRelease
  PROVE  /\ UNCHANGED trace
         /\ Interval = Infty => UNCHANGED <<line, stime>> /\ line = <<>> /\ stime = NoTime
         /\ Interval # Infty =>
              /\ line # <<>> /\ line' # <<>>
              /\ line'[1] = line[1] /\ line'[2] = line[2]
              /\ line'[3].val = log_timespec_to_us(log_diff_timespec(itime, ClockGettime))
              /\ line'[3].val \in Int
              /\ stime' = ClockGettime
<1>1. call = "release" /\ trace' = trace
  BY DEF LogRelease, Release
<1>2. CASE Interval = Infty
  <2>1. point = 1
    BY <1>1, <1>2, IntervalType DEF PInv, GInv
  <2> QED BY <1>1, <1>2, <2>1 DEF LogRelease, Release, PInv, Row, Position
<1>3. CASE Interval # Infty
  <2> DEFINE time == log_timespec_to_us(log_diff_timespec(itime, ClockGettime))
  <2>1. line' = line \o Field("RELEASE", time) \o Field("JITTER", time - last_arrival)
        /\ stime' = ClockGettime
    BY <1>3 DEF LogRelease, Release
  <2>2. time \in Int /\ time - last_arrival \in Int
    <3>1. itime \in [tv_sec : Int, tv_nsec : Int] /\ ClockGettime \in [tv_sec : Int, tv_nsec : Int]
      BY ClockIsSome, NsPerSecNat DEF PInv, Clocks, Timespecs
    <3>2. time \in Int
      BY <3>1, DiffTimes, Microseconds
    <3>3. last_arrival \in Int
      BY DEF PInv, Clocks
    <3> HIDE DEF time
    <3> QED BY <3>2, <3>3
  <2>3. line \in Seq(Fields) /\ Len(line) = 2
    BY <1>1, <1>3 DEF PInv, Row, Filled
  <2> HIDE DEF time
  <2>4. PICK new : new = line \o Field("RELEASE", time) \o Field("JITTER", time - last_arrival)
    OBVIOUS
  <2>5. "RELEASE" \in Columns /\ "JITTER" \in Columns
    BY ColumnsAre
  <2>8. Longer(new, line, 2) /\ Holds(new, 3, time)
    <3>1. PICK jitter \in Int : jitter = time - last_arrival
      BY <2>2
    <3>2. /\ Longer(line \o Field("RELEASE", time) \o Field("JITTER", jitter), line, 2)
          /\ Holds(line \o Field("RELEASE", time) \o Field("JITTER", jitter), 3, time)
      <4>1. 3 \in Nat /\ 3 = Len(line) + 1
        BY <2>3
      <4> QED BY <2>2, <2>3, <2>5, <4>1, TwoFieldsAdded
    <3> QED BY <2>4, <3>1, <3>2
  <2>6. /\ new \in Seq(Fields) /\ Len(new) = 4 /\ new[3].val = time
        /\ \A m \in 1..2 : new[m] = line[m]
    BY <2>3, <2>8 DEF Longer, Holds
  <2>7. /\ line # <<>> /\ new # <<>> /\ new[1] = line[1] /\ new[2] = line[2]
        /\ new[3].val = time
    <3>1. line # <<>> /\ new # <<>>
      <4>1. 2 \in Nat \ {0} /\ 4 \in Nat \ {0}
        OBVIOUS
      <4>2. line # <<>>
        BY <2>3, <4>1, FieldsOf
      <4>3. new \in Seq(Fields) /\ Len(new) = 4
        BY <2>6
      <4>4. new # <<>>
        BY <4>1, <4>3, FieldsOf
      <4> QED BY <4>2, <4>4
    <3> QED BY <2>6, <3>1
  <2> QED BY <1>1, <1>3, <2>1, <2>2, <2>4, <2>7 DEF time
<1> QED BY <1>2, <1>3

LEMMA ExecutionRow ==
  ASSUME PInv, LogExecution
  PROVE  /\ UNCHANGED <<trace, stime>>
         /\ stime = NoTime => UNCHANGED line /\ line = <<>>
         /\ stime # NoTime =>
              /\ line # <<>> /\ line' # <<>>
              /\ \A m \in 1..4 : line'[m] = line[m]
              /\ line'[5].val = log_timespec_to_us(ClockGettime) - log_timespec_to_us(stime)
              /\ line[3].val \in Int
<1>1. call = "execution" /\ trace' = trace /\ stime' = stime
  BY DEF LogExecution, Execution, callerVars
<1>2. CASE stime = NoTime
  BY <1>1, <1>2, NoTimeIsNone DEF LogExecution, Execution, PInv, Row, Open
<1>3. CASE stime # NoTime
  <2> DEFINE time == log_timespec_to_us(ClockGettime) - log_timespec_to_us(stime)
  <2>1. line' = line \o Field("EXECUTION", time)
    BY <1>3 DEF LogExecution, Execution, PInv, Clocks
  <2>2. time \in Int
    <3>1. stime \in [tv_sec : Int, tv_nsec : Int] /\ ClockGettime \in [tv_sec : Int, tv_nsec : Int]
      BY ClockIsSome, NsPerSecNat DEF PInv, Clocks, Timespecs
    <3> QED BY <3>1, Microseconds
  <2> HIDE DEF time
  <2>3. line \in Seq(Fields) /\ Len(line) = 4
    BY <1>1, <1>3 DEF PInv, Row, Open, Filled
  <2>4. PICK new : new = line \o Field("EXECUTION", time)
    OBVIOUS
  <2>5. "EXECUTION" \in Columns
    BY ColumnsAre
  <2>9. Longer(new, line, 1) /\ Holds(new, 5, time)
    <3>1. 5 \in Nat /\ 5 = Len(line) + 1
      BY <2>3
    <3>2. /\ Longer(line \o Field("EXECUTION", time), line, 1)
          /\ Holds(line \o Field("EXECUTION", time), 5, time)
      BY <2>2, <2>3, <2>5, <3>1, FieldAdded
    <3> QED BY <2>4, <3>2
  <2>6. /\ new \in Seq(Fields) /\ Len(new) = 5 /\ new[5].val = time
        /\ \A m \in 1..4 : new[m] = line[m]
    BY <2>3, <2>9 DEF Longer, Holds
  <2>7. line # <<>> /\ new # <<>> /\ new[5].val = time /\ \A m \in 1..4 : new[m] = line[m]
    <3>1. line # <<>> /\ new # <<>>
      <4>1. 4 \in Nat \ {0} /\ 5 \in Nat \ {0}
        OBVIOUS
      <4>2. line # <<>>
        BY <2>3, <4>1, FieldsOf
      <4>3. new \in Seq(Fields) /\ Len(new) = 5
        BY <2>6
      <4>4. new # <<>>
        BY <4>1, <4>3, FieldsOf
      <4> QED BY <4>2, <4>4
    <3> QED BY <2>6, <3>1
  <2>8. line[3].val \in Int
    <3>1. line[3] \in Fields
      <4>1. \A m \in 1..4 : line[m] \in Fields
        <5>1. 4 \in Nat \ {0}
          OBVIOUS
        <5> QED BY <2>3, <5>1, FieldsOf
      <4> QED BY <4>1
    <3> QED BY <3>1 DEF Fields
  <2> QED BY <1>1, <1>3, <2>1, <2>4, <2>7, <2>8 DEF time
<1> QED BY <1>2, <1>3

LEMMA EndRow ==
  ASSUME PInv, LogEnd
  PROVE  /\ stime = NoTime =>
              /\ line = <<>> /\ line' = <<>> /\ trace = <<>>
              /\ trace' = <<>> \/ (OnlyBare' /\ point = 2 /\ started = Infty)
         /\ stime # NoTime =>
              /\ line # <<>> /\ line' = <<>>
              /\ \A m \in 1..5 : line[m].val \in Int
              /\ Len(trace') = Len(trace) + 1
              /\ \A r \in 1..Len(trace) : trace'[r] = trace[r]
              /\ \A m \in 1..5 : trace'[Len(trace) + 1][m] = line[m]
              /\ ~IsBare(trace'[Len(trace) + 1])
<1>1. call = "end" /\ (EndId(point) \/ (MayAbort /\ AbortTime)) /\ trace \in Seq(Rows)
  BY DEF LogEnd, PInv, Row
<1>2. CASE stime = NoTime
  <2>1. line = <<>> /\ trace = <<>>
    BY <1>1, <1>2 DEF PInv, Row, Open
  <2>2. CASE EndId(point)
    BY <1>1, <1>2, <2>1, <2>2, NoTimeIsNone DEF EndId
  <2>3. CASE MayAbort /\ AbortTime
    <3>1. point = 2 /\ started = Infty
      BY <1>1, <1>2, <2>3 DEF MayAbort, PInv, Position
    <3>2. PICK w : w = line \o Field("ABORT", 0) \o Field("DST", 0)
      OBVIOUS
    <3>3. IsBare(w) /\ Value(w, "DST") = 0
      BY <2>1, <3>2, BareFields
    <3>4. trace' = <<w>> /\ line' = <<>>
      BY <2>1, <2>3, <3>2 DEF AbortTime
    <3> QED BY <1>2, <2>1, <3>1, <3>3, <3>4 DEF OnlyBare
  <2> QED BY <1>1, <2>2, <2>3
<1>3. CASE stime # NoTime
  <2>1. line \in Seq(Fields) /\ Len(line) = 5
    BY <1>1, <1>3 DEF PInv, Row, Open, Filled
  <2>2. line # <<>> /\ \A m \in 1..5 : line[m].val \in Int
    <3>1. line # <<>> /\ \A m \in 1..5 : line[m] \in Fields
      BY <2>1, FieldsOf
    <3> QED BY <3>1 DEF Fields
  <2>3. "DST" \in Columns /\ "ABORT" \in Columns
    BY ColumnsAre
  <2>4. point \in Int /\ point # 0
    <3>1. tasks[task] \in TaskTexts
      BY <1>1 DEF PInv, Position, GInv, GenTypeOK
    <3>2. Len(tasks[task].frames) \in Nat
      BY <3>1 DEF TaskTexts
    <3> QED BY <1>1, <3>2 DEF PInv, Position
  <2>5. \E w \in Seq(Fields) : /\ trace' = Append(trace, w) /\ line' = <<>>
                               /\ Len(w) >= 5 /\ \A m \in 1..5 : w[m] = line[m]
    <3>1. CASE EndId(point)
      <4>1. PICK w : w = line \o Field("DST", point)
        OBVIOUS
      <4>4. Longer(line \o Field("DST", point), line, 1)
        <5>1. 6 \in Nat /\ 6 = Len(line) + 1
          BY <2>1
        <5> QED BY <2>1, <2>3, <2>4, <5>1, FieldAdded
      <4>5. Longer(w, line, 1)
        BY <4>1, <4>4
      <4>2. w \in Seq(Fields) /\ Len(w) >= 5 /\ \A m \in 1..5 : w[m] = line[m]
        BY <2>1, <4>5 DEF Longer
      <4>3. trace' = Append(trace, w) /\ line' = <<>>
        BY <1>3, <2>4, <3>1, <4>1 DEF EndId, PInv, Clocks
      <4> QED BY <2>1, <4>2, <4>3
    <3>2. CASE AbortTime
      <4>1. PICK w : w = line \o Field("ABORT", 0) \o Field("DST", 0)
        OBVIOUS
      <4>4. Longer(line \o Field("ABORT", 0) \o Field("DST", 0), line, 2)
        <5>1. 6 \in Nat /\ 6 = Len(line) + 1 /\ 0 \in Int
          BY <2>1
        <5> QED BY <2>1, <2>3, <5>1, TwoFieldsAdded
      <4>5. Longer(w, line, 2)
        BY <4>1, <4>4
      <4>2. w \in Seq(Fields) /\ Len(w) >= 5 /\ \A m \in 1..5 : w[m] = line[m]
        BY <2>1, <4>5 DEF Longer
      <4>3. trace' = Append(trace, w) /\ line' = <<>>
        BY <3>2, <4>1 DEF AbortTime
      <4> QED BY <2>1, <4>2, <4>3
    <3> QED BY <1>1, <3>1, <3>2
  <2>6. PICK w \in Rows : /\ trace' = Append(trace, w) /\ line' = <<>> /\ ~IsBare(w)
                          /\ \A m \in 1..5 : w[m] = line[m]
    BY <2>5, LongIsNotBare DEF Rows, Fields
  <2>7. /\ Len(trace') = Len(trace) + 1
        /\ \A r \in 1..Len(trace) : trace'[r] = trace[r]
        /\ trace'[Len(trace) + 1] = w
    BY <1>1, <2>6
  <2> QED BY <1>3, <2>2, <2>6, <2>7
<1> QED BY <1>2, <1>3


-----------------------------------------------------------------------------
(* Times in the trace. *)

Ns(t) == t.tv_sec * NsPerSec + t.tv_nsec
Cut(us, ns) == us * NsPerUs <= ns /\ ns < us * NsPerUs + NsPerUs

(* When the fragment of a row ended, in microseconds since the start.      *)
EndOf(row) == row[3].val + row[5].val
Past(us) == us * NsPerUs < clock - Ns(itime) + NsPerUs

(* The last row is of a fragment. *)
LastEnded == trace # <<>> /\ ~IsBare(trace[Len(trace)])

(* A fragment in the trace has ended by now, up to the one microsecond,    *)
(* and so had all of them when the fragment at hand was released.          *)
Timed ==
  /\ call \in {"work", "execution", "end"} /\ stime # NoTime =>
       /\ Cut(line[3].val, Ns(stime) - Ns(itime))
       /\ LastEnded => EndOf(trace[Len(trace)]) <= line[3].val + 1
  /\ call = "end" /\ stime # NoTime => Past(EndOf(line))
  /\ LastEnded => Past(EndOf(trace[Len(trace)]))
  /\ \A n \in DOMAIN trace :
       n > 1 /\ ~IsBare(trace[n - 1]) => EndOf(trace[n - 1]) <= trace[n][3].val + 1

LEMMA CutOfTime ==
  ASSUME NEW t \in [tv_sec : Int, tv_nsec : 0..(NsPerSec - 1)]
  PROVE  Cut(log_timespec_to_us(t), Ns(t)) /\ log_timespec_to_us(t) \in Int /\ Ns(t) \in Int
<1> DEFINE sec == t.tv_sec
           nsec == t.tv_nsec
           us == nsec \div NsPerUs
<1>1. sec \in Int /\ nsec \in Nat
  BY NsPerSecNat
<1>2. us \in Nat /\ us * NsPerUs <= nsec /\ nsec < us * NsPerUs + NsPerUs
  BY <1>1, UnitsAssumption, Shared
<1>3. log_timespec_to_us(t) = sec * UsPerSec + us /\ Ns(t) = sec * (NsPerUs * UsPerSec) + nsec
  BY DEF log_timespec_to_us, Ns, NsPerSec
<1> HIDE DEF sec, nsec, us
<1>4. /\ (sec * UsPerSec + us) * NsPerUs = sec * (NsPerUs * UsPerSec) + us * NsPerUs
      /\ sec * UsPerSec \in Int /\ sec * (NsPerUs * UsPerSec) \in Int /\ us * NsPerUs \in Int
  BY <1>1, <1>2, UnitsAssumption, Z3
<1>5. /\ (sec * UsPerSec + us) * NsPerUs <= sec * (NsPerUs * UsPerSec) + nsec
      /\ sec * (NsPerUs * UsPerSec) + nsec < (sec * UsPerSec + us) * NsPerUs + NsPerUs
      /\ sec * UsPerSec + us \in Int /\ sec * (NsPerUs * UsPerSec) + nsec \in Int
  <2> DEFINE a == sec * (NsPerUs * UsPerSec)
             b == us * NsPerUs
             c == (sec * UsPerSec + us) * NsPerUs
  <2>1. c = a + b /\ a \in Int /\ b \in Int /\ b <= nsec /\ nsec < b + NsPerUs
    BY <1>2, <1>4
  <2>2. NsPerUs \in Int /\ sec * UsPerSec + us \in Int
    BY <1>2, <1>4, UnitsAssumption
  <2> HIDE DEF a, b, c
  <2>3. c <= a + nsec /\ a + nsec < c + NsPerUs /\ a + nsec \in Int
    BY <1>1, <2>1, <2>2
  <2> QED BY <2>2, <2>3 DEF a, c
<1> QED BY <1>3, <1>5 DEF Cut

LEMMA ClockNs == ASSUME clock \in Nat PROVE Ns(ClockGettime) = clock
<1> DEFINE N == NsPerSec
<1>1. N \in Nat \ {0}
  BY NsPerSecNat
<1> HIDE DEF N
<1>2. (clock \div N) * N + (clock % N) = clock
  BY <1>1, Z3
<1> QED BY <1>2 DEF ClockGettime, Ns, N

LEMMA DiffNs ==
  ASSUME NEW s \in Timespecs, NEW e \in Timespecs
  PROVE  /\ log_diff_timespec(s, e) \in [tv_sec : Int, tv_nsec : 0..(NsPerSec - 1)]
         /\ Ns(log_diff_timespec(s, e)) = Ns(e) - Ns(s)
<1> DEFINE N == NsPerSec
<1>1. /\ N \in Nat \ {0} /\ s.tv_sec \in Int /\ e.tv_sec \in Int
      /\ s.tv_nsec \in 0..(N - 1) /\ e.tv_nsec \in 0..(N - 1)
  BY NsPerSecNat DEF Timespecs
<1>2. N = NsPerSec
  OBVIOUS
<1> HIDE DEF N
<1>3. CASE e.tv_nsec - s.tv_nsec < 0
  <2>1. log_diff_timespec(s, e) = [tv_sec |-> e.tv_sec - s.tv_sec - 1,
                                   tv_nsec |-> N + e.tv_nsec - s.tv_nsec]
    BY <1>2, <1>3 DEF log_diff_timespec
  <2>2. (e.tv_sec - s.tv_sec - 1) * N = e.tv_sec * N - s.tv_sec * N - N
    BY <1>1, Z3
  <2>3. e.tv_sec * N \in Int /\ s.tv_sec * N \in Int
    BY <1>1
  <2>4. N + e.tv_nsec - s.tv_nsec \in 0..(N - 1) /\ e.tv_sec - s.tv_sec - 1 \in Int
    BY <1>1, <1>3
  <2>5. (e.tv_sec - s.tv_sec - 1) * N + (N + e.tv_nsec - s.tv_nsec)
          = (e.tv_sec * N + e.tv_nsec) - (s.tv_sec * N + s.tv_nsec)
    BY <1>1, <2>2, <2>3
  <2> QED BY <1>2, <2>1, <2>4, <2>5 DEF Ns
<1>4. CASE ~(e.tv_nsec - s.tv_nsec < 0)
  <2>1. log_diff_timespec(s, e) = [tv_sec |-> e.tv_sec - s.tv_sec,
                                   tv_nsec |-> e.tv_nsec - s.tv_nsec]
    BY <1>2, <1>4 DEF log_diff_timespec
  <2>2. (e.tv_sec - s.tv_sec) * N = e.tv_sec * N - s.tv_sec * N
    BY <1>1, Z3
  <2>3. e.tv_sec * N \in Int /\ s.tv_sec * N \in Int
    BY <1>1
  <2>4. e.tv_nsec - s.tv_nsec \in 0..(N - 1) /\ e.tv_sec - s.tv_sec \in Int
    BY <1>1, <1>4
  <2>5. (e.tv_sec - s.tv_sec) * N + (e.tv_nsec - s.tv_nsec)
          = (e.tv_sec * N + e.tv_nsec) - (s.tv_sec * N + s.tv_nsec)
    BY <1>1, <2>2, <2>3
  <2> QED BY <1>2, <2>1, <2>4, <2>5 DEF Ns
<1> QED BY <1>3, <1>4

(* A fragment that was released at ns after the start and ended at the     *)
(* clock has ended within a microsecond of what its row says; and one that *)
(* ended before a release has ended within one of that release.            *)
LEMMA EndIsPast ==
  ASSUME NEW i \in Int, NEW s \in Int, NEW c \in Int,
         NEW r \in Int, Cut(r, s - i), NEW u \in Int, Cut(u, s), NEW v \in Int, Cut(v, c)
  PROVE  (r + (v - u)) * NsPerUs < c - i + NsPerUs
<1> DEFINE N == NsPerUs
<1>1. N \in Nat /\ (r + (v - u)) * N = r * N + v * N - u * N
      /\ r * N \in Int /\ v * N \in Int /\ u * N \in Int
  BY UnitsAssumption, Z3
<1>2. r * N <= s - i /\ s < u * N + N /\ v * N <= c
  BY DEF Cut
<1> HIDE DEF N
<1>3. r * N + v * N - u * N < c - i + N
  BY <1>1, <1>2
<1> QED BY <1>1, <1>3 DEF N

LEMMA NextIsLater ==
  ASSUME NEW ns \in Int, NEW m \in Int, NEW r \in Int,
         m * NsPerUs < ns + NsPerUs, Cut(r, ns)
  PROVE  m <= r + 1
<1> DEFINE N == NsPerUs
<1>1. N \in Nat \ {0} /\ m * N \in Int /\ r * N \in Int /\ (r + 2) * N = r * N + 2 * N
  BY UnitsAssumption, Z3
<1>2. m * N < ns + N /\ ns < r * N + N
  BY DEF Cut
<1> HIDE DEF N
<1>3. m * N < (r + 2) * N
  BY <1>1, <1>2
<1>4. m < r + 2
  BY <1>1, <1>3, Z3
<1> QED BY <1>4

LEMMA TimesInt ==
  ASSUME PInv
  PROVE  /\ Ns(itime) \in Int /\ Ns(stime) \in Int /\ clock \in Int
         /\ itime \in Timespecs /\ stime \in Timespecs /\ ClockGettime \in Timespecs
<1>1. itime \in Timespecs /\ stime \in Timespecs /\ clock \in Nat /\ clock >= NsPerSec
  BY DEF PInv, Clocks
<1>2. \A t \in Timespecs : Ns(t) \in Int
  <2> SUFFICES ASSUME NEW t \in Timespecs PROVE Ns(t) \in Int
    OBVIOUS
  <2>1. t \in [tv_sec : Int, tv_nsec : 0..(NsPerSec - 1)]
    BY DEF Timespecs
  <2> QED BY <2>1, CutOfTime
<1> QED BY <1>1, <1>2, ClockIsSome

TInv == PInv /\ Timed

LEMMA ClockPasses ==
  ASSUME TInv, clock' \in Int, clock' >= clock, UNCHANGED <<itime, stime, line, trace>>,
         call' = "end" => call = "end", call' \in {"work", "execution"} => call = "work"
  PROVE  Timed'
<1>1. \A m : Past(m) => Past(m)'
  <2> SUFFICES ASSUME NEW m, Past(m) PROVE Past(m)'
    OBVIOUS
  <2>1. Ns(itime)' = Ns(itime) /\ Ns(itime) \in Int /\ clock \in Int /\ NsPerUs \in Int
    BY TimesInt, UnitsAssumption DEF TInv, Ns, NsPerSec
  <2>2. m * NsPerUs < clock - Ns(itime) + NsPerUs
    BY DEF Past
  <2>3. PICK a : a = m * NsPerUs
    OBVIOUS
  <2>4. a < clock' - Ns(itime) + NsPerUs
    BY <2>1, <2>2, <2>3
  <2> QED BY <2>1, <2>3, <2>4 DEF Past
<1>2. Ns(itime)' = Ns(itime) /\ Ns(stime)' = Ns(stime)
  BY DEF Ns, NsPerSec
<1>3. EndOf(line)' = EndOf(line) /\ EndOf(trace[Len(trace)])' = EndOf(trace[Len(trace)])
  BY DEF EndOf
<1> QED BY <1>1, <1>2, <1>3 DEF TInv, Timed, LastEnded, EndOf, Cut

LEMMA TimedRelease == TInv /\ LogRelease => Timed'
<1> SUFFICES ASSUME TInv, LogRelease PROVE Timed'
  OBVIOUS
<1>1. /\ call = "release" /\ call' = "work" /\ clock' = clock /\ itime' = itime
      /\ trace' = trace
  BY DEF LogRelease, Release
<1>2. /\ Interval = Infty => stime' = NoTime
      /\ Interval # Infty =>
           /\ line'[3].val = log_timespec_to_us(log_diff_timespec(itime, ClockGettime))
           /\ line'[3].val \in Int
           /\ stime' = ClockGettime
  BY ReleaseRow DEF TInv
<1>3. \A m : Past(m)' <=> Past(m)
  BY <1>1 DEF Past, Ns, NsPerSec
<1>4. CASE stime' = NoTime
  BY <1>1, <1>3, <1>4 DEF TInv, Timed, LastEnded, EndOf
<1>5. CASE stime' # NoTime
  <2>1. Ns(itime) \in Int /\ clock \in Nat /\ itime \in Timespecs /\ ClockGettime \in Timespecs
    BY TimesInt DEF TInv, PInv, Clocks
  <2>2. Ns(stime)' = clock /\ Ns(itime)' = Ns(itime)
    BY <1>1, <1>2, <1>5, <2>1, ClockNs DEF Ns, NsPerSec
  <2>3. Cut(line'[3].val, clock - Ns(itime)) /\ line'[3].val \in Int
    <3>1. PICK d : d = log_diff_timespec(itime, ClockGettime)
      OBVIOUS
    <3>2. /\ d \in [tv_sec : Int, tv_nsec : 0..(NsPerSec - 1)]
          /\ Ns(d) = clock - Ns(itime)
      BY <2>1, <3>1, DiffNs, ClockNs
    <3>3. Cut(log_timespec_to_us(d), Ns(d))
      BY <3>2, CutOfTime
    <3> QED BY <1>2, <1>5, <3>1, <3>2, <3>3
  <2>4. LastEnded => EndOf(trace[Len(trace)]) <= line'[3].val + 1
    <3> SUFFICES ASSUME LastEnded PROVE EndOf(trace[Len(trace)]) <= line'[3].val + 1
      OBVIOUS
    <3> DEFINE m == EndOf(trace[Len(trace)])
    <3>1. m \in Int
      <4>1. trace \in Seq(Rows) /\ RowsOfOneFragment
        BY DEF TInv, PInv, Row
      <4>2. Len(trace) \in DOMAIN trace /\ trace[Len(trace)] \in Rows
        BY <4>1 DEF LastEnded
      <4>3. IsFragment(trace[Len(trace)])
        BY <4>1, <4>2 DEF RowsOfOneFragment, LastEnded
      <4> QED BY <4>2, <4>3, WholeRow DEF EndOf
    <3>2. m * NsPerUs < (clock - Ns(itime)) + NsPerUs
      BY DEF TInv, Timed, Past
    <3> HIDE DEF m
    <3>3. m <= line'[3].val + 1
      BY <2>1, <2>3, <3>1, <3>2, NextIsLater
    <3> QED BY <3>3 DEF m
  <2>5. Cut(line'[3].val, Ns(stime)' - Ns(itime)')
    BY <2>2, <2>3
  <2> QED BY <1>1, <1>3, <2>4, <2>5 DEF TInv, Timed, LastEnded, EndOf, Cut
<1> QED BY <1>4, <1>5

LEMMA TimedExecution == TInv /\ LogExecution => Timed'
<1> SUFFICES ASSUME TInv, LogExecution PROVE Timed'
  OBVIOUS
<1>1. /\ call = "execution" /\ call' = "end" /\ clock' = clock /\ itime' = itime
      /\ trace' = trace /\ stime' = stime
  BY DEF LogExecution, Execution, callerVars
<1>2. stime # NoTime =>
        /\ \A m \in 1..4 : line'[m] = line[m]
        /\ line'[5].val = log_timespec_to_us(ClockGettime) - log_timespec_to_us(stime)
        /\ line[3].val \in Int
  BY ExecutionRow DEF TInv
<1>3. \A m : Past(m)' <=> Past(m)
  BY <1>1 DEF Past, Ns, NsPerSec
<1>4. CASE stime = NoTime
  BY <1>1, <1>3, <1>4 DEF TInv, Timed, LastEnded, EndOf
<1>5. CASE stime # NoTime
  <2>1. Ns(itime)' = Ns(itime) /\ Ns(stime)' = Ns(stime)
    BY <1>1 DEF Ns, NsPerSec
  <2>2. /\ Cut(line[3].val, Ns(stime) - Ns(itime))
        /\ LastEnded => EndOf(trace[Len(trace)]) <= line[3].val + 1
    BY <1>1, <1>5 DEF TInv, Timed
  <2>3. line'[3].val = line[3].val
    BY <1>2, <1>5
  <2>4. Past(EndOf(line)')
    <3> DEFINE u == log_timespec_to_us(stime)
               v == log_timespec_to_us(ClockGettime)
    <3>1. /\ Ns(itime) \in Int /\ Ns(stime) \in Int /\ clock \in Nat
          /\ stime \in Timespecs /\ ClockGettime \in Timespecs
      BY TimesInt DEF TInv, PInv, Clocks
    <3>2. \A t \in Timespecs : t \in [tv_sec : Int, tv_nsec : 0..(NsPerSec - 1)]
      BY DEF Timespecs
    <3>3. u \in Int /\ Cut(u, Ns(stime)) /\ v \in Int /\ Cut(v, clock)
      BY <3>1, <3>2, CutOfTime, ClockNs
    <3> HIDE DEF u, v
    <3>4. line[3].val \in Int /\ clock \in Int
      BY <1>2, <1>5, <3>1
    <3>5. (line[3].val + (v - u)) * NsPerUs < clock - Ns(itime) + NsPerUs
      BY <2>2, <3>1, <3>3, <3>4, EndIsPast
    <3>6. EndOf(line)' = line[3].val + (v - u)
      BY <1>2, <1>5 DEF EndOf, u, v
    <3> QED BY <3>5, <3>6 DEF Past
  <2> QED BY <1>1, <1>3, <2>1, <2>2, <2>3, <2>4 DEF TInv, Timed, LastEnded, EndOf, Cut
<1> QED BY <1>4, <1>5

LEMMA TimedEnd == TInv /\ LogEnd => Timed'
<1> SUFFICES ASSUME TInv, LogEnd PROVE Timed'
  OBVIOUS
<1>1. /\ call = "end" /\ call' = "arrival" /\ clock' = clock /\ itime' = itime
  BY DEF LogEnd, EndId, AbortTime, callerVars
<1>2. \A m : Past(m)' <=> Past(m)
  BY <1>1 DEF Past, Ns, NsPerSec
<1>3. CASE stime = NoTime
  <2>1. trace' = <<>> \/ OnlyBare'
    BY <1>3, EndRow DEF TInv
  <2>2. CASE trace' = <<>>
    BY <1>1, <2>2 DEF Timed, LastEnded
  <2>3. CASE OnlyBare'
    <3>1. /\ Len(trace') = 1 /\ IsBare(trace'[1])
          /\ \A n \in DOMAIN trace' : n = 1
      <4>1. trace' \in Seq(Rows)
        BY ProfileEnd DEF TInv, PInv, Row
      <4> QED BY <2>3, <4>1 DEF OnlyBare
    <3>2. ~LastEnded'
      BY <3>1 DEF LastEnded
    <3> QED BY <1>1, <3>1, <3>2 DEF Timed
  <2> QED BY <2>1, <2>2, <2>3
<1>4. CASE stime # NoTime
  <2>1. /\ Len(trace') = Len(trace) + 1
        /\ \A r \in 1..Len(trace) : trace'[r] = trace[r]
        /\ \A m \in 1..5 : trace'[Len(trace) + 1][m] = line[m]
    BY <1>4, EndRow DEF TInv
  <2>2. /\ Len(trace) \in Nat /\ DOMAIN trace = 1..Len(trace)
        /\ DOMAIN trace' = 1..Len(trace')
    <3>1. trace \in Seq(Rows) /\ trace' \in Seq(Rows)
      <4>1. PInv'
        BY ProfileEnd DEF TInv
      <4> QED BY <4>1 DEF TInv, PInv, Row
    <3> QED BY <3>1
  <2>3. /\ LastEnded => EndOf(trace[Len(trace)]) <= line[3].val + 1
        /\ Past(EndOf(line))
    BY <1>1, <1>4 DEF TInv, Timed
  <2>4. EndOf(trace'[Len(trace')]) = EndOf(line)
    BY <2>1 DEF EndOf
  <2>5. ASSUME NEW n \in DOMAIN trace', n > 1, ~IsBare(trace'[n - 1])
        PROVE  EndOf(trace'[n - 1]) <= trace'[n][3].val + 1
    <3>1. CASE n \in 1..Len(trace)
      <4>1. n - 1 \in 1..Len(trace)
        BY <2>2, <2>5, <3>1
      <4> QED BY <2>1, <2>2, <2>5, <3>1, <4>1 DEF TInv, Timed
    <3>2. CASE n = Len(trace) + 1
      <4>1. n - 1 = Len(trace) /\ Len(trace) \in 1..Len(trace) /\ trace # <<>>
        BY <2>2, <2>5, <3>2
      <4>2. trace'[n][3] = line[3]
        BY <2>1, <3>2
      <4>3. LastEnded
        BY <2>1, <2>5, <4>1 DEF LastEnded
      <4> QED BY <2>1, <2>3, <4>1, <4>2, <4>3
    <3> QED BY <2>1, <2>2, <3>1, <3>2
  <2>6. Past(EndOf(trace[Len(trace)]))'
    <3>1. PICK m : m = EndOf(line)
      OBVIOUS
    <3>2. Past(m)'
      BY <1>2, <2>3, <3>1
    <3>3. EndOf(trace[Len(trace)])' = m
      BY <2>4, <3>1 DEF EndOf
    <3> QED BY <3>2, <3>3
  <2>7. \A n \in DOMAIN trace' :
          n > 1 /\ ~IsBare(trace'[n - 1]) => EndOf(trace[n - 1])' <= trace'[n][3].val + 1
    BY <2>5 DEF EndOf
  <2> QED BY <1>1, <2>6, <2>7 DEF Timed
<1> QED BY <1>3, <1>4

LEMMA TimedStep == TInv /\ [Next]_vars => TInv'
<1> SUFFICES ASSUME TInv, [Next]_vars PROVE Timed'
  BY ProfileStep DEF TInv
<1>1. CASE Generate \/ UNCHANGED vars
  <2>1. UNCHANGED <<clock, itime, stime, line, trace, call>>
    BY <1>1 DEF Generate, vars, logVars, callerVars, profileVars
  <2> QED BY <2>1 DEF TInv, Timed, LastEnded, EndOf, Past, Cut, Ns, NsPerSec
<1>2. CASE Start
  <2>1. trace' = <<>> /\ stime' = NoTime
    <3>1. trace' = <<>> /\ stime' = stime /\ task = 0
      BY <1>2 DEF Start, InitTp
    <3>2. 0 \notin DOMAIN tasks
      BY DEF TInv, PInv, GInv, GenTypeOK
    <3> QED BY <3>1, <3>2 DEF TInv, PInv, Position
  <2> QED BY <2>1 DEF Timed, LastEnded
<1>3. CASE Work
  <2>1. PICK ns \in 0..MaxWork : clock' = clock + ns
    BY <1>3 DEF Work, Passes
  <2>2. clock' \in Int /\ clock' >= clock
    BY <2>1, TimesInt, BoundsAssumption DEF TInv
  <2>3. /\ call = "work" /\ call' = "execution"
        /\ UNCHANGED <<itime, stime, line, trace>>
    BY <1>3 DEF Work, callerVars
  <2> QED BY <2>2, <2>3, ClockPasses
<1>4. CASE LogArrival
  <2>1. call' = "sleep" /\ UNCHANGED <<clock, itime, stime, trace>>
    BY <1>4 DEF LogArrival, Arrival
  <2> QED BY <2>1 DEF TInv, Timed, LastEnded, EndOf, Past, Cut, Ns, NsPerSec
<1>5. CASE Sleep
  <2>1. PICK late \in 0..MaxLate :
          clock' = (IF Interval # Infty /\ clock < Due THEN Due ELSE clock) + late
    BY <1>5 DEF Sleep
  <2>2. clock' \in Int /\ clock' >= clock
    <3>1. itime.tv_sec \in Int /\ itime.tv_nsec \in Int /\ last_arrival \in Int
      BY NsPerSecNat DEF TInv, PInv, Clocks, Timespecs
    <3>2. itime.tv_sec * NsPerSec \in Int /\ last_arrival * NsPerUs \in Int
      BY <3>1, NsPerSecNat, UnitsAssumption
    <3>3. Due \in Int
      BY <3>1, <3>2 DEF Due
    <3>4. clock \in Int /\ late \in Nat
      BY TimesInt, BoundsAssumption DEF TInv
    <3> QED BY <2>1, <3>3, <3>4
  <2>3. call' = "release" /\ UNCHANGED <<itime, stime, line, trace>>
    BY <1>5 DEF Sleep, callerVars
  <2> QED BY <2>2, <2>3, ClockPasses
<1> QED
  BY <1>1, <1>2, <1>3, <1>4, <1>5, TimedRelease, TimedExecution, TimedEnd DEF Next

(* The fragments of a task do not overlap in its trace, whatever the units *)
(* of time are and however the task is delayed: the release time is cut    *)
(* down to microseconds after the difference is taken and the execution    *)
(* time before, and together that costs at most one.                       *)
THEOREM FragmentsAlwaysApart == Spec => []FragmentsApart
<1>1. Init => TInv
  <2> SUFFICES ASSUME Init PROVE Timed
    BY ProfileInit DEF TInv
  <2>1. trace = <<>> /\ call = "none"
    BY DEF Init
  <2> QED BY <2>1 DEF Timed, LastEnded
<1>2. TInv => FragmentsApart
  <2> SUFFICES ASSUME TInv, NEW n \in DOMAIN trace, n > 1, ~IsBare(trace[n - 1])
               PROVE  Value(trace[n - 1], "RELEASE") + Value(trace[n - 1], "EXECUTION")
                        <= Value(trace[n], "RELEASE") + 1
    BY DEF FragmentsApart
  <2>1. trace \in Seq(Rows) /\ RowsOfOneFragment
    BY DEF TInv, PInv, Row
  <2>2. n - 1 \in DOMAIN trace
    BY <2>1
  <2>3. \A r \in {n - 1, n} : trace[r] \in Rows /\ IsFragment(trace[r])
    BY <2>1, <2>2 DEF RowsOfOneFragment
  <2>4. EndOf(trace[n - 1]) <= trace[n][3].val + 1
    BY DEF TInv, Timed
  <2> QED BY <2>2, <2>3, <2>4, WholeRow DEF EndOf
<1> QED BY <1>1, <1>2, TimedStep, PTL DEF Spec


-----------------------------------------------------------------------------
(* Arrivals in the trace. *)

(* The frames of a task add up to its period: total[n] is the length of    *)
(* the first n.                                                            *)
IsTotal(total, frames) ==
  /\ total \in [0..Len(frames) -> Nat]
  /\ total[0] = 0
  /\ \A n \in 1..Len(frames) : total[n] = total[n - 1] + frames[n].ms

AddUpTo(frames, length) ==
  \E total : IsTotal(total, frames) /\ total[Len(frames)] = length

Added == \A n \in DOMAIN tasks : AddUpTo(tasks[n].frames, round[n])

(* When the k-th round of the loop arrives at timing point p, and how many *)
(* rows there are then: the first timing point has one if it is finite, or *)
(* if a bare abort has taken its place.                                    *)
BareStart == trace # <<>> /\ IsBare(trace[1])
FirstRow == IF started = Infty /\ ~BareStart THEN 0 ELSE 1
Opening == IF started = Infty THEN 0 ELSE started
Loop == Len(tasks[task].frames)
TimeOf(total, k, p) == (Opening + k * round[task] + total[p - 1]) * UsPerMs
RowOf(k, p) == FirstRow + k * Loop + (p - 1)

InPlace(total, row, r) ==
  \/ row[1].val = 1 /\ r = 1
  \/ \E k \in Nat :
       /\ row[1].val \in 2..(Loop + 1)
       /\ r = RowOf(k, row[1].val)
       /\ row[2].val = TimeOf(total, k, row[1].val)

Lines == Len(trace) + (IF line = <<>> THEN 0 ELSE 1)

(* The task has come as far as timing point p, or not yet to the first.    *)
Stage == IF call \in {"sleep", "release"} THEN point ELSE point - 1
Reached(total, p) ==
  IF p = 0 THEN last_arrival = 0 /\ Lines = 0
  ELSE \E k \in Nat : last_arrival = TimeOf(total, k, p) /\ Lines = RowOf(k, p)

InStep(total) ==
  /\ \A r \in 1..Len(trace) : IsBare(trace[r]) \/ InPlace(total, trace[r], r)
  /\ line # <<>> => InPlace(total, line, Len(trace) + 1)
  /\ Reached(total, Stage)

Paced == call # "none" =>
  \E total : IsTotal(total, tasks[task].frames) /\ total[Loop] = round[task] /\ InStep(total)

LEMMA NoFrameAdded == AddUpTo(<<>>, 0)
<1> DEFINE none == [n \in 0..0 |-> 0]
<1>1. Len(<<>>) = 0
  OBVIOUS
<1>2. none \in [0..0 -> Nat] /\ none[0] = 0
  OBVIOUS
<1>3. \A n \in 1..0 : FALSE
  OBVIOUS
<1> HIDE DEF none
<1>4. IsTotal(none, <<>>)
  BY <1>1, <1>2, <1>3 DEF IsTotal
<1> QED BY <1>1, <1>2, <1>4 DEF AddUpTo

LEMMA FrameAdded ==
  ASSUME NEW old, NEW new, NEW w \in Nat, Len(old) = w, Len(new) = w + 1,
         \A f \in 1..w : new[f].ms = old[f].ms,
         NEW ms \in Nat, new[w + 1].ms = ms,
         NEW length \in Nat, AddUpTo(old, length)
  PROVE  AddUpTo(new, length + ms)
<1>1. PICK total : IsTotal(total, old) /\ total[w] = length
  BY DEF AddUpTo
<1>2. /\ total \in [0..w -> Nat] /\ total[0] = 0
      /\ \A n \in 1..w : total[n] = total[n - 1] + old[n].ms
  BY <1>1 DEF IsTotal
<1> DEFINE longer == [n \in 0..(w + 1) |-> IF n = w + 1 THEN length + ms ELSE total[n]]
<1>3. longer \in [0..(w + 1) -> Nat]
  <2>1. length + ms \in Nat /\ \A n \in 0..(w + 1) : n # w + 1 => total[n] \in Nat
    <3>1. \A n \in 0..(w + 1) : n # w + 1 => n \in 0..w
      OBVIOUS
    <3> QED BY <1>2, <3>1
  <2> QED BY <2>1
<1>4. longer[w + 1] = length + ms /\ \A n \in 0..w : longer[n] = total[n]
  <2>1. w + 1 \in 0..(w + 1) /\ \A n \in 0..w : n \in 0..(w + 1) /\ n # w + 1
    OBVIOUS
  <2> QED BY <2>1
<1> HIDE DEF longer
<1>5. longer[0] = 0
  <2>1. 0 \in 0..w
    OBVIOUS
  <2> QED BY <1>2, <1>4, <2>1
<1>6. \A n \in 1..(w + 1) : longer[n] = longer[n - 1] + new[n].ms
  <2> SUFFICES ASSUME NEW n \in 1..(w + 1) PROVE longer[n] = longer[n - 1] + new[n].ms
    OBVIOUS
  <2>1. CASE n = w + 1
    <3>1. n - 1 = w /\ w \in 0..w
      BY <2>1
    <3>2. longer[n - 1] = length
      BY <1>1, <1>4, <3>1
    <3> QED BY <1>4, <2>1, <3>2
  <2>2. CASE n # w + 1
    <3>1. n \in 1..w /\ n - 1 \in 0..w /\ n \in 0..w
      BY <2>2
    <3>2. longer[n] = total[n] /\ longer[n - 1] = total[n - 1]
      BY <1>4, <3>1
    <3>3. total[n] = total[n - 1] + old[n].ms /\ new[n].ms = old[n].ms
      BY <1>2, <3>1
    <3> QED BY <3>2, <3>3
  <2> QED BY <2>1, <2>2
<1>7. IsTotal(longer, new)
  BY <1>3, <1>5, <1>6 DEF IsTotal
<1> QED BY <1>4, <1>7 DEF AddUpTo

LEMMA AddedStep == GInv /\ Added /\ [GenNext]_genVars => Added'
<1> SUFFICES ASSUME GInv, Added, [GenNext]_genVars PROVE Added'
  OBVIOUS
<1>1. GInv'
  BY GNextInv
<1>2. /\ tasks \in Seq(TaskTexts) /\ tasks' \in Seq(TaskTexts)
      /\ round \in Seq(Nat) /\ round' \in Seq(Nat)
      /\ Len(round) = Len(tasks) /\ Len(round') = Len(tasks')
  BY <1>1 DEF GInv, GenTypeOK, Lists
<1>3. CASE StartTask
  <2>1. PICK first : tasks' = Append(tasks, first) /\ first.frames = <<>>
    <3>1. PICK p \in SampleTable, ofst \in Offsets :
            tasks' = Append(tasks, [offset |-> ofst, priority |-> Priority(p),
                                    frames |-> <<>>])
      BY <1>3 DEF StartTask
    <3>2. [offset |-> ofst, priority |-> Priority(p), frames |-> <<>>].frames = <<>>
      OBVIOUS
    <3> QED BY <3>1, <3>2
  <2>2. /\ Len(tasks') = Len(tasks) + 1 /\ tasks'[Len(tasks) + 1] = first
        /\ \A n \in 1..Len(tasks) : tasks'[n] = tasks[n]
    BY <1>2, <2>1
  <2>3. round' = Append(round, 0)
    BY <1>3 DEF StartTask
  <2>4. round'[Len(tasks) + 1] = 0 /\ \A n \in 1..Len(tasks) : round'[n] = round[n]
    BY <1>2, <2>3
  <2> SUFFICES ASSUME NEW n \in DOMAIN tasks' PROVE AddUpTo(tasks'[n].frames, round'[n])
    BY DEF Added, AddUpTo, IsTotal
  <2>6. CASE n \in 1..Len(tasks)
    BY <1>2, <2>2, <2>4, <2>6 DEF Added
  <2>7. CASE n = Len(tasks) + 1
    BY <2>1, <2>2, <2>4, <2>7, NoFrameAdded
  <2> QED BY <1>2, <2>2, <2>6, <2>7
<1>4. CASE WriteFrame
  <2> DEFINE old == tasks[This].frames
             new == tasks'[This].frames
  <2>1. /\ This' = This /\ Len(new) = Written + 1 /\ Len(old) = Written
        /\ \A f \in 1..Written : new[f].ms = old[f].ms
        /\ new[Written + 1].ms = frame_period
        /\ \A n \in 1..(This - 1) : tasks'[n] = tasks[n]
        /\ Written \in Nat /\ This \in Nat \ {0} /\ frame_period \in Nat
    <3>1. Written' = Len(tasks'[This'].frames)
      BY DEF Written
    <3> QED BY <1>4, <3>1, FrameWritten DEF FramesOf, Written, GInv, GenTypeOK
  <2>2. round' = [round EXCEPT ![This] = @ + frame_period]
    BY <1>4 DEF WriteFrame, This
  <2>3. /\ This \in 1..Len(tasks) /\ Len(tasks') = Len(tasks)
        /\ 1..Len(tasks) = (1..(This - 1)) \cup {This}
    BY <2>1, <1>2 DEF This
  <2>4. /\ round'[This] = round[This] + frame_period
        /\ \A n \in 1..(This - 1) : round'[n] = round[n]
    BY <1>2, <2>1, <2>2, <2>3
  <2>5. AddUpTo(old, round[This]) /\ round[This] \in Nat
    BY <1>2, <2>3 DEF Added
  <2> HIDE DEF old, new
  <2>6. AddUpTo(new, round[This] + frame_period)
    BY <2>1, <2>5, FrameAdded
  <2> SUFFICES ASSUME NEW n \in DOMAIN tasks' PROVE AddUpTo(tasks'[n].frames, round'[n])
    BY DEF Added, AddUpTo, IsTotal
  <2>11. CASE n = This
    BY <2>4, <2>6, <2>11 DEF new
  <2>12. CASE n \in 1..(This - 1)
    <3>1. n \in DOMAIN tasks
      BY <1>2, <2>1, <2>3, <2>12
    <3>2. tasks'[n] = tasks[n] /\ round'[n] = round[n]
      BY <2>1, <2>4, <2>12
    <3>3. AddUpTo(tasks[n].frames, round[n])
      BY <3>1 DEF Added
    <3> QED BY <3>2, <3>3
  <2> QED BY <1>2, <2>3, <2>11, <2>12
<1>5. CASE EndTask \/ WriteMain \/ UNCHANGED genVars
  <2>1. tasks' = tasks /\ round' = round
    BY <1>5 DEF EndTask, WriteMain, genVars
  <2> QED BY <2>1 DEF Added, AddUpTo, IsTotal
<1> QED BY <1>3, <1>4, <1>5 DEF GenNext

AInv == PInv /\ Added /\ Paced

(* What stays the same once a task has started. *)
LEMMA SameTask ==
  ASSUME UNCHANGED <<tasks, round, task, started>>, FirstRow' = FirstRow
  PROVE  /\ \A total : IsTotal(total, tasks[task].frames)' <=> IsTotal(total, tasks[task].frames)
         /\ \A total, k, p : TimeOf(total, k, p)' = TimeOf(total, k, p)
         /\ \A k, p : RowOf(k, p)' = RowOf(k, p)
         /\ \A total, row, r : InPlace(total, row, r)' <=> InPlace(total, row, r)
         /\ Loop' = Loop
<1>1. Loop' = Loop /\ FirstRow' = FirstRow /\ Opening' = Opening
  BY DEF Loop, Opening, Infty
<1>2. \A k, p : RowOf(k, p)' = RowOf(k, p)
  BY <1>1 DEF RowOf
<1>3. \A total, k, p : TimeOf(total, k, p)' = TimeOf(total, k, p)
  BY <1>1 DEF TimeOf
<1>4. \A total, row, r : InPlace(total, row, r)' <=> InPlace(total, row, r)
  BY <1>1, <1>2, <1>3 DEF InPlace
<1>5. \A total : IsTotal(total, tasks[task].frames)' <=> IsTotal(total, tasks[task].frames)
  BY DEF IsTotal
<1> QED BY <1>1, <1>2, <1>3, <1>4, <1>5

LEMMA InPlaceOf ==
  ASSUME NEW total, NEW row, NEW other, NEW r, InPlace(total, row, r),
         other[1].val = row[1].val, other[2].val = row[2].val
  PROVE  InPlace(total, other, r)
BY DEF InPlace

LEMMA SameFirstRow ==
  ASSUME UNCHANGED <<started, trace>>
  PROVE  FirstRow' = FirstRow
BY DEF FirstRow, BareStart, IsBare, ColumnsOf, Infty, BareAbort

(* The task that runs: its loop, and the numbers of its rows and times.    *)
LEMMA LoopFacts ==
  ASSUME PInv, call # "none"
  PROVE  /\ Loop \in Nat \ {0} /\ point \in 1..(Loop + 1) /\ task \in DOMAIN tasks
         /\ round[task] \in Nat /\ round[task] = period_array[task]
         /\ started \in Nat \cup {Infty} /\ Len(trace) \in Nat
         /\ FirstRow \in {0, 1} /\ Opening \in Nat
<1>1. /\ at = "done" /\ task \in DOMAIN tasks /\ Len(tasks[task].frames) >= 1
      /\ point \in 1..(Len(tasks[task].frames) + 1) /\ started \in Nat \cup {Infty}
  BY DEF PInv, Position
<1>2. /\ tasks \in Seq(TaskTexts) /\ round \in Seq(Nat) /\ period_array \in Seq(Periods)
      /\ Len(round) = Len(tasks) /\ Len(tasks) = Len(period_array)
  BY <1>1 DEF PInv, GInv, GenTypeOK, Lists
<1>3. tasks[task] \in TaskTexts /\ task \in DOMAIN round /\ task \in DOMAIN period_array
  BY <1>1, <1>2
<1>4. Len(tasks[task].frames) \in Nat
  BY <1>3 DEF TaskTexts
<1>5. round[task] = period_array[task]
  BY <1>3 DEF PInv, GInv, FramesFillPeriod
<1>6. Len(trace) \in Nat
  BY DEF PInv, Row
<1> QED BY <1>1, <1>2, <1>3, <1>4, <1>5, <1>6 DEF Loop, FirstRow, Opening

(* A call that only moves the row at hand, or adds to it behind its second *)
(* field, leaves all rows in their places.                                 *)
LEMMA PaceKept ==
  ASSUME AInv, call # "none", call' # "none",
         UNCHANGED <<tasks, round, task, started, last_arrival>>, FirstRow' = FirstRow,
         \/ /\ UNCHANGED trace
            /\ line' = <<>> <=> line = <<>>
            /\ line # <<>> => line'[1] = line[1] /\ line'[2] = line[2]
         \/ /\ line # <<>> /\ line' = <<>>
            /\ Len(trace') = Len(trace) + 1
            /\ \A r \in 1..Len(trace) : trace'[r] = trace[r]
            /\ \A m \in 1..5 : trace'[Len(trace) + 1][m] = line[m],
         \A total : /\ IsTotal(total, tasks[task].frames) /\ total[Loop] = round[task]
                    /\ Reached(total, Stage)
                    => Reached(total, Stage')
  PROVE  Paced'
<1>1. PICK total : /\ IsTotal(total, tasks[task].frames) /\ total[Loop] = round[task]
                   /\ InStep(total)
  BY DEF AInv, Paced
<1>2. IsTotal(total, tasks[task].frames)' /\ Loop' = Loop
  BY <1>1, SameTask
<1>3. Len(trace) \in Nat
  BY LoopFacts DEF AInv
<1>4. \A row, r : InPlace(total, row, r)' <=> InPlace(total, row, r)
  BY SameTask
<1>5. Lines' = Lines
  BY <1>3 DEF Lines
<1>6. \A p : Reached(total, p)' <=> Reached(total, p)
  <2>1. \A k, p : TimeOf(total, k, p)' = TimeOf(total, k, p) /\ RowOf(k, p)' = RowOf(k, p)
    BY SameTask
  <2> QED BY <1>5, <2>1 DEF Reached
<1>7. /\ \A r \in 1..Len(trace') : IsBare(trace'[r]) \/ InPlace(total, trace'[r], r)
      /\ line' # <<>> => InPlace(total, line', Len(trace') + 1)
  <2>1. CASE UNCHANGED trace /\ (line' = <<>> <=> line = <<>>)
             /\ (line # <<>> => line'[1] = line[1] /\ line'[2] = line[2])
    <3>1. \A r \in 1..Len(trace') : IsBare(trace'[r]) \/ InPlace(total, trace'[r], r)
      BY <1>1, <2>1 DEF InStep
    <3>2. ASSUME line' # <<>> PROVE InPlace(total, line', Len(trace') + 1)
      BY <1>1, <2>1, <3>2, InPlaceOf DEF InStep
    <3> QED BY <3>1, <3>2
  <2>2. CASE /\ line # <<>> /\ line' = <<>>
             /\ Len(trace') = Len(trace) + 1
             /\ \A r \in 1..Len(trace) : trace'[r] = trace[r]
             /\ \A m \in 1..5 : trace'[Len(trace) + 1][m] = line[m]
    <3>1. \A r \in 1..Len(trace) : IsBare(trace'[r]) \/ InPlace(total, trace'[r], r)
      BY <1>1, <2>2 DEF InStep
    <3>2. InPlace(total, trace'[Len(trace) + 1], Len(trace) + 1)
      <4>1. trace'[Len(trace) + 1][1] = line[1] /\ trace'[Len(trace) + 1][2] = line[2]
        BY <2>2
      <4>2. InPlace(total, line, Len(trace) + 1)
        BY <1>1, <2>2 DEF InStep
      <4> QED BY <4>1, <4>2, InPlaceOf
    <3> QED BY <1>3, <2>2, <3>1, <3>2
  <2> QED BY <2>1, <2>2
<1>8. Reached(total, Stage)'
  <2>1. Reached(total, Stage')
    BY <1>1 DEF InStep
  <2>2. PICK p : p = Stage'
    OBVIOUS
  <2>3. Reached(total, p)'
    BY <1>6, <2>1, <2>2
  <2> QED BY <2>2, <2>3 DEF Reached
<1>9. InStep(total)'
  BY <1>4, <1>7, <1>8 DEF InStep, IsBare, ColumnsOf, BareAbort
<1> QED BY <1>1, <1>2, <1>9 DEF Paced

(* The first round has no round before it; and the rounds follow on. *)
LEMMA FirstRound ==
  ASSUME PInv, call # "none", NEW total, IsTotal(total, tasks[task].frames)
  PROVE  TimeOf(total, 0, 1) = Opening * UsPerMs /\ RowOf(0, 1) = FirstRow
<1>1. /\ round[task] \in Nat /\ Loop \in Nat /\ FirstRow \in {0, 1} /\ Opening \in Nat
      /\ total[0] = 0
  BY LoopFacts DEF IsTotal
<1>2. 0 * round[task] = 0 /\ 0 * Loop = 0 /\ 1 - 1 = 0
  BY <1>1
<1>3. TimeOf(total, 0, 1) = (Opening + 0 + 0) * UsPerMs
  BY <1>1, <1>2 DEF TimeOf
<1>4. Opening + 0 + 0 = Opening /\ FirstRow + 0 + 0 = FirstRow
  BY <1>1
<1> QED BY <1>2, <1>3, <1>4 DEF RowOf

LEMMA OneMore ==
  ASSUME NEW k \in Nat, NEW n \in Nat
  PROVE  (k + 1) * n = k * n + n /\ k * n \in Nat
BY Z3

LEMMA NextRound ==
  ASSUME PInv, call # "none", NEW total, IsTotal(total, tasks[task].frames),
         total[Loop] = round[task], NEW k \in Nat
  PROVE  /\ TimeOf(total, k, Loop + 1) = TimeOf(total, k + 1, 1)
         /\ RowOf(k, Loop + 1) = RowOf(k + 1, 1)
<1>1. /\ round[task] \in Nat /\ Loop \in Nat /\ FirstRow \in Nat /\ Opening \in Nat
      /\ total[0] = 0
  BY LoopFacts DEF IsTotal
<1>2. /\ (k + 1) * round[task] = k * round[task] + round[task]
      /\ (k + 1) * Loop = k * Loop + Loop
      /\ k * round[task] \in Nat /\ k * Loop \in Nat
  BY <1>1, OneMore
<1>3. Opening + k * round[task] + total[(Loop + 1) - 1]
        = Opening + (k + 1) * round[task] + total[1 - 1]
  <2>1. (Loop + 1) - 1 = Loop /\ 1 - 1 = 0
    BY <1>1
  <2> QED BY <1>1, <1>2, <2>1
<1>4. FirstRow + k * Loop + ((Loop + 1) - 1) = FirstRow + (k + 1) * Loop + (1 - 1)
  BY <1>1, <1>2
<1> QED BY <1>3, <1>4 DEF TimeOf, RowOf

LEMMA NextFrame ==
  ASSUME PInv, call # "none", NEW total, IsTotal(total, tasks[task].frames),
         NEW k \in Nat, point # 1
  PROVE  /\ TimeOf(total, k, point) = TimeOf(total, k, point - 1) + Interval * UsPerMs
         /\ RowOf(k, point) = RowOf(k, point - 1) + 1
<1>1. /\ round[task] \in Nat /\ Loop \in Nat \ {0} /\ FirstRow \in Nat /\ Opening \in Nat
      /\ point \in 1..(Loop + 1)
  BY LoopFacts
<1>2. point - 1 \in 1..Loop /\ (point - 1) - 1 \in 0..Loop /\ point - 1 \in 0..Loop
  BY <1>1
<1>3. /\ total[point - 1] = total[(point - 1) - 1] + Interval
      /\ total[(point - 1) - 1] \in Nat /\ total[point - 1] \in Nat
  BY <1>2 DEF IsTotal, Loop, Interval, FrameAt
<1>4. Interval \in Int
  BY IntervalType DEF PInv, GInv
<1>5. k * round[task] \in Nat /\ k * Loop \in Nat
  BY <1>1
<1> DEFINE a == Opening + k * round[task] + total[(point - 1) - 1]
<1>6. Opening + k * round[task] + total[point - 1] = a + Interval /\ a \in Int
  BY <1>1, <1>3, <1>4, <1>5
<1>7. TimeOf(total, k, point - 1) = a * UsPerMs
  BY DEF TimeOf
<1> HIDE DEF a
<1>8. (a + Interval) * UsPerMs = a * UsPerMs + Interval * UsPerMs
  BY <1>4, <1>6, UnitsAssumption, Z3
<1>9. FirstRow + k * Loop + (point - 1) = FirstRow + k * Loop + ((point - 1) - 1) + 1
  BY <1>1, <1>5
<1> QED BY <1>6, <1>7, <1>8, <1>9 DEF TimeOf, RowOf

LEMMA PaceRelease == AInv /\ LogRelease => Paced'
<1> SUFFICES ASSUME AInv, LogRelease PROVE Paced'
  OBVIOUS
<1>1. /\ call = "release" /\ call' = "work"
      /\ point' = IF point = Loop + 1 THEN 2 ELSE point + 1
      /\ UNCHANGED <<genVars, last_arrival, trace, task, started>>
  BY DEF LogRelease, Release, Loop
<1>2. line' = <<>> <=> line = <<>>
  <2>1. Interval = Infty => line' = <<>> /\ line = <<>>
    BY ReleaseRow DEF AInv
  <2>2. Interval # Infty => line' # <<>> /\ line # <<>>
    BY ReleaseRow DEF AInv
  <2> QED BY <2>1, <2>2
<1>3. line # <<>> => line'[1] = line[1] /\ line'[2] = line[2]
  BY ReleaseRow DEF AInv
<1>4. UNCHANGED <<tasks, round, task, started, last_arrival>>
  BY <1>1 DEF genVars
<1>5. point \in 1..(Loop + 1) /\ Loop \in Nat \ {0}
  BY <1>1, LoopFacts DEF AInv
<1>6. Stage = point /\ Stage' = IF point = Loop + 1 THEN 1 ELSE point
  BY <1>1, <1>5 DEF Stage
<1>7. ASSUME NEW total, IsTotal(total, tasks[task].frames), total[Loop] = round[task],
             Reached(total, Stage)
      PROVE  Reached(total, Stage')
  <2>1. CASE point # Loop + 1
    BY <1>6, <1>7, <2>1
  <2>2. CASE point = Loop + 1
    <3>1. PICK k \in Nat : last_arrival = TimeOf(total, k, Loop + 1)
                           /\ Lines = RowOf(k, Loop + 1)
      BY <1>5, <1>6, <1>7, <2>2 DEF Reached
    <3>2. k + 1 \in Nat /\ last_arrival = TimeOf(total, k + 1, 1) /\ Lines = RowOf(k + 1, 1)
      BY <1>1, <1>7, <3>1, NextRound DEF AInv
    <3> QED BY <1>6, <2>2, <3>2 DEF Reached
  <2> QED BY <2>1, <2>2
<1>8. UNCHANGED trace /\ FirstRow' = FirstRow
  BY <1>1, SameFirstRow
<1> QED BY <1>1, <1>2, <1>3, <1>4, <1>7, <1>8, PaceKept

LEMMA PaceArrival == AInv /\ LogArrival => Paced'
<1> SUFFICES ASSUME AInv, LogArrival PROVE Paced'
  OBVIOUS
<1>1. /\ call = "arrival" /\ call' = "sleep"
      /\ UNCHANGED <<genVars, task, point, started>>
  BY DEF LogArrival
<1>2. UNCHANGED <<tasks, round, task, started, point>>
  BY <1>1 DEF genVars
<1>3. /\ line = <<>> /\ trace' = trace
      /\ IF Interval = Infty
           THEN line' = <<>> /\ last_arrival' = last_arrival
           ELSE /\ last_arrival' = last_arrival + Interval * UsPerMs
                /\ Len(line') = 2 /\ line' # <<>>
                /\ line'[1].val = point /\ line'[2].val = last_arrival'
  BY ArrivalRow DEF AInv
<1>4. PICK total : /\ IsTotal(total, tasks[task].frames) /\ total[Loop] = round[task]
                   /\ InStep(total)
  BY <1>1 DEF AInv, Paced
<1>5. /\ Loop \in Nat \ {0} /\ point \in 1..(Loop + 1) /\ Len(trace) \in Nat
      /\ Opening \in Nat /\ FirstRow \in {0, 1}
  BY <1>1, LoopFacts DEF AInv
<1>6. Stage = point - 1 /\ Stage' = point /\ Lines = Len(trace)
  BY <1>1, <1>3, <1>5 DEF Stage, Lines
<1>7. Lines' = IF Interval = Infty THEN Len(trace) ELSE Len(trace) + 1
  BY <1>3, <1>5 DEF Lines
<1>8. Interval \in Int /\ (Interval = Infty => point = 1)
  BY <1>1, IntervalType DEF AInv, PInv, GInv
<1>9. \E k \in Nat : last_arrival' = TimeOf(total, k, point) /\ Lines' = RowOf(k, point)
  <2>1. CASE point = 1
    <3>1. last_arrival = 0 /\ Len(trace) = 0
      BY <1>4, <1>6, <2>1 DEF InStep, Reached
    <3>2. Interval = started
      BY <2>1 DEF Interval
    <3>3. TimeOf(total, 0, 1) = Opening * UsPerMs /\ RowOf(0, 1) = FirstRow
      BY <1>1, <1>4, FirstRound DEF AInv
    <3>4. CASE Interval = Infty
      <4>1. Opening * UsPerMs = 0 /\ FirstRow = 0
        <5>1. Opening = 0
          BY <3>2, <3>4 DEF Opening
        <5>2. 0 * UsPerMs = 0
          BY UnitsAssumption
        <5>3. ~BareStart
          BY <1>5, <3>1 DEF BareStart
        <5> QED BY <3>2, <3>4, <5>1, <5>2, <5>3 DEF FirstRow
      <4> QED BY <1>3, <1>7, <2>1, <3>1, <3>3, <3>4, <4>1
    <3>5. CASE Interval # Infty
      <4>1. Opening = Interval /\ FirstRow = 1
        BY <3>2, <3>5 DEF Opening, FirstRow
      <4>2. 0 + Interval * UsPerMs = Interval * UsPerMs
        BY <1>8, UnitsAssumption
      <4> QED BY <1>3, <1>7, <2>1, <3>1, <3>3, <3>5, <4>1, <4>2
    <3> QED BY <3>4, <3>5
  <2>2. CASE point # 1
    <3>1. PICK k \in Nat : last_arrival = TimeOf(total, k, point - 1)
                           /\ Lines = RowOf(k, point - 1)
      BY <1>4, <1>5, <1>6, <2>2 DEF InStep, Reached
    <3>2. /\ TimeOf(total, k, point) = TimeOf(total, k, point - 1) + Interval * UsPerMs
          /\ RowOf(k, point) = RowOf(k, point - 1) + 1
      BY <1>1, <1>4, <2>2, NextFrame DEF AInv
    <3> QED BY <1>3, <1>6, <1>7, <1>8, <2>2, <3>1, <3>2
  <2> QED BY <2>1, <2>2
<1>10. PICK k \in Nat : last_arrival' = TimeOf(total, k, point) /\ Lines' = RowOf(k, point)
  BY <1>9
<1>11. line' # <<>> => InPlace(total, line', Len(trace) + 1)
  <2> SUFFICES ASSUME line' # <<>> PROVE InPlace(total, line', Len(trace) + 1)
    OBVIOUS
  <2>1. Lines' = Len(trace) + 1 /\ line'[1].val = point /\ line'[2].val = last_arrival'
    BY <1>3, <1>7
  <2>2. CASE point = 1
    <3>1. Len(trace) = 0
      BY <1>4, <1>6, <2>2 DEF InStep, Reached
    <3>2. Len(trace) + 1 = 1
      BY <3>1
    <3> QED BY <2>1, <2>2, <3>2 DEF InPlace
  <2>3. CASE point # 1
    <3>1. point \in 2..(Loop + 1)
      BY <1>5, <2>3
    <3> QED BY <1>10, <2>1, <3>1 DEF InPlace
  <2> QED BY <2>2, <2>3
<1>15. FirstRow' = FirstRow
  BY <1>2, <1>3, SameFirstRow
<1>12. Reached(total, Stage)'
  <2>1. TimeOf(total, k, point)' = TimeOf(total, k, point) /\ RowOf(k, point)' = RowOf(k, point)
    <3>1. \A p : TimeOf(total, k, p)' = TimeOf(total, k, p) /\ RowOf(k, p)' = RowOf(k, p)
      BY <1>2, <1>15, SameTask
    <3>2. PICK p : p = point
      OBVIOUS
    <3>3. TimeOf(total, k, p)' = TimeOf(total, k, point) /\ RowOf(k, p)' = RowOf(k, point)
      BY <3>1, <3>2
    <3>4. point' = p
      BY <1>2, <3>2
    <3> QED BY <3>3, <3>4 DEF TimeOf, RowOf
  <2>2. point # 0
    BY <1>5
  <2>3. Stage' = point' /\ point' # 0
    BY <1>2, <1>6, <2>2
  <2> QED BY <1>10, <2>1, <2>3 DEF Reached
<1>13. InStep(total)'
  <2>1. \A row, r : InPlace(total, row, r)' <=> InPlace(total, row, r)
    BY <1>2, <1>15, SameTask
  <2>2. \A r \in 1..Len(trace') : IsBare(trace'[r]) \/ InPlace(total, trace'[r], r)
    BY <1>3, <1>4 DEF InStep
  <2>3. line' # <<>> => InPlace(total, line', Len(trace') + 1)
    BY <1>3, <1>11
  <2> QED BY <1>12, <2>1, <2>2, <2>3 DEF InStep, IsBare, ColumnsOf, BareAbort
<1>14. IsTotal(total, tasks[task].frames)' /\ Loop' = Loop
  BY <1>2, <1>4, <1>15, SameTask
<1> QED BY <1>2, <1>4, <1>13, <1>14 DEF Paced

LEMMA PaceStart == AInv /\ Start => Paced'
<1> SUFFICES ASSUME AInv, Start PROVE Paced'
  OBVIOUS
<1>1. PICK t \in DOMAIN tasks : task' = t
  BY DEF Start
<1>2. /\ last_arrival' = 0 /\ line' = <<>> /\ trace' = <<>> /\ point' = 1 /\ call' = "work"
      /\ tasks' = tasks /\ round' = round
  BY DEF Start, InitTp, genVars
<1>3. PICK total : IsTotal(total, tasks[t].frames)
                   /\ total[Len(tasks[t].frames)] = round[t]
  BY DEF AInv, Added, AddUpTo
<1>4. Loop' = Len(tasks[t].frames) /\ round'[task'] = round[t]
  BY <1>1, <1>2 DEF Loop
<1>5. IsTotal(total, tasks[task].frames)'
  BY <1>1, <1>2, <1>3 DEF IsTotal
<1>6. InStep(total)'
  <2>1. Stage' = 0 /\ Lines' = 0 /\ Len(trace') = 0
    BY <1>2 DEF Stage, Lines
  <2> QED BY <1>2, <2>1 DEF InStep, Reached
<1> QED BY <1>3, <1>4, <1>5, <1>6 DEF Paced

(* A bare abort takes the place of the row that an infinite stp has not.   *)
LEMMA PaceBare ==
  ASSUME AInv, call # "none", call' # "none",
         UNCHANGED <<tasks, round, task, started, last_arrival, point>>,
         call \notin {"sleep", "release"}, call' \notin {"sleep", "release"},
         line = <<>>, line' = <<>>, trace = <<>>, OnlyBare', point = 2, started = Infty
  PROVE  Paced'
<1>1. PICK total : /\ IsTotal(total, tasks[task].frames) /\ total[Loop] = round[task]
                   /\ InStep(total)
  BY DEF AInv, Paced
<1>2. Stage = 1 /\ Stage' = 1 /\ Lines = 0
  BY DEF Stage, Lines
<1>3. Len(trace') = 1 /\ IsBare(trace'[1]) /\ trace' # <<>>
  BY DEF OnlyBare, IsBare, ColumnsOf, BareAbort
<1>4. Lines' = 1 /\ FirstRow = 0 /\ FirstRow' = 1
  <2>1. BareStart' /\ ~BareStart
    BY <1>3 DEF BareStart, IsBare, ColumnsOf, BareAbort
  <2> QED BY <1>3, <2>1 DEF Lines, FirstRow
<1>5. PICK k \in Nat : last_arrival = TimeOf(total, k, 1) /\ Lines = RowOf(k, 1)
  BY <1>1, <1>2 DEF InStep, Reached
<1>6. Loop' = Loop /\ Opening' = Opening /\ Loop \in Nat
  BY LoopFacts DEF AInv, Loop, Opening, Infty
<1>7. RowOf(k, 1)' = Lines'
  <2>1. RowOf(k, 1) = 0 + k * Loop + (1 - 1) /\ RowOf(k, 1)' = 1 + k * Loop + (1 - 1)
    BY <1>4, <1>6 DEF RowOf
  <2>2. k * Loop \in Nat
    BY <1>6
  <2> QED BY <1>2, <1>4, <1>5, <2>1, <2>2
<1>8. TimeOf(total, k, 1)' = TimeOf(total, k, 1)
  BY <1>6 DEF TimeOf
<1>9. InStep(total)'
  <2>1. Reached(total, Stage)'
    BY <1>2, <1>5, <1>7, <1>8 DEF Reached
  <2>2. \A r \in 1..Len(trace') : r = 1
    BY <1>3
  <2>3. \A r \in 1..Len(trace') : IsBare(trace'[r])
    BY <1>3, <2>2
  <2> QED BY <2>1, <2>3 DEF InStep, IsBare, ColumnsOf, BareAbort
<1>10. IsTotal(total, tasks[task].frames)'
  BY <1>1 DEF IsTotal
<1> QED BY <1>1, <1>6, <1>9, <1>10 DEF Paced

LEMMA GeneratorStep == [Next]_vars => [GenNext]_genVars
<1> SUFFICES ASSUME [Next]_vars PROVE GenNext \/ UNCHANGED genVars
  OBVIOUS
<1> QED
  BY DEF Next, Generate, Start, Work, LogExecution, LogEnd, LogArrival, Sleep,
         LogRelease, vars

LEMMA PaceStep == AInv /\ [Next]_vars => AInv'
<1> SUFFICES ASSUME AInv, [Next]_vars PROVE AInv'
  OBVIOUS
<1>9. PInv' /\ Added'
  <2>1. [GenNext]_genVars
    BY GeneratorStep
  <2>2. Added'
    BY <2>1, AddedStep DEF AInv, PInv
  <2> QED BY <2>2, ProfileStep DEF AInv
<1> SUFFICES Paced'
  BY <1>9 DEF AInv
<1>1. CASE call' = "none"
  BY <1>1 DEF Paced
<1>2. CASE call = "none" /\ call' # "none"
  <2>1. Start
    BY <1>2 DEF Next, Generate, Work, LogExecution, LogEnd, LogArrival, Sleep, LogRelease,
            vars, profileVars
  <2> QED BY <2>1, PaceStart
<1>3. ASSUME call # "none", call' # "none",
             Work \/ LogExecution \/ Sleep \/ LogEnd \/ UNCHANGED vars
      PROVE  /\ UNCHANGED <<tasks, round, task, started, last_arrival, point>>
             /\ call' \in {"sleep", "release"} <=> call \in {"sleep", "release"}
  <2> USE DEF genVars, callerVars, logVars, profileVars
  <2>1. CASE Work
    BY <2>1 DEF Work
  <2>2. CASE LogExecution
    BY <2>2 DEF LogExecution, Execution
  <2>3. CASE Sleep
    BY <2>3 DEF Sleep
  <2>4. CASE LogEnd
    BY <2>4 DEF LogEnd, EndId, AbortTime
  <2>5. CASE UNCHANGED vars
    BY <2>5 DEF vars
  <2> QED BY <1>3, <2>1, <2>2, <2>3, <2>4, <2>5
<1>4. ASSUME call # "none", call' # "none",
             Work \/ LogExecution \/ Sleep \/ LogEnd \/ UNCHANGED vars
      PROVE  \A total : Reached(total, Stage) => Reached(total, Stage')
  BY <1>3, <1>4 DEF Stage
<1>5. ASSUME call # "none", call' # "none", Work \/ Sleep \/ UNCHANGED vars
      PROVE  Paced'
  <2>1. trace' = trace /\ line' = line
    BY <1>5 DEF Work, Sleep, vars, logVars
  <2>2. FirstRow' = FirstRow
    BY <1>3, <1>5, <2>1, SameFirstRow
  <2> QED BY <1>3, <1>4, <1>5, <2>1, <2>2, PaceKept
<1>6. ASSUME call # "none", call' # "none", LogExecution
      PROVE  Paced'
  <2>1. /\ trace' = trace /\ (line' = <<>> <=> line = <<>>)
        /\ (line # <<>> => line'[1] = line[1] /\ line'[2] = line[2])
    <3>1. CASE stime = NoTime
      BY <1>6, <3>1, ExecutionRow DEF AInv
    <3>2. CASE stime # NoTime
      <4>1. /\ trace' = trace /\ line # <<>> /\ line' # <<>>
            /\ \A m \in 1..4 : line'[m] = line[m]
        BY <1>6, <3>2, ExecutionRow DEF AInv
      <4> QED BY <4>1
    <3> QED BY <3>1, <3>2
  <2>2. FirstRow' = FirstRow
    BY <1>3, <1>6, <2>1, SameFirstRow
  <2> QED BY <1>3, <1>4, <1>6, <2>1, <2>2, PaceKept
<1>7. ASSUME call # "none", call' # "none", LogEnd
      PROVE  Paced'
  <2>1. CASE stime = NoTime
    <3>1. /\ line = <<>> /\ line' = <<>> /\ trace = <<>>
          /\ trace' = <<>> \/ (OnlyBare' /\ point = 2 /\ started = Infty)
      BY <1>7, <2>1, EndRow DEF AInv
    <3>2. CASE trace' = <<>>
      <4>1. trace' = trace /\ FirstRow' = FirstRow
        BY <1>3, <1>7, <3>1, <3>2, SameFirstRow
      <4> QED BY <1>3, <1>4, <1>7, <3>1, <4>1, PaceKept
    <3>3. CASE OnlyBare' /\ point = 2 /\ started = Infty
      <4>1. call \notin {"sleep", "release"} /\ call' \notin {"sleep", "release"}
        BY <1>7 DEF LogEnd
      <4> QED BY <1>3, <1>7, <3>1, <3>3, <4>1, PaceBare
    <3> QED BY <3>1, <3>2, <3>3
  <2>2. CASE stime # NoTime
    <3>1. /\ line # <<>> /\ line' = <<>>
          /\ Len(trace') = Len(trace) + 1
          /\ \A r \in 1..Len(trace) : trace'[r] = trace[r]
          /\ \A m \in 1..5 : trace'[Len(trace) + 1][m] = line[m]
          /\ ~IsBare(trace'[Len(trace) + 1])
      BY <1>7, <2>2, EndRow DEF AInv
    <3>2. BareStart' <=> BareStart
      <4>1. trace \in Seq(Rows) /\ trace' \in Seq(Rows)
        BY <1>9 DEF AInv, PInv, Row
      <4>2. CASE trace = <<>>
        <5>1. Len(trace) + 1 = 1
          BY <4>2
        <5> QED BY <3>1, <4>2, <5>1 DEF BareStart, IsBare, ColumnsOf, BareAbort
      <4>3. CASE trace # <<>>
        <5>1. 1 \in 1..Len(trace) /\ trace' # <<>>
          BY <3>1, <4>1, <4>3
        <5> QED BY <3>1, <4>3, <5>1 DEF BareStart, IsBare, ColumnsOf, BareAbort
      <4> QED BY <4>2, <4>3
    <3>3. FirstRow' = FirstRow
      BY <1>3, <1>7, <3>2 DEF FirstRow, Infty
    <3> QED BY <1>3, <1>4, <1>7, <3>1, <3>3, PaceKept
  <2> QED BY <2>1, <2>2
<1>8. CASE call # "none" /\ call' # "none" /\ (Generate \/ Start)
  <2>1. ~Generate
    <3>1. GenNext => at # "done"
      BY DEF GenNext, StartTask, WriteFrame, EndTask, WriteMain
    <3> QED BY <1>8, <3>1 DEF AInv, PInv, Position, Generate
  <2> QED BY <1>8, <2>1, PaceStart
<1> QED BY <1>1, <1>2, <1>5, <1>6, <1>7, <1>8, PaceArrival, PaceRelease DEF Next

LEMMA BareIsNoFragment == ASSUME NEW w, IsFragment(w) PROVE ~IsBare(w)
<1>1. Len(BareAbort) = 2 /\ Len(EndedRow) = 6 /\ Len(AbortedRow) = 7
  BY DEF BareAbort, EndedRow, AbortedRow, Header
<1> QED BY <1>1 DEF IsFragment, IsBare

(* Rows a round apart are of the same timing point, one round later. *)
LEMMA RoundLater ==
  ASSUME NEW n \in Nat \ {0}, NEW k \in Nat, NEW j \in Nat,
         NEW p \in 2..(n + 1), NEW q \in 2..(n + 1), NEW o \in Int,
         (o + k * n + (p - 1)) + n = o + j * n + (q - 1)
  PROVE  j = k + 1 /\ q = p
<1>1. k * n \in Int /\ j * n \in Int /\ (k + 1) * n = k * n + n
  BY Z3
<1>2. (k + 1) * n + p = j * n + q
  BY <1>1
<1>3. j = k + 1
  <2>1. CASE j > k + 1
    <3>1. j * n >= (k + 1) * n + n
      BY <2>1, Z3
    <3> QED BY <1>1, <1>2, <3>1
  <2>2. CASE j < k + 1
    <3>1. (k + 1) * n >= j * n + n
      BY <2>2, Z3
    <3> QED BY <1>1, <1>2, <3>1
  <2> QED BY <2>1, <2>2
<1> QED BY <1>1, <1>2, <1>3

(* From one round of its loop to the next each frame of a generated task   *)
(* arrives exactly one period later, as its trace says: for every task set *)
(* the generator can write, and however late the calls of log.c come.      *)
THEOREM ArrivalsAlwaysPeriodic == Spec => []ArrivalsPeriodic
<1>1. Init => AInv
  <2> SUFFICES ASSUME Init PROVE Added /\ Paced
    BY ProfileInit DEF AInv
  <2>1. tasks = <<>> /\ call = "none"
    BY DEF Init, GenInit
  <2> QED BY <2>1 DEF Added, Paced
<1>2. AInv => ArrivalsPeriodic
  <2> DEFINE n == Len(tasks[task].frames)
  <2> SUFFICES ASSUME AInv, task # 0, NEW r \in DOMAIN trace, r + n \in DOMAIN trace,
                      ~IsBare(trace[r]), Value(trace[r], "SRC") # 1
               PROVE  /\ Value(trace[r + n], "SRC") = Value(trace[r], "SRC")
                      /\ Value(trace[r + n], "ARRIVAL") - Value(trace[r], "ARRIVAL")
                           = period_array[task] * UsPerMs
    BY DEF ArrivalsPeriodic
  <2>1. call # "none" /\ trace \in Seq(Rows) /\ n = Loop
    BY DEF AInv, PInv, Position, Row, Loop
  <2>2. /\ Loop \in Nat \ {0} /\ round[task] \in Nat /\ round[task] = period_array[task]
        /\ Opening \in Nat /\ FirstRow \in Int
    BY <2>1, LoopFacts DEF AInv
  <2> DEFINE s == r + Loop
  <2>3. r + n = s /\ DOMAIN trace = 1..Len(trace) /\ s # 1 /\ s \in DOMAIN trace
    BY <2>1, <2>2
  <2>4. \A m \in {r, s} : /\ Value(trace[m], "SRC") = trace[m][1].val
                          /\ Value(trace[m], "ARRIVAL") = trace[m][2].val
                          /\ ~IsBare(trace[m])
    <3>1. \A m \in {r, s} : trace[m] \in Rows /\ IsFragment(trace[m])
      BY <2>1, <2>3 DEF AInv, PInv, RowsOfOneFragment
    <3>2. ~IsBare(trace[s])
      BY <3>1, BareIsNoFragment
    <3> QED BY <3>1, <3>2, WholeRow
  <2>5. PICK total : /\ IsTotal(total, tasks[task].frames)
                     /\ \A m \in 1..Len(trace) : IsBare(trace[m]) \/ InPlace(total, trace[m], m)
    BY <2>1 DEF AInv, Paced, InStep
  <2> HIDE DEF n
  <2>6. PICK k \in Nat : /\ trace[r][1].val \in 2..(Loop + 1)
                         /\ r = RowOf(k, trace[r][1].val)
                         /\ trace[r][2].val = TimeOf(total, k, trace[r][1].val)
    BY <2>3, <2>4, <2>5 DEF InPlace
  <2>7. PICK j \in Nat : /\ trace[s][1].val \in 2..(Loop + 1)
                         /\ s = RowOf(j, trace[s][1].val)
                         /\ trace[s][2].val = TimeOf(total, j, trace[s][1].val)
    BY <2>3, <2>4, <2>5 DEF InPlace
  <2>8. PICK p, q : p = trace[r][1].val /\ q = trace[s][1].val
    OBVIOUS
  <2>9. j = k + 1 /\ q = p
    <3>1. p \in 2..(Loop + 1) /\ q \in 2..(Loop + 1)
      BY <2>6, <2>7, <2>8
    <3>2. (FirstRow + k * Loop + (p - 1)) + Loop = FirstRow + j * Loop + (q - 1)
      BY <2>6, <2>7, <2>8 DEF RowOf
    <3> QED BY <2>2, <3>1, <3>2, RoundLater
  <2>10. TimeOf(total, k + 1, p) - TimeOf(total, k, p) = round[task] * UsPerMs
    <3>1. p - 1 \in 1..Loop /\ p - 1 \in 0..Loop
      BY <2>2, <2>6, <2>8
    <3>2. total[p - 1] \in Nat
      BY <2>5, <3>1 DEF IsTotal, Loop
    <3> DEFINE a == Opening + k * round[task] + total[p - 1]
    <3>3. a \in Int /\ Opening + (k + 1) * round[task] + total[p - 1] = a + round[task]
      <4>1. (k + 1) * round[task] = k * round[task] + round[task] /\ k * round[task] \in Nat
        BY <2>2, Z3
      <4> QED BY <2>2, <3>2, <4>1
    <3>4. TimeOf(total, k, p) = a * UsPerMs /\ TimeOf(total, k + 1, p) = (a + round[task]) * UsPerMs
      BY <3>3 DEF TimeOf
    <3> HIDE DEF a
    <3>5. (a + round[task]) * UsPerMs - a * UsPerMs = round[task] * UsPerMs
      BY <2>2, <3>3, UnitsAssumption, Z3
    <3> QED BY <3>4, <3>5
  <2> QED BY <2>2, <2>3, <2>4, <2>6, <2>7, <2>8, <2>9, <2>10
<1> QED BY <1>1, <1>2, PaceStep, PTL DEF Spec

(* Profiling leaves the generator alone: what holds of every task set it   *)
(* writes holds of the one whose task is profiled.                         *)
THEOREM GeneratorKept == Spec => GenSpec
<1>1. Init => GenInit
  BY DEF Init
<1> QED BY <1>1, GeneratorStep, PTL DEF Spec, GenSpec
=============================================================================
