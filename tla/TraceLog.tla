------------------------------ MODULE TraceLog ------------------------------
(***************************************************************************)
(* log.c, the functions an instrumented program calls to write its trace.  *)
(* A row of the trace is put together by four calls that know nothing of   *)
(* each other: arrival and release when a fragment starts, execution and   *)
(* end_id (or abort_time) when it ends.  Each decides by itself, from the  *)
(* interval of the timing point or from the start time the caller keeps,   *)
(* whether it writes its fields.                                           *)
(*                                                                         *)
(* Times are those of the code with fewer nanoseconds in a microsecond and *)
(* fewer microseconds in a second.                                         *)
(***************************************************************************)
EXTENDS Integers, Sequences

CONSTANTS NsPerUs,   \* nanoseconds in a microsecond
          UsPerMs,   \* microseconds in a millisecond, 10 ^ (res + 6)
          UsPerSec   \* microseconds in a second

ASSUME UnitsAssumption ==
  NsPerUs \in Nat \ {0} /\ UsPerMs \in Nat \ {0} /\ UsPerSec \in Nat \ {0}

VARIABLES clock,         \* CLOCK_REALTIME, in nanoseconds
          itime,         \* when the program started
          stime,         \* when the fragment started; 0 before the first
          last_arrival,  \* in microseconds since the program started
          line,          \* the fields of the row that is being written
          trace          \* the rows below the header

callerVars == <<itime, stime, last_arrival>>
logVars == <<clock, callerVars, line, trace>>

Infty == -1404
NsPerSec == NsPerUs * UsPerSec

Timespecs == [tv_sec : Nat, tv_nsec : 0..(NsPerSec - 1)]
NoTime == [tv_sec |-> 0, tv_nsec |-> 0]
ClockGettime == [tv_sec |-> clock \div NsPerSec, tv_nsec |-> clock % NsPerSec]

-----------------------------------------------------------------------------
DiffNotBorrowed(start, end) ==
  IF end.tv_nsec - start.tv_nsec < 0
    THEN [tv_sec |-> end.tv_sec - start.tv_sec,
          tv_nsec |-> NsPerSec + end.tv_nsec - start.tv_nsec]
    ELSE [tv_sec |-> end.tv_sec - start.tv_sec, tv_nsec |-> end.tv_nsec - start.tv_nsec]
log_diff_timespec(start, end) ==
  IF end.tv_nsec - start.tv_nsec < 0
    THEN [tv_sec |-> end.tv_sec - start.tv_sec - 1,
          tv_nsec |-> NsPerSec + end.tv_nsec - start.tv_nsec]
    ELSE [tv_sec |-> end.tv_sec - start.tv_sec, tv_nsec |-> end.tv_nsec - start.tv_nsec]

log_timespec_to_us(t) == t.tv_sec * UsPerSec + t.tv_nsec \div NsPerUs

(* The header, and what a call that writes a field means by its value: the *)
(* file has the values only, separated by commas.                          *)
Header == <<"SRC", "ARRIVAL", "RELEASE", "JITTER", "EXECUTION", "ABORT", "DST">>
Columns == {Header[n] : n \in DOMAIN Header}
Field(col, val) == <<[col |-> col, val |-> val]>>

(* log_trace_init_tp writes the header and clears the caller's arrival.    *)
InitTp ==
  /\ last_arrival' = 0
  /\ line' = <<>>
  /\ trace' = <<>>

ArrivalAlways(tp, interval) ==
  LET current_arrival == last_arrival + interval * UsPerMs IN
  /\ last_arrival' = current_arrival
  /\ line' = line \o Field("SRC", tp) \o Field("ARRIVAL", current_arrival)
  /\ UNCHANGED <<clock, itime, stime, trace>>
Arrival(tp, interval) ==
  LET current_arrival == last_arrival + interval * UsPerMs IN
  /\ IF interval = Infty
       THEN UNCHANGED <<last_arrival, line>>
       ELSE /\ last_arrival' = current_arrival
            /\ line' = IF tp = -1 THEN line
                       ELSE line \o Field("SRC", tp) \o Field("ARRIVAL", current_arrival)
  /\ UNCHANGED <<clock, itime, stime, trace>>

Release(interval) ==
  LET release_time == log_timespec_to_us(log_diff_timespec(itime, ClockGettime)) IN
  /\ IF interval = Infty
       THEN UNCHANGED <<stime, line>>
       ELSE /\ line' = line \o Field("RELEASE", release_time)
                            \o Field("JITTER", release_time - last_arrival)
            /\ stime' = ClockGettime
  /\ UNCHANGED <<clock, itime, last_arrival, trace>>

Execution ==
  /\ line' = IF log_timespec_to_us(stime) = 0 THEN line
             ELSE line \o Field("EXECUTION",
                      log_timespec_to_us(ClockGettime) - log_timespec_to_us(stime))
  /\ UNCHANGED <<clock, callerVars, trace>>

EndId(id) ==
  /\ IF id # 0 /\ log_timespec_to_us(stime) # 0
       THEN trace' = Append(trace, line \o Field("DST", id)) /\ line' = <<>>
       ELSE UNCHANGED <<trace, line>>
  /\ UNCHANGED <<clock, callerVars>>

AbortTime ==
  /\ trace' = Append(trace, line \o Field("ABORT", 0) \o Field("DST", 0))
  /\ line' = <<>>
  /\ UNCHANGED <<clock, callerVars>>

-----------------------------------------------------------------------------
ColumnsOf(row) == [n \in DOMAIN row |-> row[n].col]
Value(row, col) == row[CHOOSE n \in DOMAIN row : row[n].col = col].val

Rows == Seq([col : Columns, val : Int])

LogTypeOK ==
  /\ clock \in Nat
  /\ itime \in Timespecs /\ stime \in Timespecs
  /\ last_arrival \in Int
  /\ line \in Rows
  /\ trace \in Seq(Rows)

(* The rows of a fragment: one that abort_time closes, with the id 0, has  *)
(* a value under each name of the header; one that end_id closes with the  *)
(* id of a timing point knows of no ABORT and is one value short, so that  *)
(* in the file the id stands under ABORT (log.c 48, 99, 105).              *)
EndedRow == <<"SRC", "ARRIVAL", "RELEASE", "JITTER", "EXECUTION", "DST">>
AbortedRow == Header
IsFragment(row) == ColumnsOf(row) = IF Value(row, "DST") = 0 THEN AbortedRow ELSE EndedRow

(* What abort_time writes where no fragment was released: it does not ask  *)
(* for a start time, as execution and end_id do.                           *)
BareAbort == <<"ABORT", "DST">>
IsBare(row) == ColumnsOf(row) = BareAbort

(* Fragments of one task do not overlap in its trace: release and          *)
(* execution time are cut down to microseconds by different roads, which   *)
(* costs at most one (log.c 73, 91).                                       *)
FragmentsApart ==
  \A n \in DOMAIN trace :
    n > 1 /\ ~IsBare(trace[n - 1])
      => Value(trace[n - 1], "RELEASE") + Value(trace[n - 1], "EXECUTION")
           <= Value(trace[n], "RELEASE") + 1
=============================================================================
