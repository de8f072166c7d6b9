# A verification project for the Timed C end-to-end toolchain

The repository drives a chain of tools from a Timed C program to its *weakly hard*
timing constraint: by which factor may all worst-case execution times grow before more
than `i` of `k` consecutive deadlines are missed? This directory holds TLA+ models of the
chain, TLC configurations that check them on small instances, and proofs that TLAPS
checks for every value of the constants. Source lines below are of
`sensitivity-analysis/src/sensitivity.ml` unless another file is named.

## 1. Inventory: the parts of the system

| Part | State it keeps | Operations | Talks to |
|---|---|---|---|
| Initial upper bound (`calculate_utilization`, `max_initial_upper_bound_updated`, first half of `sensitivity`, 594-623) | none of its own; `sa_time` | utilization cap, leeway of each job, `delta_sup` | reads `input.csv`, `job.csv`, `job.rta.csv`; calls nptest |
| Margin search (`iter_bsearch`, `min_index`, `bsearch`, the tables, 185-256, 521-559, 624-639) | arrays `delta_min`, `delta_max`, indices `l`, `u`, `slist`, `sa_time` | pick an interval, halve it, record an answer, print | calls `calculate_misses` |
| One analysis (`calculate_misses`, 445-461) | files `job.csv`, `action.csv`, `job.rta.csv`, `job.mk` | `scale_input`, nptest, `create_mk_analysis_csv` | nptest (external) through files |
| Miss counting (367-376, 410-441) | pure | slack of each job, windows of k jobs, sum over tasks | called by one analysis |
| `e2e sens` (`src/command.ml` 169-188) | files `job_edf.csv`, `action.csv`, `job.csv`, `input`, `orginal_action` | ktc, three `cp`, the sensitivity program | shell commands, statuses ignored |
| `e2e compile`, `e2e wcet` (`src/command.ml` 97-166, 191-226) | the C file, `a.out` | look up options, hard deadline check, ktc, gcc, run the program | shell commands, statuses ignored |
| Hard deadline check (`src/wcet.ml`, `static-analysis/calculate_wcet.py`, `make_trace.py`) | `.wcet` files, traces and their backups | static WCET per fragment, rewrite traces in place, verdict | called by `e2e compile`; KTA/OTAWA, ktc, nptest through files |
| Interface scripts (`static-analysis/interface_*.py`, `timedc-wcet-interface.py`) | output files | cut tasks out of a source text, write stubs | KTA/OTAWA |
| Option parser (`ext/ucamlib/src/uargs.ml` 16-81, 123-136) | options and arguments found, last option, type of argument expected | one word at a time; lookups | called by the e2e commands |
| Simulation bound and `sense.ml` | files | single binary search | not called: the call is commented out (607), `sense.ml` is in no build target |
| Trace logger (`profile-test/log.c`) | trace file; the caller's last arrival and start time | arrival, release, execution, end or abort | called by instrumented programs, in the order ktc generates |
| Generator (`rtss-evaluation/gen-tsk.c`) | frame period, sum cut off so far, count | draws tasks, cuts frames, writes Timed C text | evaluation scripts; its programs are compiled and profiled |
| ucamlib, scripts, Docker, TBB, libraries, examples | - | helpers, I/O, third-party | - |
| ktc, np-schedulability-analysis | git submodules, no source here | external, modelled from their calls | files |

Everything is sequential: one e2e process runs one shell command at a time, one
sensitivity process calls one nptest at a time. What makes the code hard to test is
therefore not interleaving but *long sequences* and *files*:

* the search works on two arrays through indices an external tool answers, skips
  intervals and comes back, and its stop test compares floats;
* the external tool may fail or time out (`-l 1800`), its status is bound to `ret` and
  never looked at, and the file of an earlier call is still there;
* the same file names are written by ktc and by the search, by this run and the last;
* a word of a command line means what the word before makes of it, and an exception may
  pass through handlers meant for something else;
* a row of a trace is written by four functions that decide on their own whether to write;
* any command may be killed between two writes, or interrupted from the keyboard, which
  kills only the child of `Sys.command`, so that the chain goes on;
* counts are taken over windows that wrap round the job list, and everything after them
  relies on their being bounded and monotone.

Correctness of each part, in a sentence: the search ends, never leaves its arrays, never
invents or forgets an analysis, and prints margins within epsilon of a factor that is
worse; an analysis counted for a factor was made for that factor; the count is the worst
window of the endless schedule, bounded by the k's and monotone; the bound is where
nothing is left to search; the files analysed are those of the program at hand, unscaled;
hard deadlines are judged with static times of the program at hand; a command line is read
as its grammar says and a wrong one blamed on the wrong word; a command runs what it has
built; a generated task repeats with its period, and each row of its trace has the fields of
one fragment.

## 2. Modules

| Module | Models | Checked by | Proofs |
|---|---|---|---|
| `DeltaSearch` | the search, from `delta_sup` on | `search_*` | `DeltaSearch_proofs` |
| `MarginTable` | abstract: what a sensitivity analysis promises | as a PROPERTY of `DeltaSearch` | refinement in `DeltaSearch_proofs` |
| `SensitivityRun`, `MCSensitivityRun` | `DeltaSearch` with its files and failures | `run_*` | `SensitivityRun_proofs` |
| `MissCount` | the counting functions | `miss_count_bound` | `UpperBound_proofs` |
| `UpperBound`, `MCUpperBound` | `delta_sup`; extends `MissCount` | `miss_count_bound` | `UpperBound_proofs` |
| `SensCommand` | repeated `e2e sens` in one directory | `sens`, `sens_original` | `SensCommand_proofs` |
| `HardDeadline`, `MCHardDeadline` | repeated `e2e compile --static-analysis` in one directory | `hard_deadline`, `hard_fragments` | `HardDeadline_proofs` |
| `HardVerdict` | the verdict on hard deadlines; extends `MissCount` | `miss_count_bound` | `UpperBound_proofs` |
| `OptionParser` | the word loop of the parser and its lookups | `e2e_command`, `e2e_negative` | `E2eCommand_proofs` |
| `E2eCommand`, `MCE2eCommand` | `e2e compile` and `e2e wcet` from the command line on; extends `OptionParser` | `e2e_command` | `E2eCommand_proofs` |
| `GenTaskSet` | the task set generator | `profiled_task` | `GenTaskSet_proofs` |
| `TraceLog` | the functions of `log.c` | `profiled_task` | `ProfiledTask_proofs` |
| `ProfiledTask`, `MCProfiledTask` | a generated task that is profiled; composes `GenTaskSet` and `TraceLog` | `profiled_task` | `ProfiledTask_proofs` |

### DeltaSearch

`pc` is the place in the program; `M`, `delta_min`, `delta_max`, `l`, `u`, `slist`,
`sa_time` are the variables of the code (`l` is `i` of `iter_bsearch`). Actions: `Start`
(the analysis at `delta_sup` and the arrays, 626-631), `NextInterval` and `Report` (the
two branches of `iter_bsearch`), `Return` and `Probe` (the two branches of `bsearch`),
`ProbeOutOfBounds` (the uncaught `Invalid_argument` of an array write), `Ended`.

Abstractions. A float factor is a number of grid steps in `0..DeltaSup` and halving rounds
down; `Epsilon >= 2` grid steps stands for an epsilon well above the resolution of floats,
without which halving need not make progress in the code either (epsilon is
`epsilon_resolution *. delta_sup`, 625, with 0.05 in the documentation). `slist` is a set
and holds factor and total only; the per-task counts are printed and not computed with.
An analysis answers any number in `0..MaxMisses`. `Sustainable` says that larger factors
never give fewer misses than smaller ones gave. The code relies on this without checking;
it is what the response-time analysis claims of itself, and `MissCount!CountSustainable`,
proved for any schedule, shows that the counting part keeps it. It is *not* assumed in the run `search_any`, nor in
two of the theorems. `MaxCalls` bounds the analyses so that the unsustainable searches,
which need not end, stay finite; the other runs never reach it.

### MarginTable

State `known`, `published`, `margins`. It knows nothing of arrays or of the order of
work: each analysis must lie strictly inside an interval that is still too wide, the
table may be published only when no two neighbouring analyses enclose an open interval,
and it then holds the largest factor of every number of misses, only the row of
`delta_sup` itself being optional. `DeltaSearch` implements it under the mapping
`known <- slist`, `margins <-` the printed summary.

### SensitivityRun

Splits each analysis into `ScaleInput`, `Nptest` and `Count` (or `CountUnusable`, where
`Csv.load`, `List.map2` or the pattern of line 376 raises), with the factor of `job.csv`
and the contents of `job.rta.csv` as state. `Leftovers` are `job.rta.csv` files that an
earlier analysis or run left in the directory; `truth` is a history of what nptest really
computed. `NptestFails` leaves the file alone. Up to the first failure every step is one of
`DeltaSearch` or a stutter (`SearchUntilFailure`), whatever an earlier run left in the directory.

### MissCount, UpperBound and HardVerdict

These modules are functions over rows of the two csv files. The behaviours of `MissCount`
build the inputs (rows are appended in order of release, completion times grow, which is
the effect of scaling) so that the properties are evaluated on every small input;
`UpperBound` extends it and shares the behaviours. A list that the code filters out of a file
is the rows of the file in order (`NthRow`). `WorstWindow` compares the count with the schedule
repeated for ever (`JobAt`, `LateFrom`), which has no lists and no `%`. In `UpperBound` the float
factors are exact fractions, and `UpperBound!Beyond` is `MissCount` for the completion times one
unit of cost above the largest leeway. `HardVerdict` is `check_list` of `wcet.ml` over the same rows and a third file,
`jobkind.csv`, which gives each task the number and kind of one fragment. `HardKept` says what
a positive verdict is worth. Since `find_job_id` divides by the id of the job, the jobs looked
at are those whose id divides the number of the fragment, job 0 among them; for a fragment of
number 0 these are all, and the property then says that the miss count of `sensitivity.ml`
is 0 as well, although the two programs count a slack of 0 differently.

### SensCommand

A file is reduced to the version of the program it belongs to and how often its execution
times were scaled since ktc wrote them. One phase per shell command and per file written;
`End` is the end of the command, a missing input file or a kill of the whole command,
possible in every phase. Ktc may reject the program, and an interrupt from the keyboard
may stop ktc after one of its files (`KtcWrites`) or stop the chain of copies
(`CopiesStop`); in each case the next shell command follows, as in the code, because
`Sys.command` waits for its child with SIGINT ignored and its status is thrown away. The
history variable `mishaps` records which of the two has ever happened, so that each
property can say up to which mishap it holds. `MaxVersion` and `MaxScaled` bound the edits
and how often a file can be scaled in turn.

### HardDeadline

`main_wcet` (`src/wcet.ml` 103-121) with the two scripts it calls, for any number of
commands with edits and new profiles (`e2e wcet --run`) in between. `phase` is the shell
command at work: `ktc` (`Ktc`), `static` (`calculate_wcet.py`: `CalculateWcet`,
`CalculateWcetDies`, and `MakeTraceStart` when it is over), `backup`, `rewrite`, `install`
(`make_trace.py` for task `tsk`: `BackUp`, `Rewrite`, `Install`, and `MakeTraceDies`),
`ktc_jobs`, `nptest`, `verdict`, `compile`. The files are variables of their own: `listed` is
`ktc_wcet_file_1.txt`, `wcet[t]` is `<t>.wcet`, `trace[t]` and `backup[t]` are the trace and
`ktc_<t>.ktc.trace`, `temp` is the copy being written. Two histories: `before`, the traces
when the command started, and `smooth`, whether anything has gone wrong in it since.

Abstractions. A trace has one row for each timing point of its task, and a row is reduced to
where its WCET field comes from: measured, static for a version of the program, or blank
(`write_wcet` writes nothing when the `.wcet` file has no line). A `.wcet` file is the set
of its lines, with a number or with something else a tool may have printed there. A file
that a `cp` was writing when it was interrupted is `Partial`. Of the files of ktc and nptest
only the age is kept. The lines of the list are handled in any order. `Verdict` leaves the
outcome open, it is that of `HardVerdict`: it tells only whether there are files to judge.
As in `e2e sens`, an interrupt from the keyboard ends the script and not the chain; `Killed`
ends the whole command.

### OptionParser and E2eCommand

`OptionParser` has the arguments of `work` as variables (`last_op`, `exp_argtype`, `acc_ops`,
`acc_args`) and reads one word in each step, so that a behaviour is a command line; the
branches of `work` are `KnownOption`, `UnknownOption`, `NormalArg`, `StringArg` and `IntArg`.
`handlers` is the one thing not visible in the text: `work` calls itself for the rest of the
line *inside* the `try` that guards `int_of_string` (57-60), and the handler takes every
exception, so that an error in a later word is reported about an integer that was right.
`Raise` is what comes out of all handlers. Below it stands the same command line read as a
whole: `Owner` is the option a word belongs to, `ArgumentsOf` and `Others` are the positions of
the words of an option and of the rest, `Wrong` is a word that must be refused, by what the
types of argument are said to be (`uargs.ml` 6-11): a negative integer is not wrong behind an
option that takes an integer (`NegativeArg`), but the code refuses it, since the dash is looked
at first. `ParseIsReading` equates the two readings and names this one difference;
`RefusesOnlyWrong` is the claim without it, which fails (finding 4).

`E2eCommand` extends it: `Parse` until the end of the line, `GetFile` (`--save` and the one
file name), `MainWcet` (the check of a compile command), `PickCompiler`, `Ktc`, then the
shell commands of the options as a queue `todo` that `Compiler` and `Run` work off, and
`Finish`. The check is itself a chain of tools that begins with ktc on the same program and
runs it once more (`wcet.ml` 107, 114), so that a command translates *before* its verdict.
Neither call has `--save-temps`, which names the place of the C file for the later calls, and
whether it leaves one in the directory is not for this repository to say: `cil` becomes that
of the check or stays. Neither has `--link`, with which the scripts make ktc build a program
(`profile-test/run-end.sh` 5), so that `a.out` stays. Any tool of the check may fail, and
then it judges by files that are there, or reading them raises an exception; on which files a
verdict rests is said by `HardDeadline`. `str_op` of an option without an argument raises `Not_found`, which ends the
command (phase `exception`). The C file and `a.out` are described by whether this command, its
check or an earlier command made them and, for `a.out`, with which library and from which C file. Any tool may fail; with
both platforms named, ktc runs twice and may fail once. The option tables are constants,
word to type of argument; `MCE2eCommand` gives them one option of each kind and those that
decide about shell commands.

### GenTaskSet, TraceLog and ProfiledTask

`GenTaskSet` is `main` of the generator: `StartTask` draws period, number of frames and
offset, `WriteFrame` is the body of the inner loop, `EndTask` the end of the outer one. A
random draw is a choice among the values it can have. A task text is reduced to its offset,
priority and frames, the workload to which function is called; `round` adds up what is
written. The condition on `restrict_fdelay` is left out because it never becomes 1 (227 has
`==` for `=`).

`TraceLog` has one operator for each function of `log.c`; a file is the sequence of its rows,
and the row that is being written. A field carries a name for what the call that writes it
means by it; the file itself has the values only, under the seven names of `Header`. The row of
a fragment has the six fields of `EndedRow` when `log_trace_end_id` closes it and the seven of
`AbortedRow` when `log_trace_abort_time` does; only the latter agree with the header, and
`IsFragment` says which row is which (section 5). A row with nothing but the two fields of an abort is bare (`IsBare`). Units are
constants, so that a turn of the second comes early in small instances; in the run a
millisecond has one microsecond, and the theorems hold for any number.

`ProfiledTask` generates a task set, picks a task and runs it: at a timing point `Work` ends,
`LogExecution` and `LogEnd` close the row of the fragment, `LogArrival` opens the next, the
task sleeps until the arrival and possibly longer, `LogRelease` follows. This order is the
code of ktc, which is not in the repository; it is read off the example at the end of `log.c`
(108-132), the columns of the header, and the traces kept with the examples, and is marked
external. `Start` gives the first call the offset of the task or infinity (-1404), because
`stp(offset, infty, ms)` has both and `log.c` does not say which it is given; every property
holds either way. `MayAbort` is where ktc may call `log_trace_abort_time`: at a firm delay,
whatever runs in front of it. The function asks for no start time, unlike its two neighbours,
so that behind an infinite `stp` it writes a bare row for what was never released; the
properties of the trace say what such a row may be and hold for all the others. Time only passes forward: a step back of CLOCK_REALTIME is not modelled.

## 3. Runs

| Run | Bounds | Shows |
|---|---|---|
| `search_sustainable` | 12 grid steps, epsilon 2, up to 4 misses | type invariant, six safety invariants, `EveryProbeHalves`, refinement of `MarginTable` with its liveness, `Terminates` |
| `search_any` | 12 steps, up to 3 misses, 6 analyses | what is left without `Sustainable`: `Witnessed` |
| `run_failing` | 12 steps, 3 misses, two leftovers, 2 failures | the files add nothing to `DeltaSearch` until a call fails; `DamageBounded` and `RunTerminates` hold after that, too |
| `run_stale` | the same | violation, finding 1 |
| `miss_count_bound` | 2 tasks, k = 3 and 2, up to 4 jobs, 2 costs, completion times to 5, caps 1/2, 3/2 and 5, hard fragments 0 and 2 | exactness and monotonicity of the count; what a positive verdict is worth; above `delta_sup` nothing is left to search, below it something is |
| `sens` | 3 versions, 3 scalings | `OriginalsCurrent`, `SameProgram`, `InputUnscaled`, each up to its mishap |
| `sens_original` | 2 versions, 3 scalings | violation, finding 2 |
| `hard_deadline` | 2 tasks, 2 timing points, 2 versions | `StaticTimesUsed` in smooth runs; `OnlyHardTouched`, `Recoverable`, `RewrittenOnce` whatever fails |
| `hard_fragments` | the same | violation, finding 3 |
| `e2e_command` | 5 words out of the 7 or 5 options of a command, an unknown option, a file name, an integer and a negative one | `ParseIsReading`, `BlamesTheFault`; `RunsItsOwn` and `BuildsWhenAllowed` whatever tool fails |
| `e2e_negative` | the same with 3 words | violation, finding 4 |
| `profiled_task` | 1 task of period 1, 3 or 4 with up to 3 frames, offset to 1, 5 rows, 6 ns in a second, work and lateness to 1 ns | `FramesFillPeriod`, `ZeroDelays`, `RowsOfOneFragment`, `FragmentsApart`, `ArrivalsPeriodic` |

Why the bounds are enough. Twelve steps and four misses give searches in which intervals are
skipped, found indices lie inside and outside the interval at hand, the interval jumps to a
lower index and back, and several numbers of misses never occur. The theorems below remove
the bounds of `DeltaSearch`, `SensCommand` and `HardDeadline` for everything but liveness,
and those of all other modules for everything but `RunTerminates`. In `miss_count_bound` windows shorter than, as long as and
longer than the job list occur, the last wrapping more than once, and each task may have
more jobs than its k, so that `FirstK` leaves some out; the caps are below 1, among the
leeways, and above all of them. Three versions let a file be stale by one and by two. In
`hard_deadline` a task with two hard fragments, one that is hard no more and a task that
becomes hard all occur, there is a task before and one after the one at which a script dies,
and commands are repeated without limit. Five words are an option and its argument, the same
option again, an error after an integer argument, and the file. Every combination of four
options with the file occurs, which is every branch of the queue of shell commands that two
options decide together. In `profiled_task` the frames are fewer than, and as many as, the
milliseconds (the border `ZeroDelays` is about); five rows are the first fragment, a full
round and the beginning of the next, with a turn of the microsecond and of the second
inside.

Deadlock checking is off in `search_any` (the bound `MaxCalls`), in
`miss_count_bound` (no more rows to add) and in `profiled_task` (the bound `MaxRows`).

Fairness. `Spec` and `RunSpec` assume weak fairness of the whole next-state relation: the
program is a single thread that never waits for anything but its child, and nptest is
called with its own time limit of 1800 s. Nothing is assumed about *which* answer comes
back. `RunTerminates` is bounded to `MaxFailures` failures on purpose: when
every call from some point on fails, the one stale file can send `iter_bsearch` back to the same
interval again and again and the search does not end.
With finitely many it does, for whatever bound (`EveryRunStepPays`, section 4).

## 4. What is proved

All theorems are checked by TLAPS from the modules alone, for every value of the constants
the named assumptions of the modules allow: every `DeltaSup`, every `Epsilon >= 2`, any option
tables, any table of periods, and so on.

`DeltaSearch_proofs`:

* for any answers: `TypeCorrect`, `WitnessedAlways`, `ProbesHalve`. `Witnessed` is inductive
  together with `TypeOK`, because both arrays are written at the index of the answer.
  `ProbesHalve` needs only that the two ends of the interval are different indices (`Apart`): an
  answer takes over one end, wherever it lies, and the other end stays (`RecordHalves`). So
  `bsearch` always ends, and only `iter_bsearch` could go round for ever;
* for a sustainable analysis: `Invariance` and from it `AlwaysBracketed`,
  `AlwaysSeparated`, `AlwaysInBounds`, `AlwaysTight`, `TablesAlwaysAgree` and
  `SearchImplementsMarginTable` (the safety part of the refinement); also `EveryStepPays`
  and `AnalysesFew`, below.

The inductive invariant `IInv` adds to the checked invariants what they silently rely on.
The heart is the lemma `ProbeStaysInside`: in `bsearch` both ends of the interval have
been analysed or are 0 and `M` (`Placed`, `Ends`); by `Ordered` and sustainability the
answer at the half-way factor therefore lies in `l..u`, so that the arrays are not left
and the next interval is again proper. `Bracketed` needs `Ordered` to know that a new
answer does not fall between two entries of another index, and `Separated` follows since
the half-way factor is strictly inside (`MidpointBetween`, where `Epsilon >= 2` is used).
`TightSoFar` is `Tight` for the indices passed. When an interval narrows, its upper end is
the analysis that witnesses tightness for *every* index from `l` to below `u`, also for
those never given; this is why starting from the wrong `min_index` (section 5) costs
analyses but no precision. When `l` reaches `M`, `TightSoFar` is `Tight`.

The refinement proof maps `Probe` to `Analyse` (the half-way factor lies in the open
interval formed by the two ends), `Report` to `Publish` (`NothingOpen`: two neighbouring
analyses that enclose an open interval would contradict `TightSoFar`; `LargestIsDeltaMax`:
the entry of `delta_max` is the largest factor by `Bracketed` and `Witnessed`), and all
other steps to stuttering.

`EveryStepPays` is what termination comes down to without fairness: `StepsLeft`, the intervals
still to come (`M - l`) times what one can take, and the width of the one at hand, is a natural
number and falls with every step. `AnalysesFew` bounds the expensive part: at most 2 analyses
before `iter_bsearch`, and `H[DeltaSup]` for each number of misses up to `M`, where `H` is any
function that falls when its argument is halved and rounded up (`CountsHalvings`; the rounded
up binary logarithm is the least). `Thrifty` says so for a search on its way: what has been
spent on the interval at hand and the halvings left in it are no more than its share.

`SensitivityRun_proofs`, for any leftovers and any answers:

* `DamageAlwaysBounded`, for any number of failures. Both sides change at different
  times: a failure is counted when nptest fails, the wrong entry appears when the file is
  read. `DamageInv` therefore counts, once nptest is over, the entry about to be made
  (`Pending`) with those of the result, so that each failure pays for at most one;
* `FreshUntilFailure` and `RunRefinesSearch`, for any number of failures: until the first, the
  result has fresh answers only, and every step of the run is a step of `DeltaSearch` or a
  stutter, with `Start` and `Probe` hidden in `Count`. For `MaxFailures = 0` that is the whole
  run (`ReliableRunIsSearch`). The
  invariant says that a scaled `job.csv` is of the factor the search asks for, and that between
  nptest and the count `job.rta.csv` holds an answer to it the search may be given;
* `RunTypeCorrect`, for any failures. A stale count above `M` ends the program, so that no
  count leaves the arrays;
* `EveryRunStepPays`, for any number of failures: `RunStepsLeft` is a natural number and falls with
  every step of the program. After failures the arrays contradict each other and none of the
  invariants of the search hold, so that one has to say why `iter_bsearch` cannot go round in
  circles. The reason is `FreshIsNotBelow`: every entry of the arrays below `M`, also a wrong one,
  stands above a factor for which nptest did compute that number of misses (`Grounded`; a stale
  file has been counted before, `Counted`), so that by sustainability no fresh answer for a factor
  above `delta_max.(l)` is below `l`. Only the count after a failure can send the search back, and
  `RunStepsLeft` sets a whole search aside for each failure. A file of an earlier run
  can only give `M`, where the search ends.

`SensCommand_proofs`: `TypeCorrect`, and `OriginalsAlwaysCurrent` (as long as nothing is in
`mishaps`), `AlwaysSameProgram` (as long as no child was interrupted), `InputAlwaysUnscaled`
(always); all are theorems of `Spec` without assumptions beyond the bounds being positive.
Each strengthens its property by what the chain has established at the start of every phase.
`AlwaysSameProgram` needs the additional fact that `job_edf.csv` and `action.csv` always
have the same version, since scaling changes times but not jobs.

`HardDeadline_proofs`: all five properties of the run, for any number of tasks, points and
versions and any list of hard fragments. Three inductive invariants, each checked together
with `TypeOK`:

* `RewriteInv` for `Recoverable` and `RewrittenOnce`: the traces from `tsk` on are as they
  were, the backup of `tsk` is exact before `temp` is copied, and `temp` was made of it. This
  is what the order backup, rewrite, copy is for: at no point are both copies of a task in
  the hands of a `cp`;
* `HardInv` for `OnlyHardTouched`: neither the list nor a `.wcet` file knows a fragment that
  was never hard, and what is in the files gets into the traces, the backups and `temp`. Both
  the backups and `temp` are needed, since traces are made of them;
* `SmoothInv` for `StaticTimesUsed`: what each phase of a smooth run has achieved for the
  tasks handled so far. Nothing is known of the files when the command starts, so that the
  invariant holds after any history of failures.

`E2eCommand_proofs`, for any option tables and command lines of any length: `TypeCorrect`,
`AlwaysRunsItsOwn`, `AlwaysBuildsWhenAllowed`. The queue `todo` is what makes `RunsItsOwn` hard:
that each `Run` wants the library of the `Compiler` step before it must be known of the whole
rest of the queue (`Follows`, of any two neighbours), and when the queue begins with a run,
`a.out` is built for it, or this is `compile` after a failure of the compiler (`Ready`). That
`wcet` is exempt from the latter comes from its runs being chained (`Chains`). For
`BuildsWhenAllowed`, `Allowed` follows the two things the check may change, the verdict and the C
file: past the check of a command that asks for it there is a positive verdict or none of the
building phases is reached, and a C file of the check is only there past the check (`Checked`).

The same module proves `ParseIsAlwaysReading` and `AlwaysBlamesTheFault`. `ReadingInv` ties the
arguments of `work` to the reading as a whole: the option in charge of the next word, and what it
still expects, are `last_op` and `exp_argtype` (`Current`); each option has one entry in `acc_ops`
(`Single`); a handler is only open after an integer argument (`IntegerRead`). A new word changes
the meaning of no earlier one (`MeaningStays`), so that each branch of `work` has to account for
one position only: an error is raised exactly if the word is `Faulty`, which is `Wrong` or a
`NegativeArg` (`FaultyIs`), and otherwise the position goes where the branch puts the word.

`GenTaskSet_proofs`: `GenTypeCorrect`, `FramesAlwaysFillPeriod`. The invariant `GInv` is that the
sum of the frames written is what was cut off before the frame at hand, and that `sum_period`
never exceeds the period, which takes a lemma on division (a share of a rest is at most the rest).
This is also why no delay is negative. `ZeroDelaysWhere` adds `Shares`, what the chain of divisions
has left after each frame, compared with the number of frames still to be cut.

`ProfiledTask_proofs`:

* `ProfiledTypeCorrect`, `RowsAlwaysOfOneFragment`, for any task set, any times and aborts and any
  number of rows. The invariant `PInv` knows, for each call that comes next, which fields the open
  row has (`Row`). The heart is `Position`: only the first timing point may be infinite, the task
  never comes back to it, and there is no start time before it is left; so the test on the interval
  in two of the functions and the test on the start time in two others always decide alike. The
  fifth, `log_trace_abort_time`, tests nothing. Without a start time the task is at most at its
  second timing point, behind an infinite first one, so that what an abort writes there is the
  first row and the only one of its kind;
* `FragmentsAlwaysApart`, for any units. `Timed` adds that what has been written of a fragment is
  in the past up to one microsecond, and that the row before had ended when the fragment at hand
  was released. Both times are cut to microseconds, one of them after a subtraction with borrow
  (`CutOfTime`), and each cut is off by less than one;
* `ArrivalsAlwaysPeriodic`. `Paced` places each row, and the one being written, at a round and a
  timing point, with its arrival in closed form (`TimeOf`). A bare row takes the number that the
  row of a finite first timing point would have (`FirstRow`, `PaceBare`). A sum over frames is a function of
  partial sums that exists (`Added`), since a recursive definition can not be reasoned about;
* `GeneratorKept`: profiling refines the generator, so that its theorems hold here, too.

`UpperBound_proofs`, about `MissCount`, `HardVerdict` and `UpperBound`: `CountIsWorst`,
`CountIsWorstForEver`, `CountAlwaysSustainable`, `HardAlwaysKept`, `BoundAlwaysLeast`,
`BoundAlwaysSaturates`. The invariant is short, `RowsInv`: the two files hold the same jobs row by
row, in order of release. The rest is arithmetic, and every step of it that calls for induction is
taken by a least counterexample (`LeastNumber`, from the well-foundedness of `<`) or by counting:

* `RowsInOrder`: `NthRow` numbers the rows of a task from 1 on, each once. An injection between
  sets of the same size is a surjection;
* `LateFromIs`: the k jobs of the endless schedule from any job on are late as often as the window
  of `k_window` at the same place of a round. This is where `%` is reasoned about (`Rounds`,
  `RoundsOnce`, `RoundShift`). With `Counted`, that `calculate_misses_k` answers the largest count
  of a window, it gives `WorstForEver`, also for a k larger than the number of jobs, where the code
  goes round the list more than once. `WorstWindow`, which TLC checks, is its case of two rounds;
* `StepSustains`: in a step that adds no job the lists keep their jobs and no slack grows, so that
  no window loses a miss, and a sum of larger summands is larger (`SumMonotone`);
* `LargestFraction`: a finite set of fractions has a largest, the one with the most members at
  most as large. `max_initial_upper_bound_updated` is thus one of the leeways, or 0 (`BoundIs`),
  which is what `Least` and `Saturated` rest on. `ScaleBelow` is the rounding of `scale_input`.

Every invariant and every action property of the passing runs is thus a theorem. Only
model-checked is what needs fairness: `Terminates`, `RunTerminates`, and the liveness part of the
refinement `ImplementsMarginTable`, whose safety part is `SearchImplementsMarginTable`. Liveness under fairness and ENABLED are out
of reach of the prover. Of the two liveness properties the theorems `EveryStepPays` and
`EveryRunStepPays` prove the part that is about the program: it cannot take steps for ever. What
TLC adds, on the instances, is that it does not stop before its end.

## 5. Findings

1. A failed or timed out nptest goes unnoticed and the previous `job.rta.csv` is counted
   for the current factor (451). Run `run_stale`. `DamageBounded` says how far this goes.
2. After a failed ktc, `e2e sens` takes the `action.csv` that the last search scaled for
   an original and scales it again (`src/command.ml` 183-184). Run `sens_original`.
3. `calculate_wcet.py` opens `<task>.wcet` for writing for every line of its list, so that of
   several hard fragments of one task only the last keeps a static WCET (29, 58), against
   "WCET computation of code fragments with hard deadline" (`README.md` 112) and the loop over
   lines in `make_trace.py` (114). Run `hard_fragments`; `StaticTimesUsed` is what remains.
4. An integer argument is said to be "both postive and negative" (`uargs.ml` 9), but a word with
   a dash is refused as an unknown option before its type is looked at (45): `--iter -7` is an
   error. Run `e2e_negative`; `ParseIsReading` is what remains.

Seen while reading, not runs: `min_index` (539-546) returns the largest, not the least index
found, since its step is `Pervasives.min i m`: intervals already closed are entered again and
some factors analysed twice, without harm to the result. The summary leaves out the row of M
when no factor below `delta_sup` gives M misses (193), against "Prints the WCET margins and M"
(184). The head comment of `sensitivity` (584-592) describes a
simulation step that is commented out (607) and a time limit of 300 s (1800 in the call);
an interrupt from the keyboard between the copies of `e2e sens` makes the search pair the
jobs of one version with the abort actions of another (`SameProgram` without its condition
on `mishaps` fails); the initial upper bound is computed with the k of the first task for
all tasks (616), although the k file gives each task its own (`src/command.ml` 78), so that
a task with a larger k can miss more deadlines above `delta_sup` than at it (`Saturated`
without its condition on `Klist` fails). `make_trace.py` takes its backup again in every run,
so that the measured times are gone after the second (`Recoverable` is about one run). A tool
that fails in the branch of KTA leaves an empty `.wcet` file, which blanks the WCET field of
every row of the task; a `.wcet` file whose fragment is no longer hard is never removed. When a
script has failed, the verdict may rest on measured times or on the jobs of an earlier run
(`StaticTimesUsed` without `smooth` fails). `find_job_id` (`src/wcet.ml` 67) has the job id as
divisor, so that only the jobs whose id divides the fragment's are checked; a task with hard
fragments besides these can be late and the verdict positive (`HardKept` for all jobs fails).

Two more disagreements are part of what a passing run states. `--static-analysis` with one word
behind it, or none, skips the check of hard deadlines without a message (`src/command.ml` 122),
against its help, "Perform WCET computation of code fragments with hard deadline using the
specified static analysis tool" (57): `BuildsWhenAllowed` says that nothing is judged then, and
the program is built. The header of a trace has seven names (`log.c` 48), but a row that
`log_trace_end_id` closes has six values (99), so that the id of the timing point stands under
ABORT and DST is missing; only `log_trace_abort_time` writes both (105): `RowsOfOneFragment` says
that a row has a value under each name exactly if its fragment was aborted.

In the option parser an error after an integer argument is reported about that integer
(`BlamesTheFault` without its exception fails); an option at the end of the line is accepted
without its argument. In the commands, `compile` runs whatever `a.out` is there when gcc has
failed (`src/command.ml` 144, `wcet` chains with `&&`); the missing compiler is noticed after the
hard deadline check has rewritten the traces (128). In the generator `restrict_fdelay == 1;` (227) is a comparison, so that a task
may have any number of firm frames; a task with as many frames as milliseconds, and at least
three, has a delay of 0 ms (`ZeroDelays`), although 199 redraws to prevent just that. In `log.c`
an abort in front of the first release writes a row of two fields (103-106), and
`log_trace_init` opens the file into its own parameter (31), which the caller never sees.

## 6. Not modelled, and why

* The contents of `job.mk` and `<alpha>_job.csv`, which nothing reads back.
* Truncation of scaled times to integers in `DeltaSearch`: monotone, covered by
  `Sustainable`. `scale_input` leaves `cmin` alone, so that small factors give rows with
  `cmin > cmax`; what nptest makes of these is outside the repository.
* Float special values: a task without a row of non-zero period makes the utilization `nan`
  and the search endless. `DeltaSup` is a positive number here. The utilization itself, a
  quotient of sums of floats, is an input of `UpperBound`.
* Partially written files outside `HardDeadline`: every `cp` and `Csv.save` is one step
  there.
* The scan of the source text in `make_trace.py` (13-84). It takes every line with the word
  `task` for a task, so that a comment or a prototype would be taken for one, too; the
  counting of braces has no effect, because only the first line of each piece is used
  (63-65, 132). No program in the repository has such a line; `HardDeadline` takes each task
  to be named once.
* In the branch of OTAWA, an executable `wcet_main` left behind when the compiler fails for the
  next fragment (`calculate_wcet.py` 42-57), so that the WCET of one fragment is written for
  another. `HardDeadline` has the file a number of the version at hand or none.
* The stand-alone interface scripts, which cut pieces out of a source text and are called by
  nothing.
* `simulation_binary_search` and `sense.ml`: dead code, see the inventory.
* The array `period_array[100]` of the generator and its file output; the text of a program.
* Steps of the clock backwards in `log.c`, and the trace when the file cannot be opened.
* `optionstext` of the parser, and the type `IntList`, which no option has.
* ktc, nptest, KTA and OTAWA: submodules and tools without source here. What they do to
  files is external in the models.
* TBB, in two copies (`tbb/`, `tbb44_20160128oss/`), and the benchmark programs under
  `examples/`. Nearly all C and C++ of the repository is in these two places. The first is a
  third-party library that only the submodule np-schedulability-analysis is built with
  (`e2e-install.sh` 36-41), the second are inputs of the toolchain, most of them WCET
  benchmarks of others. None of it is called by the code modelled here, and a model of it
  would say nothing about this program. The toolchain proper is OCaml, Python, and the two C
  files of `GenTaskSet` and `TraceLog`.

## 7. Plan

Done: all modules of section 2 and the proofs of section 4. A module that is pure functions
is checked in the run of a component it belongs to (as `MissCount` in the run of
`UpperBound`), so that the number of runs stays small.

Left, for proof: a bound like `AnalysesFew` for a run with failures.

Left, for models: a task named twice in `HardDeadline` (a sequence of lines in place of the
tasks, with the backup of the second pass); the type `IntList`, if an option uses it.
