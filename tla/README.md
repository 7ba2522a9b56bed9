# TLA+ verification of hwinfo

hwinfo is a command line tool for Apple silicon. Once a second it samples
temperatures, power, load, memory, disks and network interfaces, and every five
seconds it prints a report about the last window of samples: as text, as JSON or as
charts in a curses terminal. This directory holds TLA+ models of it, the TLC
configurations that check them and TLAPS proofs about them. Source references are
`file:line` of `src/src/`.

## 1. Inventory

| Component | State | Operations | Correct means |
|---|---|---|---|
| `sampler` (cli/main.cpp:48, 298-318) | `sample_queue_`, `pop_times_` | `init`, `sample(callback)` | windows of six samples that share their boundaries; each between two majors; a report with the 6th, 11th, 16th ... sample |
| `hwinfo::sample` (hwinfo_osx.cpp:27) | the sample being filled | one sample, payloads only if major | every payload is there in a major sample, and read after the stamp |
| `hwinfo::sample_diff` (hwinfo_osx.hpp:14) | none | a window to a report | no empty optional is dereferenced; no division by zero; nothing is reported twice or lost |
| `disk_io_reader`, `net_io_reader` | none | `sample`, `sample_diff` | differences of unsigned counters never wrap, whatever devices come, go or restart |
| `cpu_load_reader`, `mem_info_reader` | none | `sample`, `sample_diff` | usages are fractions of what was counted; errors of both samples reach the report |
| `smc_reader` | connection, known keys, key info cache | `init`, `sample`, `sample_diff` | values are averaged over the samples that have them; a key that fails once is not lost |
| `io_report` | channels, subscription | `init`, `sample`, `sample_diff` | references are released once; power is per second, frequencies are means over residencies |
| `sys_info` | chip data | `init` | complete or an error |
| `sysctl_dynamic_buffer` (osx_util.hpp:34) | a buffer | size, allocate, read | a list that grows between two calls is read or fails |
| `text_output`, `json_output` (main.cpp:1135, 1279) | `current_number` | `run` | n reports for `--number n`, end on a signal |
| `terminal_output` (main.cpp:325) | `diff_queue_`, naps, tab, display type, windows | `run`, `draw*` | samples keep their pace, the screen shows the newest report in windows that fit |
| `main`, `handle_signal` (main.cpp:210, 286) | `stop`, options | start, signal | a signal ends the program |

**Interactions.** `main` builds one `sampler` and one output and runs the output in the
only thread there is. The output calls `sampler.sample(callback)` once a second, the
sampler calls `hwinfo::sample` and, when a window is complete, `hwinfo::sample_diff`,
and gives the report to the callback before it pops the window. The readers ask the
kernel (IOKit, sysctl, Mach, SMC, IOReport).

**What is hard.** There is no second thread, but there are three other actors: the
*kernel*, whose devices come, go and restart their counters between two readings; the
*wall clock*, which stamps samples (`system_clock`) and may be set back; and the *signal
handler*, which sets a plain `bool` at any instruction. The terminal adds a *user* who
presses keys and resizes the window. Boundary arithmetic (which of the samples is major,
how many are popped, which are shared) is spread over three literals (5, 6, 5) that only
fit together over several calls. Errors of one reader leave holes in one sample of a
window only. Nothing is persisted, so there is no recovery after a crash to check.

`PROJECT.json` lists these hazards at their lines, with the properties that watch them.

## 2. Modules

| Module | Models |
|---|---|
| `ReportCadence` | abstract: what the sampler promises its callers, one report with the 6th and then with every 5th sample |
| `OutputLoop` | abstract: what an output promises `main`, samples taken one at a time, each after a look at `stop` and at the limit |
| `WindowScan`, `WindowDiff` | what the scan of `hwinfo::sample_diff` finds in a window, and the report it decides on, as one step |
| `DiffScan` | the scan of `hwinfo::sample_diff` (hwinfo_osx.hpp:14-39), one turn of the loop a step |
| `Sampler` | `sampler`, `hwinfo::sample`, `hwinfo::sample_diff`, the differences of the disk and net readers, against clock and devices; uses `WindowScan` |
| `StreamOutput` | `text_output::run`, `json_output::run`, `handle_signal`; uses `ReportCadence` for the sampler |
| `TerminalOutput` | `terminal_output::run`, `draw`, `draw_middle`, `draw_large`, `get_display_type`; uses `ReportCadence` |
| `Charts` | `build_timeline_data`, `draw_bar_chart` as functions of history and window size |
| `Program` | `main` from the options to the exit, `hwinfo::init` and its handles; uses `OutputLoop` for the output |
| `RefCounts` | abstract: an object is created with one retain and released at most once |
| `IoReport` | channels, subscription and references of the IO report, through `init`, moves, pops and destructors |
| `IoReportDiff` | the frequency lists of `sys_info` and the walk over a diff: frequencies, power, their summaries |
| `SmcReader` | key tables, the check of the keys, samples, the merge of a window, the summaries |
| `LoadReaders` | `cpu_load_reader`, `mem_info_reader` and their part of a report |
| `NetIfList` | `sysctl_dynamic_buffer` and the loop over the interface messages |
| `DiskList` | the walk of `disk_io_reader::sample` over the IOKit registry |
| `MCSample`, `MCSampleDiff` | the readers' `sample`, and the scan and the readers' `sample_diff`, put side by side for TLC |
| `MCSampler`, `MCTerminalOutput`, `MCCharts` | values of constants for TLC |
| `*Proofs` | theorems, see section 5 |

**Composition.** The parts are put together by what they promise each other:

    DiffScan  => WindowDiff     (checked, proved)     Sampler uses WindowScan
    Sampler   => ReportCadence  (checked, proved)     the outputs use ReportCadence
    StreamOutput, TerminalOutput => OutputLoop        Program uses OutputLoop
        (steps proved, with fairness checked)
    IoReport  => RefCounts      (proved)

Everything after `hwinfo::sample` begins and before it returns happens in one thread and
the readers share nothing, so that they are modelled one by one. `MCSample` and
`MCSampleDiff` hold the variables of several of them and let one be at work in a
behaviour, the others resting in an initial state: nothing one does can depend on
another, and the state space is the sum of theirs instead of the product.

### Sampler

State: `sample_queue` and `pop_times` are the members; `building` is the local `sample`
of `hwinfo::sample`; `pc` says where `sampler::sample` stands (`ready`, `stamped` after
the constructor, `counters` after the IO report, `sleep` after the push); `report` is
what the callback was given by the last call. `now`, `attached`, `counter` and `issued`
are the kernel's: the clock, the devices it lists, a counter per device as it keeps it,
and what was really done. `taken`, `reports`, `reported`, `whole`, `origin`, `epoch` and
a sample's `issued` are history variables: no action reads them but to update them.

Actions: `BeginSample` (`major` by the queue's size, the stamp), `ReadIoReport` (its own
stamp, taken later; the reference may be null), `ReadCounters` (any subset of the listed
devices is read, then the sample is pushed, the window reported and popped),
`SkipReaders` (a minor sample goes straight to the push), `Sleep` (a second or more).
Between any two of them the kernel may act: `StepClockBack`, `DoIo`, `Detach`, `Attach`.

Abstractions: of five optional payloads two are kept, the IO report because it has a
stamp of its own and the IO counters because they have the rule with the most cases (the
five `optional`s are filled in by the same branch). Disks and interfaces share one set
`Devices` and are read in one step; one counter stands for the six of a record. Clock
steps forward are indistinguishable from a late sleep and are covered by `MaxLate`. A
clock slewed backwards counts as set back. `sample_diff` is a single step as the caller
cannot observe its middle; the scan (hwinfo_osx.hpp:20-33) is given by what it finds:
`Later` marks the samples at which `last_it` moves, `LastIndex` is the last of them,
`SampleNum` their number. Dereferencing an empty `optional` gives `UndefinedDiff`.

`DiffScan` is the loop itself with `it`, `last_it` and `sample_num` as variables. Its
`ScanIsRight` says at every turn what they are of the samples scanned so far, and
`PromiseKept` that the loop returns what `WindowDiff` states, that is, what `Sampler`
assumes.

### StreamOutput, TerminalOutput

`pc` names the statement the loop is at; `Signal` may come between any two statements
(and again: the handler is idempotent). `stop` is a plain `bool`, but every read of it
follows a call the compiler cannot see through, so it is re-read. `sleep_for` resumes
after a signal, so a signal never shortens a pause. `signalled` and `late` are history:
where the first signal found the loop, and how many samples began after it.

In `TerminalOutput` a report is the number of its delivery; `diff_queue`, `sleep_times`,
`pop_times`, `tab_index`, `display_type` and `windows` are the code's. `windows` maps a
window's name to its rectangle, the variant `windows_` being told apart by the names.
`screen` is the size curses knows, `tty` the real one; `wgetch` (external) brings them
together and returns `KEY_RESIZE`. `mvwin` (external, curs_window(3X)) refuses a move that
would leave the screen. `Draw` is `terminal_output::draw` with what the three `draw_*`
functions do to the windows; what is drawn is the newest report's number and the page.

Both refine `OutputLoop` (`PromiseKept`): a sample is taken only after a turn of the loop
has found neither `stop` nor the limit, and the loop ends as soon as it finds one.

### Program

`pc` names the call `main`, `hwinfo::init`, `sys_info::init`, `smc_reader::init` or
`io_report::init` is about to make. Each of them may fail; `FailWith` is the early return
with the scope guards that have been set up, `held` the handles not yet released. The
output is any program that takes the steps of `OutputLoop`. `stop` is a global that
exists before `main`, so that a signal between `sigaction` and the run is not lost. A
SIGTSTP before its handler is there suspends the program (`Suspend`), a SIGINT kills it
(`Interrupt`). Options that Boost cannot parse end the program with an exception and are
left out. `code_` 0 and -1 are "success" and "failure".

### IoReport, IoReportDiff

`IoReport` follows every Core Foundation object from the call that creates it to the
`CFRelease`: a reference is the object's number in the order of creation, `retains` its
count, and the variables `channels`, `merged`, `channel`, `subscription`, `temp`,
`building`, `queue` and `delta` are the places of the code that hold references, so that
a move is one of them set to null. Any call may return null. Whether a window is diffed
depends on the clock (`Sampler`); here it may always be refused.

`IoReportDiff` reads the brand's lists of clocks (`ReadPmgr`) and then walks over any
channels in any order (`Walk`). The name of a channel is given as what the code reads
from it (device and core). Frequencies and power are exact fractions; 0 of 0 is not a
number, and comparisons with it are false, as in IEEE 754. The units of the clocks are
powers of small bases instead of 1000 (`Kilo`, `Mega`). Those of the energy have the
divisors of the source (`PerJoule`); watts are counted in billionths, which makes them
whole. What the channels are worth is said apart from that, by the prefixes of the units
(`Nanojoules`), and `PowerAddsUp` compares the two, for every device and every core.

### SmcReader

A key is the pair of its table and row, with the tables of every brand as the source has
them, down to the GPU table of m4 that numbers its rows 1, 2, 1, 2, ... and to the arrays
of m2 and m4 that are declared longer than they are filled: their last rows are
value-initialised and share the key 0. These rows are also the only ones for which the
cache of key infos is ever hit. `answer` is what the SMC says of a key at `init`: a float
as expected, something else, an empty info, or an error; at most one key besides 0 is odd,
as rows are checked independently. Of each sample at most one key fails to be read. The
reader keeps nothing of a window, so one window shows them all. The three loops over data
are recursive functions named for what one turn does: `ReadRow` appends the metric of a
valid row, `MergeSample` adds a sample of the first one's shape and passes over another,
`AddOf` takes a metric of some devices into a summary. A window has at least one sample
(`Assumption`), as the sampler never asks for the report of none.

### LoadReaders

Two windows that share a sample, because errors of the shared one reach both reports.
Counters of the kernel only grow, in a window by less than a wrap; `ToInt` is what becomes
of them in an `int`, whose least value is `-Half`. An error is named after its call and sample, so that the model tells whose error a
report has. Shares are fractions.

### NetIfList, DiskList

`NetIfList`: the first `sysctl` tells a size, which may exceed what would be written, the
list may change, the second call writes what there is if the buffer (static or dynamic)
is large enough; the callback is given the *first* size. Behind the data the buffer was
never written: a header found there is any of `Garbage`, and stays what it is. A name is
an element of a small set, its copying and length are left out.

`DiskList`: one action per IOKit call, with the scope guards that run on each way out of
a turn of the loop. `held` says which object each local variable holds, `retains` how
often each is retained. Disks are unplugged and drivers count while the walk goes on. The
six counters are read alike and stand as one; BSD names are unique; a call that returns
success returns an object.

### Charts

Values are exact fractions where the code has `float`; heights are rounded as `round`
does. Only one number per report is kept, the one the chart shows. A rate chart stands
for the ten windows that use `build_timeline_data`, a usage chart for the two that do not
scale.

## 3. Runs

| Run | Instance | Shows |
|---|---|---|
| `sampler_clock` | no device, two windows (11 samples), 2 ticks a second, late by up to 1 tick, the clock set back once by any amount | `QueueShape`, `NoUndefinedDiff`, `QuietWindowIsFull`, refinement `CadenceSpec` |
| `sampler_io` | one device, two operations, two windows, any detach, attach, restart and missed reading, one clock step | `TypeOK`, `NoDoubleCount`, `Lossless` |
| `rates` | one window of the instance of `sampler_clock` | **violation** of `RatesArePerSecond` |
| `stream_output` | limits 0 to 4, up to 32 samples, signals anywhere | `ExactCount`, `NoSampleAfterSignal`, `SignalEnds`, `LimitedRunEnds`, refinement `PromiseKept` |
| `terminal_loop` | one size, limits 0, 1, 3, two naps a sample, a history of two | `HistoryIsLatest`, `PaceKept`, `ExactCount`, `NoSampleAfterSignal`, `SignalEnds`, `LimitedRunEnds`, refinement `PromiseKept` |
| `terminal_windows` | five sizes of all display types, two reports | `ShownIsCurrent`, `LaidOutUnlessShrunk` |
| `terminal_shrunk` | the same | **violation** of `LaidOut` |
| `program` | every combination of options, limits 0 to 2, any call of the initialisation failing, up to two devices, signals anywhere | `MainIsInOrder`, `NothingIsLeft`, `EarlySignalTakesNone`, `ProgramEnds` |
| `sample_diff` | scan: windows of up to five samples over three stamps in any order; sensors: all brands, rows 1 and 8 odd or failing, windows of two; load: two cores, 4-bit ints, three samples, any call failing; IO report: all brands, lists pmgr may lack, up to three of 12 channels (16 readings) | refinement `PromiseKept`; `SensorsAreExact`; `LoadAndMemoryAreExact`, `ErrorsMatchFailures`; `FrequencyAndPowerAreExact`, `ExtremesAreOfCores` |
| `sample` | IO report: three groups, 21 samples (four windows), any call failing; disks: any three of five media; interfaces: lists of up to three messages, sizes up to five too large, seven headers of garbage | `Ownership`, `LeakIsOnce`; `NothingHeld`, `SampleIsOfTheRegistry`; `SampleIsOfTheCall`, `ReadingEnds` |
| `charts` | series of up to 4 of 5 numbers, 15 window sizes | `BarsInside`, `TallerIsMore`, `NonZeroSeriesIsScaled` |
| `charts_zero` | series of up to 3 of 3 numbers | **violation** of `EveryBarHasItsBlock` |

Some properties are conjunctions of named parts, which say what is in a report and what is
not: `SensorsAreExact` is `KeysAreValidated`, `MeansAreOfTheirKeys` and
`SummariesAreExact`; `LoadAndMemoryAreExact` is `UsageIsExact` and `MemoryIsOfTheEnd`;
`FrequencyAndPowerAreExact` is `FrequenciesAreMeans` and `PowerAddsUp`; `Ownership` is
`HeldAreLive`, `SamplesOwnTheirRefs` and `SubscriptionOutlivesSamples`;
`SampleIsOfTheRegistry` is `FailureIsLocal` and `ReadDuringWalk`; `SampleIsOfTheCall` is
`SampleAgreesWithCall`, `NothingInvented` and `HeadersAreInside`; `MainIsInOrder` is
`ReadyWhenRunning` and `CodeTellsOutcome`; `ProgramEnds` is `SignalEnds` and
`LimitedProgramEnds`. `ScanIsRight` and the type invariants of the two loops and of
`IoReport` are proved and not checked in a run of their own.

**Bounds.** Two windows are enough for everything that relates a window to the next one,
as the queue that enters the second window has the shape in which every later window
starts (`QueueShape` says so, and is proved). In `sampler_clock` and `rates` the clock
starts later than the length of a window, so that it can be set back by more than one,
and two ticks in a second let a diff of less than a second appear; in `sampler_io` it is
set back at most to the start of the run, which is enough for a report to be empty. One device and one counter suffice because devices do not
interact; two operations make the difference between none, some and all of them in a
window. `BootIo` holds 0 and 1 because the code treats a counter of 0 as absent. The
theorems hold for every value of these constants. In `terminal_windows` the sizes are
on both sides of every threshold, with two sizes of two types, so that windows are made larger and smaller.
In `charts` the sizes include the smallest that holds one bar.

In `sample_diff` a window of five samples is as good as one of six for the scan, whose
invariant is proved for every length; three stamps give every pattern of earlier, equal
and later. Rows 1 and 8 of each table are the first and one in the middle or at the end,
8 being the last row of the cores that are numbered without padding. Load counters start
at 0, before the change of sign and before the wrap. Three channels are enough for two
channels of one device and one of another between them. In `sample` four windows reach
the steady state of the queue twice; three media give every order of a good one between
two that are passed over; three messages give data before and behind the told end.

The configurations of the sampler, `sample` and `sample_diff` say `CHECK_DEADLOCK FALSE`:
their caller may stop after any sample, or the call they model has returned; the other
runs check deadlock.

**Fairness.** `StreamOutput` has `WF_vars(Loop)`: a sequential program whose calls
return. `TerminalOutput` adds `SF_vars(NoKey)`: again and again `wgetch` finds no key.
Without it a user who feeds keys for ever keeps the loop from sampling, and a limited run
from ending (main.cpp:352 samples only when there is no key); `SignalEnds` does not need
it. `OutputLoop` promises `WF` of going on and of ending and `SF` of taking a sample, no
more than the two loops have (`PromiseKept` is checked with fairness). `Program` has `WF`
of the calls of the initialisation, which return, and the promise of its output; SIGCONT
need not come, so that its liveness properties exempt a suspended program. `NetIfList` has
`WF` of the two calls and of a turn of its loop. Nothing makes a signal or a key come.

## 4. Disagreements with the source's comments

* `rates`: `sample_diff` truncates the window to whole seconds (hwinfo_osx.hpp:41) and
  divides by it. If the clock is set back by about a window, the major sample at the end
  may be later than the first one by less than a second, and the rates that
  metric.hpp:163, 189 call "per second" are divided by zero. `QuietWindowIsFull` shows
  that it takes a backward step.
* `terminal_shrunk`: windows are moved before they are resized (main.cpp:551, 672), and
  `mvwin` refuses a window that does not fit yet. After losing two lines the lower
  window stays where it was. `LaidOutUnlessShrunk` shows that nothing else misplaces a
  window.
* `charts_zero`: 0 is both a value and the mark of an unset minimum (main.cpp:854). A
  series with a zero gets a wrong minimum and bars without the block that main.cpp:796
  leaves for the lower bound. `NonZeroSeriesIsScaled` shows that other series are right.

What the code does where one might expect something else is pinned down by properties
that hold, each stating the deviation as an exception or as what it is:

* A core that was idle for a whole window has the frequency 0/0 (osx_io_report.cpp:74),
  and takes the mean, and if it comes first the extremes, with it: `ExtremesAreOfCores`.
* The list of the super cores of m5 is read (osx_sys_info.cpp:116), but rows are made for
  efficiency and performance cores only (osx_io_report.cpp:261), so that the summary of
  super cores is never filled: `ListOf` and `WalkCpu` in `IoReportDiff`.
* A read of a sensor that fails counts as 0 in its mean (osx_smc_reader.cpp:366):
  `MeansAreOfTheirKeys`.
* The unfilled rows of the tables of m2 and m4 (osx_smc_reader.cpp:191, 225) become valid
  if the SMC answers key 0 with an empty info: `IsSensor` in `SmcReader`.
* A failed load sample is reported as `invalid_argument`, its own error is dropped
  (osx_cpu_load_reader.cpp:63): `ErrorsMatchFailures` says that some error is reported,
  not which.
* Over the change of sign of an `int` counter its ticks are missed for a window
  (osx_cpu_load_reader.cpp:70): `Crossed` in `UsageIsExact`.
* The size of the first `sysctl` is used after the second (osx_util.hpp:53):
  `SampleAgreesWithCall` and `NothingInvented` each hold on their side of the data's end.
* When the channels of a group cannot be merged or subscribed, one object is forgotten
  (osx_io_report.cpp:136): `LeakIsOnce` bounds it.

## 5. Proofs

All theorems are of the form `Spec => ...` for every value of the constants, from the
assumptions of their modules. Of `Sampler` these are `SamplerAssumption` (constants are
naturals, a second has a tick) and `NulloptAssumption` (no value is `Nullopt`).

* `SamplerProofs`. The inductive invariant is `IInv == TypeOK /\ QueueShape /\
  NoUndefinedDiff`. None of the three is inductive alone: the report is defined because
  the scan ends at a sample that is major and majors have payloads; that is the shape of
  the queue; and the shape survives a push because a window's last sample is major, which
  depends on what `building` was started as, five samples after the front. `PushKeepsIInv` is
  that step, shared by `ReadCounters` and `SkipReaders`; `ScanLast` says where the scan
  ends. Theorems `TypeCorrectness`, `QueueShapeIsKept`, `DiffsAreDefined`.
  `SamplerImplementsCadence`: with `CadenceInv`, `taken = 5 *
  reports + Len(sample_queue)` with a queue of one to five samples from the first report on, a push is a step of
  `ReportCadence` and everything else stutters. `ReportsCountOnce`: `CountInv` adds that
  counters grow no faster than `issued` since the front sample, so a window adds at most
  what was done in it (`WindowCounters`, `WindowCounts`).
  `QuietWindowsAreFull`: as long as the clock was not set back since
  the front sample, stamps in the queue are a second apart, those of the IO report too;
  then the scan takes all six samples.
  `ReportsAreLossless`: for a device in `whole` the kernel's
  counter and `issued` have grown alike since the front sample (`InStep`), so a window
  adds exactly what was done in it and windows tile the time from the first sample on.
* `StreamOutputProofs`. The invariant joins the number of samples behind the reports
  (`Windows`), the limit at each statement (`Limit`) and the handler's mark (`Marked`).
  Theorems `StreamTypes`, `CountIsExact`, `SignalStopsSampling`, for every limit.
  `StreamStepsArePromised`: every step is one of `OutputLoop` or a stutter.
* `SampleDiffProofs`, the scan. `ScanStaysRight`: `ScanIsRight` is inductive together with the types;
  the step of the loop needs that the samples later than all before them gain exactly the
  one that moves `last_it` (`LaterOnes`). `ScanKeepsPromise`: at the end the invariant is
  `LastIndex` and `SampleNum` (`LastIsFound`), hence the loop refines `WindowDiff`, for
  windows of any length and times in any order. This closes the gap between the
  declarative scan of `Sampler` and the code's loop.
* `SampleDiffProofs`, the load and the memory. `LoadInv` says which moment each of the two
  samples is of (`Ends`: `was` is the machine when `start` was taken, from the second
  window on) and that a counter grew by less than a wrap since then (`WindowIsShort`).
  Without the second the difference of two ints tells nothing: `IntOfCounter` and
  `DeltaOfCounter` show that with it the difference is the growth, unless the sign
  changed, and `CpuUsageIsShare` that the mean of the cores is a share or not a number.
  Theorems `LoadAndMemoryStayExact`, `ErrorsMatchTheFailures`, for any number of cores and
  windows and any width of an int.
* `SampleDiffProofs`, the channels of the IO report. `IoInv` says that a list has the
  clocks of its table or none (`ListsAreClocks`; the division by the unit undoes the
  table, `GetFreqIs`), that no channel is walked twice and that a device without power has
  no energy either (`PowerIsOfTheWalk`); without the last the first channel of a device
  would be of unknown worth. The power of the cores is that of the channels walked
  (`CorePowerIsOfTheWalk`), and `WattsAreNanojoules` that the divisor of a unit agrees with
  its prefix. `FreqIsMean` is the heart: `calculate_freq` goes through list
  and states side by side, the mean goes by the numbers of the states, and `TurnsAgree`
  shows that they take every state alike as long as `next` is one more than the active
  states before it. `MaxIsGreatest` and `MinIsLeast` need that no value is compared with what is not a
  number: `ExceedsIsOrder` is transitive only over a number. Theorems
  `FrequencyAndPowerStayExact`, `ExtremesStayOfCores`, for any tables and any channels of
  `IoReportDiff!Assumption`: their states are in the order of their clocks, as the loop of
  `calculate_freq` takes for granted, and what a table adds to a clock is less than a MHz.
* `SampleDiffProofs`, the keys of the sensors. `SmcInv` says of every row that `init` is
  past (`Passed`, by table and row) that it is valid if and only if the SMC answered for
  its key as the row expects, and that the cache has what the SMC answers: the first alone
  is not inductive, as a row may take its info from the cache. Theorem
  `KeysStayValidated`, the first part of `SensorsAreExact`, for any brand and any answers.
* `SampleDiffProofs`, the sensors of a report. `SamplesInv` says of every sample that it
  has one metric for each valid row, in the order of the rows, with what that row's own
  key answered (`IsSampleRead`), and of the report that it is made of all the samples
  (`ReportIsOf`). There is no sample before `init` is done, and `valid` is final
  then; that is what keeps the samples of one window alike, so that merging by position
  mixes nothing (`MergesAddUp`) and passes over none. `PlaceIn` and
  `PlaceGrows` count which position a row has, `ReadingIs`, `SumsAreTotals` and `StatsAre`
  say what the three loops compute, `SummariesAre` which devices a summary is of:
  `SummaryOf` names for each device the summary it belongs to, so that two summaries
  exchanged, or a device in none of them, would be noticed.
  Theorem `SensorsStayExact`, for the tables of every brand, any odd or failing keys and
  windows of any length.
* `SampleProofs`, the IO report. The inductive invariant says of each `pc` which places may hold a
  reference and that no two places hold the same one. Its steps are grouped by phase
  (`InitStepsOwn`, `TakingStepsOwn`, `DiffStepsOwn`, `DestroyingStepsOwn`) over three
  lemmas on counting (`CreateOnes`, `ReleaseLive`, `PushRefs`). Theorems
  `HeldAreAlwaysLive`, `SamplesAlwaysOwn`, `SubscriptionStays`, together
  `OwnershipIsKept`, `LeaksAtMostOnce` and
  `ReportKeepsCounts` (the refinement of `RefCounts`), for any number of groups and
  samples.
* `SampleProofs`, the disks. `WalkInv` ties the references of the walk to the statement it
  is at (`InTurn`), the sample so far to the media whose turn is over (`Complete`) and
  each counter to a moment of the walk (`Measured`). Theorems `WalkHoldsNothing`,
  `WalkListsTheRegistry`, for any registry of any number of media.
* `SampleProofs`, the interfaces. The counters of a list are a fold, and the loop reads one
  message after the other: `NetInv` says that what is read is the fold of the messages
  passed (`Position`) as long as the offset is inside the data, and nothing but unwritten
  headers after it. `CountersAre` and `CountersOfPrefix` say what the fold of a list and
  of its beginnings is, `ReadKeepsPosition` is the turn of the loop. Theorem
  `SamplesAreOfTheCall`, for lists of any length, any told size and any garbage.
* `ProgramProofs`. The invariant says for every call of the initialisation which handles
  are held before it (`Holding`), which signals are handled (`Handling`), and that the
  code and `failed` are set by the call that ends the program (`Outcome`): of the three
  properties only what is left at the end can be seen, so none is inductive. Theorems
  `MainStaysInOrder`, `NothingStaysHeld`, `EarlySignalsPreventSamples`, for any limit and
  any number of devices.
* `ChartsProofs`. Only the history changes, so its type and length are the invariant
  (`HistoryIsBounded`); the rest is about the operators. `MaxOfSeries` and `MinOfSeries`
  say what the two folds of `build_timeline_data` find, the minimum only if no number is
  0; the lemmas on `Round` and `Height` that heights grow with the numbers and stay in
  the window; `BarsOfChart` which bar is whose. Theorems `BarsStayInside`,
  `TallerIsAlwaysMore`, `NonZeroSeriesAreScaled`, for any history and any window.
* `TerminalOutputProofs`, in three layers. `LoopInv` (types, samples behind the reports,
  limit, naps, the handler's mark) gives `TerminalCountIsExact`,
  `TerminalSignalStopsSampling`, `TerminalKeepsPace` and, with the mapping to
  `OutputLoop`, `TerminalStepsArePromised`. `HistoryStaysLatest` is inductive over
  `LoopInv` (`KeepLatest` is the push and pop of the deque). `ViewInv` ties the drawn page
  to the newest report and the windows to the layout of the last size that gave them
  room (`Placed`); it gives `ScreenStaysCurrent`, `WindowsStayLaidOut` and
  `TerminalTypes`, for any set of sizes.

**Folds.** The models use the `FoldLeft` of the community modules for loops over data.
`DataLemmas` makes it provable: induction over the naturals stated with a set of
naturals instead of a predicate (`SetInduction`, from the well-founded order), the
function a fold is computed by (`IterationExists`), what it comes to for each beginning of
a sequence (`AccumulationExists`, `PrefixInduction`), and facts on division by a number
that is not a numeral (`DivBounds`, `DivUnique`).

**Only model-checked.** Liveness and refinements *with fairness* (no prover here handles
fairness): `SignalEnds`, `LimitedRunEnds`, `ProgramEnds`, `ReadingEnds`, the fair part of
`PromiseKept`. Every safety invariant of a passing run, and every refinement without its
fairness, is stated by a theorem.

## 6. Not modelled

* Parsing of the options by Boost, which ends the program with an exception.
* The formatting of text and JSON reports: it changes no state.
* Of the terminal: colours, titles, borders, the texts of the tiny display, and the
  frequency charts, which repeat `build_timeline_data` inline for several series.
* Conversions between `CFString`, `CFData` and C++ strings (osx_util.hpp:88-164); the
  models take what the code reads from a name. Their ownership of references is the one
  of `DiskList` and `IoReport`.
* `metric.hpp` (plain data) and the build files.
* The kernel, IOKit, IOReport, the SMC and curses are external: modelled by the results
  the code prepares for.
