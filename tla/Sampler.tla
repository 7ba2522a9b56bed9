------------------------------ MODULE Sampler ------------------------------
(***************************************************************************)
(* The sampling pipeline: class sampler (cli/main.cpp), hwinfo::sample     *)
(* (hwinfo_osx.cpp) and hwinfo::sample_diff (hwinfo_osx.hpp), run against  *)
(* a kernel whose clock may be set back and whose disks and network        *)
(* interfaces may come, go and restart their counters at any moment.       *)
(*                                                                         *)
(* A sample is built in steps: its constructor stamps it, the IO report    *)
(* sample takes a stamp of its own, the counters are read last.  Only a    *)
(* major sample (the queue's size is a multiple of 5) has the payloads     *)
(* that follow the stamp.  Two of the five optional payloads are kept: the *)
(* IO report, for its stamp and its reference, and the IO counters of      *)
(* disks and interfaces, which follow one rule.                            *)
(***************************************************************************)
EXTENDS Integers, Sequences, FiniteSets, WindowScan

CONSTANTS
    Devices,         \* disks and network interfaces
    Nullopt,         \* no value: an empty std::optional, a name not in a map
    UnitsPerSecond,  \* ticks of std::chrono::system_clock in a second
    StartTime,       \* the clock when the program starts
    ShrinkAfter,     \* windows between two shrink_to_fit, 32 in the code
    BootIo,          \* the values a counter may have when the program starts
    MaxLate,         \* bound: ticks by which a sleep or a reader is late
    MaxSamples,      \* bound: samples taken
    MaxClockSteps,   \* bound: times the clock is set back
    MaxIo            \* bound: operations on a device

\* A reader's map from names to counters; Nullopt where a name is not in it.
CounterMaps == [Devices -> Nat \cup {Nullopt}]
IoReportSamples == [time : Nat, ref : BOOLEAN]

\* class sample.  `epoch` and `issued` are history: how often the clock had been
\* set back at the stamp, and the operations done when the counters were read.
Samples == [time : Nat, major : BOOLEAN,
            io_report : IoReportSamples \cup {Nullopt},
            io : CounterMaps \cup {Nullopt},
            epoch : Nat, issued : [Devices -> Nat]]

ASSUME SamplerAssumption ==
    /\ UnitsPerSecond \in Nat \ {0}
    /\ ShrinkAfter \in Nat
    /\ BootIo \subseteq Nat
    /\ {StartTime, MaxLate, MaxSamples, MaxClockSteps, MaxIo} \subseteq Nat

\* Nullopt is no value of what it stands in for.
ASSUME NulloptAssumption ==
    Nullopt \notin Nat \cup IoReportSamples \cup CounterMaps \cup Samples

VARIABLES
    now,           \* system_clock::now()
    back_steps,    \* times the clock was set back
    attached,      \* devices the kernel lists
    counter,       \* a device's counter, as the kernel keeps it
    issued,        \* operations done on a device since the program started
    pc,            \* where sampler::sample stands
    building,      \* the sample hwinfo::sample is filling in
    sample_queue,
    pop_times,
    report,        \* what the callback is given, Nullopt when it is not called
    taken,         \* history: samples pushed
    reports,       \* history: calls of the callback
    reported,      \* history: operations the reports add up to, per device
    whole,         \* history: devices no sample and no report missed so far
    origin         \* history: `issued` at the first sample

kernel == <<now, back_steps, attached, counter, issued>>
history == <<taken, reports, reported, whole, origin>>
vars == <<kernel, pc, building, sample_queue, pop_times, report, history>>

NoIo == [d \in Devices |-> 0]

Init ==
    /\ now = StartTime /\ back_steps = 0
    /\ attached \in SUBSET Devices
    /\ counter \in [Devices -> BootIo]
    /\ issued = NoIo
    /\ pc = "ready"
    /\ building = Nullopt
    /\ sample_queue = <<>>
    /\ pop_times = 0
    /\ report = Nullopt
    /\ taken = 0 /\ reports = 0
    /\ reported = NoIo /\ whole = Devices /\ origin = NoIo

-----------------------------------------------------------------------------
(***************************************************************************)
(* hwinfo::sample_diff over the samples of a window; WindowScan says what  *)
(* its scan finds.                                                         *)
(***************************************************************************)

\* Mutation: the difference without the guards.
CounterDeltaUnguarded(start, end) == end - start
\* What one counter adds to a diff.  A counter that is 0 in either sample, or
\* that went down because the device came back, adds nothing.
CounterDelta(start, end) ==
    IF start > 0 /\ end > 0 /\ end >= start THEN end - start ELSE 0

Listed(counters) == {d \in Devices : counters[d] # Nullopt}

\* Mutation: a device the first sample misses counts from zero.
CounterDiffMissingIsZero(start, end) ==
    [d \in Devices |-> IF d \in Listed(start) \cap Listed(end)
                       THEN CounterDelta(start[d], end[d]) ELSE end[d]]
\* Only a device that both samples list has an entry.
CounterDiff(start, end) ==
    [d \in Devices |-> IF d \in Listed(start) \cap Listed(end)
                       THEN CounterDelta(start[d], end[d]) ELSE Nullopt]

\* The seconds by which calculate_watts divides; none without both references
\* or when the second stamp is not later.
PowerSeconds(start, end) ==
    IF start.ref /\ end.ref /\ end.time > start.time
    THEN {(end.time - start.time) \div UnitsPerSecond}
    ELSE {}

EmptyDiff == [kind |-> "empty", sample_num |-> 0, seconds |-> 0,
              power_seconds |-> {}, counters |-> [d \in Devices |-> Nullopt]]
\* Dereferencing an empty optional is undefined behaviour: no value is right.
UndefinedDiff == [EmptyDiff EXCEPT !.kind = "undefined"]

FullDiff(q, first, last) ==
    [kind |-> "full",
     sample_num |-> SampleNum(q),
     seconds |-> (last.time - first.time) \div UnitsPerSecond,
     power_seconds |-> PowerSeconds(first.io_report, last.io_report),
     counters |-> CounterDiff(first.io, last.io)]

HasPayloads(s) == s.io_report # Nullopt /\ s.io # Nullopt

\* The early returns; `begin == end` cannot be, the queue has six samples.
SampleDiff(q) ==
    IF ~Comparable(q) THEN EmptyDiff
    ELSE IF HasPayloads(q[1]) /\ HasPayloads(q[LastIndex(q)])
         THEN FullDiff(q, q[1], q[LastIndex(q)])
         ELSE UndefinedDiff

-----------------------------------------------------------------------------
(***************************************************************************)
(* The kernel.  Its steps interleave with those of the sampler.            *)
(***************************************************************************)

kernelOnly == <<pc, building, sample_queue, pop_times, report, taken, reports,
                reported, origin>>

\* The clock is set back, by an operator or a time server.  A step forward
\* looks like a sleep that is late.
StepClockBack ==
    /\ back_steps < MaxClockSteps
    /\ \E t \in 0..(now - 1) : now' = t
    /\ back_steps' = back_steps + 1
    /\ UNCHANGED <<attached, counter, issued, whole, kernelOnly>>

DoIo(d) ==
    /\ d \in attached
    /\ issued[d] < MaxIo
    /\ issued' = [issued EXCEPT ![d] = @ + 1]
    /\ counter' = [counter EXCEPT ![d] = @ + 1]
    /\ UNCHANGED <<now, back_steps, attached, whole, kernelOnly>>

\* A disk is unplugged, an interface destroyed.
Detach(d) ==
    /\ d \in attached
    /\ attached' = attached \ {d}
    /\ whole' = whole \ {d}
    /\ UNCHANGED <<now, back_steps, counter, issued, kernelOnly>>

\* It comes back under the same name and counts from zero.
Attach(d) ==
    /\ d \notin attached
    /\ attached' = attached \cup {d}
    /\ counter' = [counter EXCEPT ![d] = 0]
    /\ UNCHANGED <<now, back_steps, issued, whole, kernelOnly>>

Kernel == StepClockBack \/ \E d \in Devices : DoIo(d) \/ Detach(d) \/ Attach(d)

-----------------------------------------------------------------------------
(***************************************************************************)
(* sampler::sample.                                                        *)
(***************************************************************************)

\* Mutation: the window's size is taken for its stride.
IsMajorEverySixth(q) == Len(q) % 6 = 0
\* The argument of info_.sample.
IsMajor(q) == Len(q) % 5 = 0

\* sampler::sample evaluates `major`; the constructor of the sample stamps it.
BeginSample ==
    /\ pc = "ready"
    /\ taken < MaxSamples
    /\ building' = [time |-> now, major |-> IsMajor(sample_queue),
                    io_report |-> Nullopt, io |-> Nullopt,
                    epoch |-> back_steps, issued |-> issued]
    /\ pc' = "stamped"
    /\ UNCHANGED <<kernel, sample_queue, pop_times, report, history>>

\* io_report_.sample(): IOReportCreateSamples may return null; the stamp is
\* taken after it returns, when the SMC has been read too.
ReadIoReport ==
    /\ pc = "stamped"
    /\ building.major
    /\ \E late \in 0..MaxLate, ref \in BOOLEAN :
        /\ now' = now + late
        /\ building' = [building EXCEPT
               !.io_report = [time |-> now + late, ref |-> ref]]
    /\ pc' = "counters"
    /\ UNCHANGED <<back_steps, attached, counter, issued, sample_queue,
                   pop_times, report, history>>

\* Mutations: the queue is cleared; one sample too many stays.
KeepNone(q) == <<>>
KeepTwo(q) == SubSeq(q, 5, 6)
\* Five pop_front: the boundary sample starts the next window too.
KeepNewest(q) == SubSeq(q, 6, 6)

\* emplace_back, then the report when the window is complete.  `whole` keeps
\* the devices that every counter reading so far showed, above zero, and that
\* every report covers.
Push(s) ==
    LET q == Append(sample_queue, s)
        complete == Len(q) = 6
        diff == SampleDiff(q)
    IN /\ taken' = taken + 1
       /\ building' = Nullopt
       /\ pc' = "sleep"
       /\ IF complete
          THEN /\ report' = [diff |-> diff, quiet |-> q[1].epoch = back_steps]
               /\ reports' = reports + 1
               /\ reported' = [d \in Devices |-> reported[d] +
                      IF d \in Listed(diff.counters) THEN diff.counters[d]
                                                     ELSE 0]
               /\ sample_queue' = KeepNewest(q)
               /\ pop_times' = IF pop_times + 1 > ShrinkAfter
                               THEN 0 ELSE pop_times + 1
          ELSE /\ sample_queue' = q
               /\ UNCHANGED <<report, reports, reported, pop_times>>
       /\ whole' = IF complete /\ diff.kind # "full" THEN {}
                   ELSE IF s.io = Nullopt THEN whole
                   ELSE {d \in whole \cap Listed(s.io) : s.io[d] > 0}

\* The disk and the interface readers list the devices.  A device for which a
\* property cannot be read is left out, all of them when the call fails.
ReadCounters ==
    /\ pc = "counters"
    /\ \E seen \in SUBSET attached :
           Push([building EXCEPT
              !.io = [d \in Devices |-> IF d \in seen THEN counter[d]
                                                   ELSE Nullopt],
              !.issued = issued])
    /\ origin' = IF taken = 0 THEN issued ELSE origin
    /\ UNCHANGED kernel

\* A minor sample has no payload but the SMC's.
SkipReaders ==
    /\ pc = "stamped"
    /\ ~building.major
    /\ Push(building)
    /\ UNCHANGED <<kernel, origin>>

\* The caller's pause between two samples: sleep_for(1s) in the text and the
\* JSON loop, ten times sleep_for(100ms) in the terminal loop.
Sleep ==
    /\ pc = "sleep"
    /\ \E late \in 0..MaxLate : now' = now + UnitsPerSecond + late
    /\ pc' = "ready"
    /\ report' = Nullopt
    /\ UNCHANGED <<back_steps, attached, counter, issued, building,
                   sample_queue, pop_times, history>>

Next == \/ Kernel
        \/ BeginSample \/ ReadIoReport \/ ReadCounters \/ SkipReaders
        \/ Sleep

Spec == Init /\ [][Next]_vars

-----------------------------------------------------------------------------
(***************************************************************************)
(* Properties.                                                             *)
(***************************************************************************)

Diffs == [kind : {"empty", "full", "undefined"}, sample_num : Nat,
          seconds : Int, power_seconds : SUBSET Int, counters : CounterMaps]

\* Types.  In particular what the reports add up to never goes below zero:
\* an IO counter of a diff is a difference of unsigned kernel counters.
TypeOK ==
    /\ now \in Nat /\ back_steps \in Nat
    /\ attached \in SUBSET Devices
    /\ counter \in [Devices -> Nat] /\ issued \in [Devices -> Nat]
    /\ pc \in {"ready", "stamped", "counters", "sleep"}
    /\ building \in Samples \cup {Nullopt}
    /\ sample_queue \in Seq(Samples)
    /\ pop_times \in 0..ShrinkAfter
    /\ report \in [diff : Diffs, quiet : BOOLEAN] \cup {Nullopt}
    /\ taken \in Nat /\ reports \in Nat
    /\ reported \in [Devices -> Nat]
    /\ whole \in SUBSET Devices
    /\ origin \in [Devices -> Nat]

\* Between two calls the queue holds the last major sample and the minor ones
\* after it, never a whole window; a payload is there exactly in the major
\* one, and what is being built will be major exactly when it completes the
\* window or opens the first one (hwinfo.hpp:84).
QueueShape ==
    /\ Len(sample_queue) <= 5
    /\ \A i \in 1..Len(sample_queue) :
          /\ sample_queue[i].major <=> i = 1
          /\ IF i = 1 THEN HasPayloads(sample_queue[i])
                      ELSE sample_queue[i].io = Nullopt
    /\ pc = "sleep" => sample_queue # <<>>
    /\ pc \in {"stamped", "counters"} =>
          /\ building # Nullopt /\ building.io = Nullopt
          /\ building.major <=> Len(sample_queue) \in {0, 5}
    /\ pc = "counters" => building.major /\ building.io_report # Nullopt

\* sample_diff never dereferences an optional that holds nothing, although a
\* clock that is set back can make the scan stop at a minor sample
\* (hwinfo_osx.hpp:99, 140, 166, 191, 228).
NoUndefinedDiff == report # Nullopt => report.diff.kind # "undefined"

\* Every operation is reported at most once, and none that was done after the
\* sample that ended the last window, however windows overlap, devices
\* restart and readers miss them.
NoDoubleCount ==
    \A d \in Devices :
        reported[d] <= IF sample_queue = <<>> THEN 0
                                             ELSE sample_queue[1].issued[d]

\* Nothing falls between two windows: for a device that no reading and no
\* report missed, the reports add up to all of its operations from the first
\* sample to the last boundary.
Lossless ==
    \A d \in whole :
        sample_queue # <<>> =>
            reported[d] = sample_queue[1].issued[d] - origin[d]

\* A window during which the clock was not set back gives a full report of
\* its six samples over at least five seconds, for the rates as for the power.
QuietWindowIsFull ==
    report # Nullopt /\ report.quiet =>
        /\ report.diff.kind = "full"
        /\ report.diff.sample_num = 6
        /\ report.diff.seconds >= 5
        /\ \A s \in report.diff.power_seconds : s >= 5

\* The sampler delivers its reports with the cadence its callers rely on.
Cadence == INSTANCE ReportCadence WITH taken <- taken, reports <- reports
CadenceSpec == Cadence!Spec

\* The rates of a diff are per second (metric.hpp:163, 189): the seconds they
\* are divided by are not zero.  Does not hold, see the README.
RatesArePerSecond ==
    report # Nullopt /\ report.diff.kind = "full" => report.diff.seconds > 0

=============================================================================
