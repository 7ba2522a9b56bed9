---------------------------- MODULE LoadReaders -----------------------------
(***************************************************************************)
(* The readers of the CPU load and of the memory (detail/                  *)
(* osx_cpu_load_reader.cpp, detail/osx_mem_info_reader.cpp) and what       *)
(* hwinfo::sample_diff makes of them, over windows that share their        *)
(* boundary sample: ticks in a machine integer that changes its sign,      *)
(* calls of the kernel that fail, and the errors on their way to the       *)
(* report.                                                                 *)
(***************************************************************************)
EXTENDS Integers, Sequences, FiniteSets, SequencesExt

CONSTANTS
    Cores,          \* number of CPU cores
    Half,           \* the least int is -Half, 2^31 in the program
    Uptimes,        \* ticks of every counter when the program starts
    Loads,          \* ticks a core may spend in a window: [Kinds -> Nat]
    Memories,       \* pages of each kind: [Pages -> Nat]
    MaxSamples      \* bound: major samples taken

Kinds == {"user", "system", "idle", "nice"}
Pages == {"wire", "active", "inactive", "free", "compressor"}

\* What the constants have to be.
Assumption ==
    /\ Cores \in Nat \ {0} /\ Half \in Nat \ {0} /\ Uptimes \subseteq Nat
    /\ Loads \subseteq [Kinds -> Nat] /\ Memories \subseteq [Pages -> Nat]
    /\ \A load \in Loads : \A k \in Kinds : load[k] < 2 * Half    \* 497 days of ticks

VARIABLES
    ticks,      \* the kernel's counters of each core, as if they never ended
    memory,     \* the kernel's page counts
    taken,      \* major samples taken
    start,      \* the first sample of the window
    end,        \* the last one
    report,     \* what the last window's sample_diff has of CPU and memory
    was,        \* history: the machine when `start` was taken
    pc          \* "work", "sample", "diff" or "next"

vars == <<ticks, memory, taken, start, end, report, was, pc>>

NoSample == [loads |-> <<>>, load_errors |-> <<>>, stats |-> [p \in Pages |-> 0], mem_errors |-> <<>>]
NoReport == [usage |-> <<>>, cpu_usage |-> <<0, 1>>, total |-> 0, used |-> 0, available |-> 0,
             free |-> 0, errors |-> <<>>]

Init ==
    /\ \E n \in Uptimes : ticks = [c \in 1..Cores |-> [k \in Kinds |-> n]]
    /\ memory \in Memories
    /\ taken = 0 /\ start = NoSample /\ end = NoSample
    /\ report = NoReport /\ was = [ticks |-> ticks, memory |-> memory]
    /\ pc = "sample"

-----------------------------------------------------------------------------
\* The machine works for a window.
Work ==
    /\ pc = "work" /\ taken < MaxSamples
    /\ \E load \in [1..Cores -> Loads] :
          ticks' = [c \in 1..Cores |-> [k \in Kinds |-> ticks[c][k] + load[c][k]]]
    /\ memory' \in Memories
    /\ pc' = "sample"
    /\ UNCHANGED <<taken, start, end, report, was>>

\* A counter of the kernel in an int.
ToInt(n) == ((n + Half) % (2 * Half)) - Half

\* cpu_load_reader::sample and mem_info_reader::sample: the values, or the
\* error of the call.
LoadSample(error) ==
    IF error = <<>> THEN [c \in 1..Cores |-> [k \in Kinds |-> ToInt(ticks[c][k])]] ELSE <<>>

MemSample(error) == IF error = <<>> THEN memory ELSE NoSample.stats

Sample ==
    /\ pc = "sample"
    /\ \E load_error \in {<<>>, <<<<"load", taken + 1>>>>}, mem_error \in {<<>>, <<<<"memory", taken + 1>>>>} :
          end' = [loads |-> LoadSample(load_error), load_errors |-> load_error,
                  stats |-> MemSample(mem_error), mem_errors |-> mem_error]
    /\ taken' = taken + 1
    /\ pc' = IF taken = 0 THEN "next" ELSE "diff"
    /\ UNCHANGED <<ticks, memory, start, report, was>>

-----------------------------------------------------------------------------
(***************************************************************************)
(* The diffs.                                                              *)
(***************************************************************************)

\* Mutation: the difference of the ints, as it is.
DeltaUnguarded(a, b) == b - a

\* A counter that went down counts as one that stood still.
Delta(a, b) == IF b >= a THEN b - a ELSE 0

\* Mutation: the errors of the first sample are left to the window before.
LoadDiffOfEnd ==
    IF Len(start.loads) # Len(end.loads)
    THEN [loads |-> <<>>, errors |-> end.load_errors]
    ELSE [loads |-> [c \in DOMAIN start.loads |->
                        [k \in Kinds |-> Delta(start.loads[c][k], end.loads[c][k])]],
          errors |-> end.load_errors]

\* An error is the call it is of and the sample; this one is of no call.
InvalidArgument == <<"invalid_argument", 0>>

\* cpu_load_reader::sample_diff: a sample without loads does not match one
\* with them, and the mismatch stands for the error that caused it.
LoadDiff ==
    IF Len(start.loads) # Len(end.loads)
    THEN [loads |-> <<>>, errors |-> <<InvalidArgument>>]
    ELSE [loads |-> [c \in DOMAIN start.loads |->
                        [k \in Kinds |-> Delta(start.loads[c][k], end.loads[c][k])]],
          errors |-> start.load_errors \o end.load_errors]

\* mem_info_reader::sample_diff: the pages of the end.
MemDiff == [stats |-> end.stats, errors |-> start.mem_errors \o end.mem_errors]

\* Shares are fractions of two numbers; 0 of 0 is not a number.
Usage(load) == <<load.user + load.system, load.user + load.system + load.idle + load.nice>>

NotANumber(f) == f[2] = 0

\* The mean of the cores; not a number if one of them is not.
CpuUsage(usage) ==
    FoldLeft(LAMBDA f, u : IF NotANumber(f) \/ NotANumber(u) THEN <<0, 0>>
                           ELSE <<f[1] * u[2] * Len(usage) + u[1] * f[2], f[2] * u[2] * Len(usage)>>,
             <<0, 1>>, usage)

\* The CPU and memory parts of hwinfo::sample_diff.
SampleDiff ==
    LET load == LoadDiff
        mem == MemDiff
        s == mem.stats
        usage == [c \in DOMAIN load.loads |-> Usage(load.loads[c])]
        total == s.wire + s.active + s.inactive + s.free + s.compressor
    IN [usage |-> usage,
        cpu_usage |-> CpuUsage(usage),
        total |-> total,
        used |-> IF total > 0 THEN s.wire + s.active ELSE 0,
        available |-> IF total > 0 THEN s.free + s.inactive + s.compressor ELSE 0,
        free |-> IF total > 0 THEN s.free ELSE 0,
        errors |-> load.errors \o mem.errors]

\* The sixth sample of the queue: a report is made of the window.
Diff ==
    /\ pc = "diff"
    /\ report' = SampleDiff
    /\ pc' = "next"
    /\ UNCHANGED <<ticks, memory, taken, start, end, was>>

\* The last sample of a window is the first of the next.
NextWindow ==
    /\ pc = "next"
    /\ start' = end
    /\ was' = [ticks |-> ticks, memory |-> memory]
    /\ report' = NoReport
    /\ pc' = "work"
    /\ UNCHANGED <<ticks, memory, taken, end>>

\* The bound is reached.
Done == pc = "work" /\ taken = MaxSamples /\ UNCHANGED vars

Next == Work \/ Sample \/ Diff \/ NextWindow \/ Done

Spec == Init /\ [][Next]_vars

-----------------------------------------------------------------------------
Reported == pc = "next" /\ taken > 1
Failed(sample) == sample.load_errors # <<>>

\* A counter passed from the greatest int to the least in this window.
Crossed(c, k) == ToInt(was.ticks[c][k]) > ToInt(ticks[c][k])

\* The usage of a core is the share of the ticks it really spent, but for the
\* kinds whose counter changed its sign, which are missed for one window.
UsageIsExact ==
    Reported /\ ~Failed(start) /\ ~Failed(end) =>
        /\ Len(report.usage) = Cores
        /\ \A c \in 1..Cores :
              LET spent == [k \in Kinds |-> IF Crossed(c, k) THEN 0
                                            ELSE ticks[c][k] - was.ticks[c][k]]
              IN report.usage[c] = <<spent["user"] + spent["system"],
                                     spent["user"] + spent["system"] + spent["idle"] + spent["nice"]>>
        /\ \/ NotANumber(report.cpu_usage)
           \/ 0 <= report.cpu_usage[1] /\ report.cpu_usage[1] <= report.cpu_usage[2]

\* A report without usage says why, and one that could be made is not spoilt:
\* errors are reported exactly if a call failed at one end of the window.
ErrorsMatchFailures ==
    Reported =>
        /\ (report.usage = <<>> <=> Failed(start) \/ Failed(end))
        /\ (report.errors = <<>> <=> /\ start.load_errors \o end.load_errors = <<>>
                                     /\ start.mem_errors \o end.mem_errors = <<>>)

\* The memory of a report is the machine's at the end of the window, in shares
\* that make up the whole; it is all 0 only if it could not be read.
MemoryIsOfTheEnd ==
    Reported =>
        IF end.mem_errors # <<>>
        THEN report.total = 0 /\ report.used = 0 /\ report.available = 0 /\ report.free = 0
        ELSE /\ report.used + report.available = report.total
             /\ report.used = memory.wire + memory.active
             /\ report.free = memory.free
             /\ report.free <= report.available

\* What a report has of load and memory is what the machine did in the window
\* and had at its end.
LoadAndMemoryAreExact == UsageIsExact /\ MemoryIsOfTheEnd
=============================================================================
