---------------------------- MODULE MCSampleDiff ----------------------------
(* hwinfo::sample_diff: the scan of the window (DiffScan) and the readers'   *)
(* diffs, which share no state.  One of them is at work, from each of its    *)
(* initial states; the others rest in one of theirs, so that the state space *)
(* is the sum of theirs.                                                     *)
EXTENDS DiffScan

CONSTANTS
    SmcBrands, OddRows, Window,                                 \* SmcReader
    Cores, Half, Uptimes,  Loads, Memories, MaxSamples,         \* LoadReaders
    Clocks, Kilo, Mega, Flaws, Channels, Durations, MaxItems    \* IoReportDiff

VARIABLES
    at_work,    \* "scan", "smc", "load" or "io"
    smc_brand, answer, smc_pc, conn, at, cache_keys, valid, samples, readings, smc_diff,
    ticks, memory, taken, start, end, load_report, was, load_pc,
    brand, pmgr, lists, duration, walked, diff, io_report, io_pc

smc_vars == <<smc_brand, answer, smc_pc, conn, at, cache_keys, valid, samples, readings, smc_diff>>
load_vars == <<ticks, memory, taken, start, end, load_report, was, load_pc>>
io_vars == <<brand, pmgr, lists, duration, walked, diff, io_report, io_pc>>

Smc == INSTANCE SmcReader WITH Brands <- SmcBrands, brand <- smc_brand, pc <- smc_pc, diff <- smc_diff
Load == INSTANCE LoadReaders WITH report <- load_report, pc <- load_pc
Io == INSTANCE IoReportDiff WITH report <- io_report, pc <- io_pc

ASSUME ReadersAssumption == Smc!Assumption /\ Load!Assumption /\ Io!Assumption

-----------------------------------------------------------------------------
ScanRests == Init /\ window = <<>>
SmcRests == /\ Smc!Init
            /\ smc_brand = "unknown" /\ answer = (CHOOSE a \in Smc!Answers("unknown") : TRUE)
LoadRests == /\ Load!Init
             /\ memory = (CHOOSE m \in Memories : TRUE) /\ ticks[1]["idle"] = 0
IoRests == /\ Io!Init
           /\ brand = Io!Unknown /\ pmgr = Io!Pmgr(Io!Unknown, {})
           /\ duration = (CHOOSE d \in Durations : TRUE)

MCInit ==
    \/ at_work = "scan" /\ SmcRests /\ LoadRests /\ IoRests /\ Init
    \/ at_work = "smc" /\ ScanRests /\ LoadRests /\ IoRests /\ Smc!Init
    \/ at_work = "load" /\ ScanRests /\ SmcRests /\ IoRests /\ Load!Init
    \/ at_work = "io" /\ ScanRests /\ SmcRests /\ LoadRests /\ Io!Init

MCNext ==
    \/ at_work = "scan" /\ Next /\ UNCHANGED <<at_work, smc_vars, load_vars, io_vars>>
    \/ at_work = "smc" /\ Smc!Next /\ UNCHANGED <<at_work, vars, load_vars, io_vars>>
    \/ at_work = "load" /\ Load!Next /\ UNCHANGED <<at_work, vars, smc_vars, io_vars>>
    \/ at_work = "io" /\ Io!Next /\ UNCHANGED <<at_work, vars, smc_vars, load_vars>>

MCSpec == MCInit /\ [][MCNext]_<<at_work, vars, smc_vars, load_vars, io_vars>>

-----------------------------------------------------------------------------
(* Properties, by the names they have in their modules. *)

\* A report has the valid sensors, with their own means and summaries.
SensorsAreExact == Smc!SensorsAreExact

\* The load is that of the window, the memory that of its end.
LoadAndMemoryAreExact == Load!LoadAndMemoryAreExact
\* A report has errors exactly if a call failed at an end of its window.
ErrorsMatchFailures == Load!ErrorsMatchFailures

\* Frequencies are weighted means of clocks, power is the energy of all channels.
FrequencyAndPowerAreExact == Io!FrequencyAndPowerAreExact
\* The extremes of the frequencies are those of the cores that ran.
ExtremesAreOfCores == Io!ExtremesAreOfCores

-----------------------------------------------------------------------------
(* Values: counters near the change of sign of 4-bit ints. *)
Spent(user, system, idle, nice) == [user |-> user, system |-> system, idle |-> idle, nice |-> nice]

Memory(wire, active, inactive, free, compressor) ==
    [wire |-> wire, active |-> active, inactive |-> inactive, free |-> free, compressor |-> compressor]

MCLoads == {Spent(0, 0, 0, 0), Spent(2, 1, 3, 0), Spent(0, 3, 1, 1)}
MCMemories == {Memory(1, 2, 3, 4, 5), Memory(2, 2, 0, 1, 0)}

(* Two cores of a kind with an idle one among them, names that cannot be read. *)
MCClocks == [e |-> <<6, 10>>, p |-> <<7, 20, 32>>, s |-> <<9, 40>>, gpu |-> <<4, 13>>]

(* The states without a clock, as IoReportDiff names them. *)
Idle == -1
Down == -2
Off == -3
St(name, n) == [name |-> name, ticks |-> n]
Channel(group, name, device, core, unit, value, states) ==
    [group |-> group, name |-> name, device |-> device, core |-> core,
     unit |-> unit, value |-> value, states |-> states]

Energy(name, device, core, unit, value) ==
    Channel("energy_model", name, device, core, unit, value, <<>>)
CpuStates(name, device, core, states) == Channel("cpu_stats", name, device, core, "", 0, states)

MCChannels ==
    {Energy("DIE_0_CPU Energy", "cpu", 0, "mJ", 3), Energy("DIE_1_CPU Energy", "cpu", 0, "uJ", 4),
     Energy("DRAM0", "dram", 0, "nJ", 2), Energy("AVE", "other", 0, "mJ", 2),
     Energy("ECPU0", "e_cpu_core", 1, "mJ", 1), Energy("ECPU", "e_cpu_core", 0, "mJ", 5),
     Energy("GPU SRAM0", "gpu_sram", 0, "?", 5)}
  \cup {CpuStates("ECPU000", "e_cpu_core", 1,
                  <<St(Down, d), St(Idle, 3), St(0, 2), St(1, d)>>) : d \in {0, 1}}
  \cup {CpuStates("ECPU010", "e_cpu_core", 11,
                  <<St(Idle, 5), St(0, 0), St(1, d), St(2, 4)>>) : d \in {0, 1}}
  \cup {CpuStates("PCPU000", "p_cpu_core", 1,
                  <<St(Down, 1), St(Idle, 1), St(0, 1), St(1, d), St(2, 2)>>) : d \in {0, 3}}
  \cup {CpuStates("PCPU_", "p_cpu_core", 0, <<St(0, 1)>>)}
  \cup {Channel("gpu_stats", "GPUPH", "gpu", 0, "", 0,
                <<St(Off, 2), St(0, 1), St(1, d)>>) : d \in {0, 2}}

MCFlaws == {{}, {"states1"}, {"states5", "states9"}}
=============================================================================
