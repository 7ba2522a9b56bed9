---------------------------- MODULE IoReportDiff -----------------------------
(***************************************************************************)
(* What io_report::sample_diff (detail/osx_io_report.cpp) makes of the     *)
(* channels of a window with the frequency lists that sys_info::init       *)
(* (detail/osx_sys_info.cpp) has read, and what hwinfo::sample_diff makes  *)
(* of that: the frequency of each core, of each type and of the GPU, and   *)
(* the power of each device.                                               *)
(*                                                                         *)
(* A frequency is a fraction of two sums; 0 of 0 is not a number.          *)
(***************************************************************************)
EXTENDS Integers, Sequences, FiniteSets, SequencesExt

CONSTANTS
    Clocks,         \* the frequencies in MHz of a chip: [e, p, s, gpu -> Seq(Nat)]
    Kilo, Mega,     \* what the units of the tables make of 1 MHz
    Flaws,          \* subsets of Keys: the properties that pmgr lacks
    Channels,       \* the channels a window may have, with their values
    Durations,      \* lengths of a window in milliseconds
    MaxItems        \* bound: channels in a window

Keys == {"states1", "states5", "states9", "states22"}
Unknown == 0
Brands == Unknown..5
Idle == -1
Down == -2
Off == -3

\* What the constants have to be: what the tables add to a clock is less than
\* a MHz; a channel of a core or of the GPU lists the states that have a clock
\* in the order of their clocks; the GPU has one channel.
Assumption ==
    /\ Clocks \in [e : Seq(Nat), p : Seq(Nat), s : Seq(Nat), gpu : Seq(Nat)]
    /\ Kilo \in Nat /\ Mega \in Nat
    /\ \A k \in DOMAIN Clocks : Len(Clocks[k]) + 1 < Kilo /\ Len(Clocks[k]) + 1 < Mega
    /\ Durations \subseteq Nat /\ MaxItems \in Nat
    /\ \A item \in Channels :
          /\ item.value \in Nat /\ item.states \in Seq([name : {Idle, Down, Off} \cup Nat, ticks : Nat])
          /\ item.group = "cpu_stats" => item.device \in {"e_cpu_core", "p_cpu_core"}
          /\ item.group = "gpu_stats" => item.device = "gpu"
          /\ \A i \in DOMAIN item.states :
                item.states[i].name >= 0 =>
                    item.states[i].name = Cardinality({j \in 1..(i - 1) : item.states[j].name >= 0})
    /\ \A c, d \in Channels : c.group = "gpu_stats" /\ d.group = "gpu_stats" => c.name = d.name

VARIABLES
    brand,      \* sys_info.cpu_brand_; m1 is 1
    pmgr,       \* properties of the device pmgr: its tables by key
    lists,      \* the dynamic_freq_lists of sys_info
    duration,   \* diff.sample_duration
    walked,     \* the channels of the delta, those the loop has seen
    diff,       \* the diff of the loop
    report,     \* cpu_freq, and cpu_core_type_freq by the type of the cores
    pc

vars == <<brand, pmgr, lists, duration, walked, diff, report, pc>>

\* The tables of a chip: pairs of eight bytes, in kHz from m4 on, with the
\* clock of a GPU that is off in front.
Table(clock, unit) == [size |-> 8 * Len(clock), freqs |-> [i \in DOMAIN clock |-> clock[i] * unit + i]]

Pmgr(b, flaws) ==
    LET unit == IF b >= 4 THEN Kilo ELSE Mega
        table == [k \in Keys |->
                    CASE k = "states1" -> Table(Clocks.e, unit)
                      [] k = "states5" -> Table(IF b >= 5 THEN Clocks.s ELSE Clocks.p, unit)
                      [] k = "states22" -> Table(Clocks.p, unit)
                      [] k = "states9" -> Table(<<0>> \o Clocks.gpu, unit)]
    IN [k \in Keys \ flaws |-> table[k]]

NoLists == [e |-> <<>>, p |-> <<>>, s |-> <<>>, gpu |-> <<>>]
NoDiff == [gpu_freq |-> <<0, 1>>, freqs |-> <<>>, power |-> [d \in {} |-> 0], core_power |-> <<>>]
NoReport == [cpu_freq |-> [max |-> <<0, 1>>, min |-> <<0, 1>>, nan |-> FALSE],
             types |-> [t \in {} |-> 0]]

Init ==
    /\ brand \in Brands
    /\ \E flaws \in Flaws : pmgr = Pmgr(brand, flaws)
    /\ duration \in Durations
    /\ lists = NoLists /\ walked = <<>> /\ diff = NoDiff /\ report = NoReport
    /\ pc = "init"

-----------------------------------------------------------------------------
(***************************************************************************)
(* get_xpu_dynamic_freq_list.                                              *)
(***************************************************************************)

\* The clocks of a table are in kHz from m4 on, in Hz before.
Megahertz(freq) == freq \div (IF brand >= 4 THEN Kilo ELSE Mega)

\* The clocks of a table without its first ones; a table with half a pair is none.
GetFreq(key, skip) ==
    IF key \in DOMAIN pmgr /\ pmgr[key].size % 8 = 0
    THEN LET freqs == pmgr[key].freqs
         IN [i \in 1..(Len(freqs) - skip) |-> Megahertz(freqs[i + skip])]
    ELSE <<>>

\* The lists stay empty if the brand is unknown, if there is no pmgr or if its
\* properties cannot be read; the initialisation succeeds.
NoPmgr == pc = "init" /\ pc' = "walk" /\ UNCHANGED <<brand, pmgr, lists, duration, walked, diff, report>>

ReadPmgr ==
    /\ pc = "init" /\ brand # Unknown
    /\ lists' = [e |-> IF brand >= 5 THEN <<>> ELSE GetFreq("states1", 0),
                 p |-> GetFreq(IF brand >= 5 THEN "states22" ELSE "states5", 0),
                 s |-> IF brand >= 5 THEN GetFreq("states5", 0) ELSE <<>>,
                 gpu |-> GetFreq("states9", 1)]
    /\ pc' = "walk"
    /\ UNCHANGED <<brand, pmgr, duration, walked, diff, report>>

-----------------------------------------------------------------------------
(***************************************************************************)
(* The loop over the channels of the delta.                                *)
(***************************************************************************)

\* Mutation: the frequencies go along with all states.
ActiveWithIdle(st) == TRUE

\* The states in which a core or the GPU runs.
Active(st) == st.name \notin {Idle, Down, Off}

\* A turn of the loop of calculate_freq: an active state has the next frequency of the list, as
\* long as there is one.
WeighState(list, f, st) ==
    IF ~Active(st) \/ f.next > Len(list) THEN f
    ELSE [sum |-> f.sum + st.ticks * list[f.next], ticks |-> f.ticks + st.ticks, next |-> f.next + 1]

\* calculate_freq: the list's frequencies in their order, weighted with the
\* ticks of the active states in theirs, until one of the two ends.
CalculateFreq(item, list) ==
    LET f == FoldLeft(LAMBDA g, st : WeighState(list, g, st), [sum |-> 0, ticks |-> 0, next |-> 1], item.states)
    IN <<f.sum, f.ticks>>

\* Mutation: the units but the first are a thousand apart from what they are.
PerJouleShifted == [mJ |-> 1000, uJ |-> 1000000000, nJ |-> 1000000]

\* What a unit's value is divided by for joules; another unit counts nothing.
PerJoule == [mJ |-> 1000, uJ |-> 1000000, nJ |-> 1000000000]

\* calculate_watts, in billionths so that it is whole, over whole seconds; a
\* fraction again.
CalculateWatts(item) ==
    <<IF item.unit \in DOMAIN PerJoule THEN item.value * (1000000000 \div PerJoule[item.unit]) ELSE 0,
      duration \div 1000>>

\* power_consumptions[device] += watts; all watts have the same denominator.
AddPower(power, device, watts) ==
    [d \in DOMAIN power \cup {device} |->
        IF d # device THEN power[d]
        ELSE IF d \in DOMAIN power THEN <<power[d][1] + watts[1], watts[2]>> ELSE watts]

\* The energy of a device, or of a core whose number could be read: a name
\* without one ends in a way that from_chars does not accept.
WalkEnergy(item) ==
    /\ item.group = "energy_model"
    /\ diff' = CASE item.device \in {"gpu", "cpu", "npu", "dram", "gpu_sram"} ->
                      [diff EXCEPT !.power = AddPower(@, item.device, CalculateWatts(item))]
                 [] item.device \in {"e_cpu_core", "p_cpu_core", "e_cpu_core_sram", "p_cpu_core_sram"}
                        /\ item.core # 0 ->
                      [diff EXCEPT !.core_power =
                          Append(@, [device |-> item.device, core |-> item.core, watts |-> CalculateWatts(item)])]
                 [] OTHER -> diff

\* The list of the cores of a channel: the name of a channel tells them.
ListOf(item) == IF item.device = "e_cpu_core" THEN lists.e ELSE lists.p

WalkCpu(item) ==
    /\ item.group = "cpu_stats"
    /\ diff' = IF ListOf(item) # <<>> /\ item.core # 0
               THEN [diff EXCEPT !.freqs =
                        Append(@, [device |-> item.device, core |-> item.core,
                                   freq |-> CalculateFreq(item, ListOf(item))])]
               ELSE diff

WalkGpu(item) ==
    /\ item.group = "gpu_stats"
    /\ diff' = IF lists.gpu # <<>> THEN [diff EXCEPT !.gpu_freq = CalculateFreq(item, lists.gpu)] ELSE diff

Walk ==
    /\ pc = "walk" /\ Len(walked) < MaxItems
    /\ \E item \in Channels :
          /\ \A i \in DOMAIN walked : walked[i].name # item.name
          /\ WalkEnergy(item) \/ WalkCpu(item) \/ WalkGpu(item)
          /\ walked' = Append(walked, item)
    /\ UNCHANGED <<brand, pmgr, lists, duration, report, pc>>

-----------------------------------------------------------------------------
(***************************************************************************)
(* hwinfo::sample_diff.                                                    *)
(***************************************************************************)
NotANumber(f) == f[2] = 0

\* f > g; a comparison with what is not a number is false.
Exceeds(f, g) == ~NotANumber(f) /\ ~NotANumber(g) /\ f[1] * g[2] > g[1] * f[2]

Greater(best, f) == IF Exceeds(f, best) THEN f ELSE best
Less(best, f) == IF Exceeds(best, f) THEN f ELSE best

\* Mutation: the extremes start from zero.
StatValuesFromZero(q) ==
    [max |-> FoldLeft(Greater, <<0, 1>>, q),
     min |-> FoldLeft(Less, <<0, 1>>, q),
     nan |-> \E i \in DOMAIN q : NotANumber(q[i])]

\* stat_values: the extremes start from the first value; of the mean, whether
\* it is a number.
StatValues(q) ==
    IF q = <<>> THEN NoReport.cpu_freq
    ELSE [max |-> FoldLeft(Greater, q[1], q),
          min |-> FoldLeft(Less, q[1], q),
          nan |-> \E i \in DOMAIN q : NotANumber(q[i])]

Freqs(rows) == [i \in DOMAIN rows |-> rows[i].freq]
FreqsOf(device) == Freqs(SelectSeq(diff.freqs, LAMBDA row : row.device = device))

Summarise ==
    /\ pc = "walk"
    /\ report' = [cpu_freq |-> StatValues(Freqs(diff.freqs)),
                  types |-> [t \in {d \in {"e_cpu_core", "p_cpu_core", "s_cpu_core"} : FreqsOf(d) # <<>>}
                               |-> StatValues(FreqsOf(t))]]
    /\ pc' = "done"
    /\ UNCHANGED <<brand, pmgr, lists, duration, walked, diff>>

Next == NoPmgr \/ ReadPmgr \/ Walk \/ Summarise

Spec == Init /\ [][Next]_vars

-----------------------------------------------------------------------------
\* The clock a device ran at in the state of that number.
ClockOf(item) ==
    CASE item.device = "e_cpu_core" -> Clocks.e
      [] item.device = "p_cpu_core" -> Clocks.p
      [] item.device = "gpu" -> Clocks.gpu

\* One more state: the time in a state that has a clock counts with it.
AddState(clock, f, st) ==
    IF st.name \in 0..(Len(clock) - 1) THEN <<f[1] + st.ticks * clock[st.name + 1], f[2] + st.ticks>> ELSE f

\* The mean clock of an item in the window, by the numbers of its states.
MeanClock(item) == FoldLeft(LAMBDA f, st : AddState(ClockOf(item), f, st), <<0, 0>>, item.states)

\* Every frequency of a core is the mean of the clocks it ran at, weighted with
\* the time; so is that of the GPU.
FrequenciesAreMeans ==
    /\ \A r \in ToSet(diff.freqs) :
          \E item \in ToSet(walked) :
             /\ item.group = "cpu_stats" /\ item.device = r.device /\ item.core = r.core
             /\ r.freq = MeanClock(item)
    /\ \A item \in ToSet(walked) :
          item.group = "gpu_stats" /\ lists.gpu # <<>> => diff.gpu_freq = MeanClock(item)

\* The extremes are those of the cores that ran, but if the first core did not;
\* a core that did not takes the mean with it.
ExtremesAreOfCores ==
    pc = "done" /\ diff.freqs # <<>> /\ ~NotANumber(diff.freqs[1].freq) =>
        LET ran == {f \in ToSet(Freqs(diff.freqs)) : ~NotANumber(f)}
            stats == report.cpu_freq
        IN /\ stats.max \in ran /\ stats.min \in ran
           /\ \A f \in ran : ~Exceeds(f, stats.max) /\ ~Exceeds(stats.min, f)
           /\ stats.nan <=> ToSet(Freqs(diff.freqs)) # ran

\* The energy of a channel by the prefix of its unit, each a thousand of the next.
Nanojoules(item) ==
    CASE item.unit = "mJ" -> item.value * 1000 * 1000
      [] item.unit = "uJ" -> item.value * 1000
      [] item.unit = "nJ" -> item.value
      [] OTHER -> 0

\* The energy a channel has of a device, and the channels of a series.
EnergyIn(d, item) == IF item.group = "energy_model" /\ item.device = d THEN Nanojoules(item) ELSE 0
EnergyOf(d, items) == FoldLeft(LAMBDA n, item : n + EnergyIn(d, item), 0, items)

\* The power of the cores that the channels among the items are of.
CoresIn(items) ==
    {[device |-> c.device, core |-> c.core, watts |-> <<Nanojoules(c), duration \div 1000>>] :
        c \in {item \in items :
                /\ item.group = "energy_model" /\ item.core # 0
                /\ item.device \in {"e_cpu_core", "p_cpu_core", "e_cpu_core_sram", "p_cpu_core_sram"}}}

\* The power of a device in the whole seconds of the window is the energy of
\* all its channels, each in its own unit, in whatever order they come; a device
\* left out has none.  A core has that of its channel.
PowerAddsUp ==
    /\ \A d \in {"gpu", "cpu", "npu", "dram", "gpu_sram"} :
          IF d \in DOMAIN diff.power
          THEN diff.power[d] = <<EnergyOf(d, walked), duration \div 1000>>
          ELSE EnergyOf(d, walked) = 0
    /\ ToSet(diff.core_power) = CoresIn(ToSet(walked))

\* What a diff has of every device is what its channels counted.
FrequencyAndPowerAreExact == FrequenciesAreMeans /\ PowerAddsUp
=============================================================================
