----------------------------- MODULE SmcReader -----------------------------
(***************************************************************************)
(* The sensors of the system management controller (detail/                *)
(* osx_smc_reader.cpp/.hpp) and the summaries that hwinfo::sample_diff     *)
(* draws from them: which keys of the brand's tables are found valid once, *)
(* what a sample reads of them, and how the samples of a window are merged *)
(* by position.                                                            *)
(*                                                                         *)
(* A key is the pair of its table and row; no key is in two tables of one  *)
(* brand.  Two tables of cpu cores are declared longer than they are       *)
(* filled: their last rows are value-initialised and share the key 0.      *)
(***************************************************************************)
EXTENDS Integers, Sequences, FiniteSets, FiniteSetsExt

CONSTANTS
    Brands,       \* cpu_brand of the machine, "unknown" included
    OddRows,      \* bound: rows whose keys may be missing, odd, or fail to be read
    Window        \* bound: samples of a window, 6 in the program

Assumption == Window \in Nat \ {0}

Tables == <<"cpu_core", "gpu_core", "dram", "storage", "battery", "fan">>

-----------------------------------------------------------------------------
(***************************************************************************)
(* The tables: rows of a device with its sequential number.                *)
(***************************************************************************)
Nums(n) == [i \in 1..n |-> i]
Rows(device, nums) == [i \in DOMAIN nums |-> [device |-> device, num |-> nums[i]]]

\* A value-initialised known_key: key, size, type and number are 0.
Padding == [device |-> "unknown", num |-> 0]

CpuCoreRows(brand) ==
    CASE brand = "m1" -> Rows("e_cpu_core", Nums(2)) \o Rows("p_cpu_core", Nums(8))
      [] brand = "m2" -> Rows("e_cpu_core", Nums(4)) \o Rows("p_cpu_core", Nums(8))
                         \o <<Padding, Padding>>
      [] brand = "m3" -> Rows("e_cpu_core", Nums(4)) \o Rows("p_cpu_core", Nums(12))
      [] brand = "m4" -> Rows("e_cpu_core", Nums(4)) \o Rows("p_cpu_core", Nums(8))
                         \o <<Padding, Padding, Padding, Padding>>
      [] brand = "m5" -> Rows("s_cpu_core", Nums(6)) \o Rows("p_cpu_core", Nums(12))
      [] OTHER -> <<>>

GpuCoreRows(brand) ==
    CASE brand = "m1" -> Rows("gpu_core", Nums(4))
      [] brand = "m2" -> Rows("gpu_core", Nums(2))
      [] brand \in {"m3", "m5"} -> Rows("gpu_core", Nums(8))
      [] brand = "m4" -> Rows("gpu_core", Nums(2) \o Nums(8))
      [] OTHER -> <<>>

DramRows(brand) ==
    CASE brand = "m1" -> Rows("dram", Nums(4))
      [] brand = "m4" -> Rows("dram", Nums(3))
      [] OTHER -> <<>>

KnownKeys(brand, table) ==
    CASE table = "cpu_core" -> CpuCoreRows(brand)
      [] table = "gpu_core" -> GpuCoreRows(brand)
      [] table = "dram"     -> DramRows(brand)
      [] table = "storage"  -> Rows("nand", Nums(1))
      [] table = "battery"  -> Rows("battery", Nums(10))
      [] table = "fan"      -> Rows("fan", Nums(10))

RowAt(brand, r) == KnownKeys(brand, Tables[r[1]])[r[2]]
Key(brand, r) == IF RowAt(brand, r) = Padding THEN <<0, 0>> ELSE r

\* All rows of a brand in the order of check(), by table and row.
RowsOf(brand) == {r \in (1..6) \X (1..18) : r[2] <= Len(KnownKeys(brand, Tables[r[1]]))}
KeysOf(brand) == {Key(brand, r) : r \in RowsOf(brand)}

\* The rows in the order in which sample() reads them.
RowsOfTable(brand, t) == [i \in DOMAIN KnownKeys(brand, Tables[t]) |-> <<t, i>>]
TemperatureRows(brand) ==
    RowsOfTable(brand, 1) \o RowsOfTable(brand, 2) \o RowsOfTable(brand, 3)
        \o RowsOfTable(brand, 4) \o RowsOfTable(brand, 5)
FanRows(brand) == RowsOfTable(brand, 6)

-----------------------------------------------------------------------------
VARIABLES
    brand,
    answer,       \* how the SMC answers for the info of each key: a float,
                  \* something else, an empty info, or an error
    pc,           \* "connect", "check", "ready", "reported", "failed" or "closed"
    conn,         \* conn_ is open
    at,           \* init: the table and the row to check
    cache_keys,   \*       infos of the keys read so far
    valid,        \* the bitsets: rows found valid
    samples,      \* smc_sample of each sample of the window
    readings,     \* history: what each key answered when it was read
    diff          \* the last report's temperatures, fans and summaries

vars == <<brand, answer, pc, conn, at, cache_keys, valid, samples, readings, diff>>

NoValues == [num |-> 0, sum |-> 0, max |-> 0, min |-> 0]
NoReport == [sample_num |-> 0, temperatures |-> <<>>, fan_speeds |-> <<>>,
             summaries |-> [s \in {"cpu_temperature", "gpu_temperature", "memory_temperature",
                                   "disk_temperature", "battery_temperature"} |-> NoValues],
             fan_speed |-> NoValues]

\* At most one key besides 0 does not answer as a sensor does.
Answers(b) ==
    {[k \in KeysOf(b) |-> IF k = <<0, 0>> THEN zero ELSE IF k = odd THEN a ELSE "flt"] :
        zero \in {"other", "empty", "error"},
        odd \in {k \in KeysOf(b) : k[2] \in OddRows},
        a \in {"flt", "other", "empty", "error"}}

Init ==
    /\ brand \in Brands
    /\ answer \in Answers(brand)
    /\ pc = "connect" /\ conn = FALSE
    /\ at = <<1, 1>> /\ cache_keys = <<>> /\ valid = {}
    /\ samples = <<>> /\ readings = <<>>
    /\ diff = NoReport

-----------------------------------------------------------------------------
(***************************************************************************)
(* smc_reader::init                                                        *)
(***************************************************************************)

\* No AppleSMC service, or no connection to it: init returns the error.
ConnectFails ==
    /\ pc = "connect"
    /\ pc' = "failed"
    /\ UNCHANGED <<brand, answer, conn, at, cache_keys, valid, samples, readings, diff>>

Connect ==
    /\ pc = "connect" /\ ~conn
    /\ conn' = TRUE
    /\ pc' = "check"
    /\ UNCHANGED <<brand, answer, at, cache_keys, valid, samples, readings, diff>>

\* The size and type a row asks for: 0 and 0 in a padding row.
Expected(row) == IF row = Padding THEN "empty" ELSE "flt"

\* The info of a key is read from the SMC unless an earlier row read it; a
\* failed read skips the row and is not remembered.
CheckKey ==
    /\ pc = "check" /\ at[2] <= Len(KnownKeys(brand, Tables[at[1]]))
    /\ LET row == RowAt(brand, at)
           key == Key(brand, at)
           seen == {i \in DOMAIN cache_keys : cache_keys[i].key = key}
           info == IF seen # {} THEN cache_keys[Min(seen)].info ELSE answer[key]
       IN /\ cache_keys' = IF seen = {} /\ info # "error"
                           THEN Append(cache_keys, [key |-> key, info |-> info])
                           ELSE cache_keys
          /\ valid' = IF info = Expected(row) THEN valid \cup {at} ELSE valid
    /\ at' = <<at[1], at[2] + 1>>
    /\ UNCHANGED <<brand, answer, pc, conn, samples, readings, diff>>

\* The next table, or the end of init with its local cache.
NextTable ==
    /\ pc = "check" /\ at[2] > Len(KnownKeys(brand, Tables[at[1]]))
    /\ IF at[1] < 6
       THEN at' = <<at[1] + 1, 1>> /\ UNCHANGED <<pc, cache_keys>>
       ELSE pc' = "ready" /\ cache_keys' = <<>> /\ UNCHANGED at
    /\ UNCHANGED <<brand, answer, conn, valid, samples, readings, diff>>

-----------------------------------------------------------------------------
(***************************************************************************)
(* smc_reader::sample                                                      *)
(***************************************************************************)
NoAnswer == -1

\* What the sensor of a key shows at the n-th sample, another one each time.
Shows(key, n) == 100 * n + 20 * key[1] + key[2]

\* Mutation: a row whose read fails is left out of the sample.
ReadRowThatAnswers(metrics, r, reads) ==
    LET row == RowAt(brand, r)
    IN IF r \in valid /\ row # Padding /\ reads[r] # NoAnswer
       THEN Append(metrics, [device |-> row.device, num |-> row.num, value |-> reads[r]])
       ELSE metrics

\* A metric of a valid row, which keeps the value of the empty metric, 0, when
\* the read fails or the row has no known type.
ReadRow(metrics, r, reads) ==
    LET row == RowAt(brand, r)
        value == IF row = Padding \/ reads[r] = NoAnswer THEN 0 ELSE reads[r]
    IN IF r \in valid
       THEN Append(metrics, [device |-> row.device, num |-> row.num, value |-> value])
       ELSE metrics

ReadKnownKeys(rows, reads) ==
    LET metrics[k \in 0..Len(rows)] ==
            IF k = 0 THEN <<>> ELSE ReadRow(metrics[k - 1], rows[k], reads)
    IN metrics[Len(rows)]

\* At most one key fails to be read.
Sample ==
    /\ pc = "ready" /\ Len(samples) < Window
    /\ \E failing \in {{}} \cup {{k} : k \in {r \in valid : r[2] \in OddRows}} :
         LET n == Len(samples) + 1
             reads == [k \in RowsOf(brand) |-> IF k \in failing THEN NoAnswer ELSE Shows(k, n)]
         IN /\ samples' = Append(samples,
                  [temperatures |-> ReadKnownKeys(TemperatureRows(brand), reads),
                   fan_speeds |-> ReadKnownKeys(FanRows(brand), reads)])
            /\ readings' = Append(readings, reads)
    /\ UNCHANGED <<brand, answer, pc, conn, at, cache_keys, valid, diff>>

-----------------------------------------------------------------------------
(***************************************************************************)
(* smc_reader::sample_diff                                                 *)
(***************************************************************************)

\* The values of a sample on top of those before, position by position.
AddMetrics(sums, metrics) ==
    [i \in DOMAIN sums |-> [sums[i] EXCEPT !.value = @ + metrics[i].value]]

\* A sample of the first one's shape is counted, another one passed over.
MergeSample(d, sample) ==
    IF /\ Len(sample.temperatures) = Len(d.temperatures)
       /\ Len(sample.fan_speeds) = Len(d.fan_speeds)
    THEN [sample_num |-> d.sample_num + 1,
          temperatures |-> AddMetrics(d.temperatures, sample.temperatures),
          fan_speeds |-> AddMetrics(d.fan_speeds, sample.fan_speeds)]
    ELSE d

FirstOf(sample) ==
    [sample_num |-> 1, temperatures |-> sample.temperatures, fan_speeds |-> sample.fan_speeds]

\* The samples merged into the first: a mean is the sum over sample_num.
Merged ==
    LET merged[j \in 1..Len(samples)] ==
            IF j = 1 THEN FirstOf(samples[1]) ELSE MergeSample(merged[j - 1], samples[j])
    IN merged[Len(samples)]

\* A turn of stat_values: the extremes start from the first value.
AddValue(s, m) ==
    IF s.num = 0 THEN [num |-> 1, sum |-> m.value, max |-> m.value, min |-> m.value]
    ELSE [num |-> s.num + 1, sum |-> s.sum + m.value,
          max |-> IF m.value > s.max THEN m.value ELSE s.max,
          min |-> IF m.value < s.min THEN m.value ELSE s.min]

\* stat_values of a filtered view, which passes over other devices.
AddOf(devices, s, m) == IF m.device \in devices THEN AddValue(s, m) ELSE s
StatValues(metrics, devices) ==
    LET stats[i \in 0..Len(metrics)] ==
            IF i = 0 THEN NoValues ELSE AddOf(devices, stats[i - 1], metrics[i])
    IN stats[Len(metrics)]

CpuDevices == {"e_cpu_core", "p_cpu_core", "s_cpu_core"}

\* Mutation: the temperatures of disks and memory are exchanged.
SummariesExchanged(temperatures) ==
    LET Of(devices) == StatValues(temperatures, devices)
    IN [cpu_temperature |-> Of(CpuDevices), gpu_temperature |-> Of({"gpu_core"}),
        memory_temperature |-> Of({"nand"}), disk_temperature |-> Of({"dram"}),
        battery_temperature |-> Of({"battery"})]

\* The summaries of a report.
Summaries(temperatures) ==
    LET Of(devices) == StatValues(temperatures, devices)
    IN [cpu_temperature |-> Of(CpuDevices), gpu_temperature |-> Of({"gpu_core"}),
        memory_temperature |-> Of({"dram"}), disk_temperature |-> Of({"nand"}),
        battery_temperature |-> Of({"battery"})]

\* The reader keeps nothing of a window, so that one window shows them all.
SampleDiff ==
    /\ pc = "ready" /\ Len(samples) = Window
    /\ LET merged == Merged
       IN diff' = [sample_num |-> merged.sample_num,
                   temperatures |-> merged.temperatures,
                   fan_speeds |-> merged.fan_speeds,
                   summaries |-> Summaries(merged.temperatures),
                   fan_speed |-> StatValues(merged.fan_speeds, {"fan"})]
    /\ pc' = "reported"
    /\ UNCHANGED <<brand, answer, conn, at, cache_keys, valid, samples, readings>>

\* ~smc_reader
Close ==
    /\ pc \in {"ready", "reported", "failed"}
    /\ conn' = FALSE
    /\ pc' = "closed"
    /\ UNCHANGED <<brand, answer, at, cache_keys, valid, samples, readings, diff>>

Closed == pc = "closed" /\ UNCHANGED vars

Next ==
    \/ ConnectFails \/ Connect \/ CheckKey \/ NextTable
    \/ Sample \/ SampleDiff \/ Close \/ Closed

Spec == Init /\ [][Next]_vars

-----------------------------------------------------------------------------
IsPadding(r) == RowAt(brand, r) = Padding

\* The SMC answers for the row as a sensor.
IsSensor(r) == IF IsPadding(r) THEN answer[<<0, 0>>] = "empty" ELSE answer[r] = "flt"

\* The place in a report of the k-th row, one of the sensors among the rows.
Place(sensors, k) == Cardinality({j \in sensors : j <= k})

Total(q) ==
    LET total[i \in 0..Len(q)] == IF i = 0 THEN 0 ELSE total[i - 1] + q[i]
    IN total[Len(q)]

\* Once init is done, a row of a device is read if and only if the SMC called
\* its key a 4-byte float, whatever the keys before it were answered.
KeysAreValidated ==
    pc \in {"ready", "reported"} =>
        \A r \in RowsOf(brand) : ~IsPadding(r) => (r \in valid <=> answer[r] = "flt")

\* A metric is the mean of what a row's key answered in all the samples of the
\* window, a read that fails counting as 0.
Value(x) == IF x = NoAnswer THEN 0 ELSE x
IsMeanOf(m, r) ==
    /\ m.device = RowAt(brand, r).device /\ m.num = RowAt(brand, r).num
    /\ ~IsPadding(r) => m.value = Total([j \in DOMAIN readings |-> Value(readings[j][r])])

AreMeansOf(metrics, rows) ==
    LET sensors == {k \in DOMAIN rows : IsSensor(rows[k])}
    IN /\ Len(metrics) = Cardinality(sensors)
       /\ \A k \in sensors : IsMeanOf(metrics[Place(sensors, k)], rows[k])

\* A report has the mean of each sensor's own answers and nothing else: merging
\* by position never mixes two sensors and drops no sample.
MeansAreOfTheirKeys ==
    pc = "reported" =>
        /\ diff.sample_num = Len(readings)
        /\ AreMeansOf(diff.temperatures, TemperatureRows(brand))
        /\ AreMeansOf(diff.fan_speeds, FanRows(brand))

\* A summary has the number, the extremes and the sum of the metrics of devices.
MetricsOf(metrics, devices) == {i \in DOMAIN metrics : metrics[i].device \in devices}
Summarizes(stats, metrics, devices) ==
    LET values == {metrics[i].value : i \in MetricsOf(metrics, devices)}
    IN /\ stats.num = Cardinality(MetricsOf(metrics, devices))
       /\ stats.num > 0 => stats.max = Max(values) /\ stats.min = Min(values)
       /\ stats.sum = Total([i \in DOMAIN metrics |->
                               IF metrics[i].device \in devices THEN metrics[i].value ELSE 0])

DevicesOf(metrics) == {metrics[i].device : i \in DOMAIN metrics}

\* The summary in which a device's metrics are, whatever its table.
SummaryOf ==
    [e_cpu_core |-> "cpu_temperature", p_cpu_core |-> "cpu_temperature",
     s_cpu_core |-> "cpu_temperature", gpu_core |-> "gpu_temperature",
     dram |-> "memory_temperature", nand |-> "disk_temperature",
     battery |-> "battery_temperature"]
DevicesIn(summary) == {d \in DOMAIN SummaryOf : SummaryOf[d] = summary}

\* Each summary has the extremes and the sum of the metrics of its own devices,
\* and every known device is in one of them.
SummariesAreExact ==
    pc = "reported" =>
        /\ Summarizes(diff.fan_speed, diff.fan_speeds, DevicesOf(diff.fan_speeds))
        /\ DevicesOf(diff.temperatures) \subseteq DOMAIN SummaryOf \cup {"unknown"}
        /\ \A d \in DOMAIN SummaryOf :
              Summarizes(diff.summaries[SummaryOf[d]], diff.temperatures, DevicesIn(SummaryOf[d]))

\* The sensors a report has are the valid ones, their means their own, their
\* summaries those of their kinds.
SensorsAreExact == KeysAreValidated /\ MeansAreOfTheirKeys /\ SummariesAreExact
=============================================================================
