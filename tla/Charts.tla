------------------------------- MODULE Charts -------------------------------
(***************************************************************************)
(* The bar charts of terminal_output (cli/main.cpp): build_timeline_data   *)
(* scales a series of reports to the range it spans, draw_bar_chart turns  *)
(* the scaled values into columns of a window.  The window's size and the  *)
(* history of reports change; a chart is a function of both.               *)
(*                                                                         *)
(* A report is the one number a chart shows of it, for a rate a number of  *)
(* kB per second, for a usage a part of Whole.                             *)
(***************************************************************************)
EXTENDS Integers, SequencesExt

CONSTANTS
    Numbers,        \* bound: the numbers reported
    Whole,          \* 100%
    HistorySize,    \* reports kept, 384 in the code
    Sizes           \* the sizes [y, x] of the window

ASSUME ChartAssumption ==
    /\ Numbers \subseteq 0..Whole /\ Whole \in Nat \ {0}
    /\ HistorySize \in Nat \ {0}
    /\ Sizes \subseteq [y : Nat, x : Nat]

VARIABLES
    diff_queue,     \* the history
    size            \* the window's size

vars == <<diff_queue, size>>

Init == diff_queue = <<>> /\ size \in Sizes

Keep(queue) == IF Len(queue) > HistorySize THEN Tail(queue) ELSE queue

Report == /\ \E number \in Numbers : diff_queue' = Keep(Append(diff_queue, number))
          /\ UNCHANGED size

Resize == size' \in Sizes \ {size} /\ UNCHANGED diff_queue

Next == Report \/ Resize

Spec == Init /\ [][Next]_vars

-----------------------------------------------------------------------------

\* The bounds of build_timeline_data: 0 stands for "none yet".
MaxValue(series) ==
    FoldLeft(LAMBDA max, v : IF max = 0 \/ v > max THEN v ELSE max, 0, series)
MinValue(series) ==
    FoldLeft(LAMBDA min, v : IF min = 0 \/ v < min THEN v ELSE min, 0, series)

\* A scaled value is a fraction.
Fraction(num, den) == [num |-> num, den |-> den]

\* Mutation: upside down.
TimelineInverted(series) ==
    LET range == MaxValue(series) - MinValue(series)
    IN [i \in 1..Len(series) |->
           IF range > 0 THEN Fraction(MaxValue(series) - series[i], range)
                        ELSE Fraction(1, 1)]
\* build_timeline_data
Timeline(series) ==
    LET range == MaxValue(series) - MinValue(series)
    IN [i \in 1..Len(series) |->
           IF range > 0 THEN Fraction(series[i] - MinValue(series), range)
                        ELSE Fraction(1, 1)]

\* round(): halves away from zero.
Round(num, den) == IF num >= 0 THEN (2 * num + den) \div (2 * den)
                   ELSE -((den - 2 * num) \div (2 * den))

\* Mutation: no block for the lower bound.
HeightFromZero(value, bar_max_height) ==
    LET rounded == Round(value.num * bar_max_height, value.den)
    IN IF rounded < bar_max_height THEN rounded ELSE bar_max_height
Height(value, bar_max_height) ==
    LET rounded == Round(value.num * bar_max_height, value.den)
    IN (IF rounded < bar_max_height THEN rounded ELSE bar_max_height) + 1

\* Mutation: the blanks beside the labels are forgotten.
WidthUnspaced(label_size) == size.x - label_size * 2 - 2
\* chart_max_width, and bar_max_height.
Width(label_size) == size.x - label_size * 2 - 2 - 2
MaxHeight == size.y - 3 - 1

\* draw_bar_chart: the bars it draws, by the index of their value.
BarChart(label_size, values) ==
    LET index == IF Len(values) > Width(label_size)
                 THEN Len(values) - Width(label_size) ELSE 0
        height == [i \in 1..Len(values) |-> Height(values[i], MaxHeight)]
    IN IF values = <<>> \/ size.x < 9 \/ MaxHeight <= 0 \/ Width(label_size) <= 0
       THEN <<>>
       ELSE [i \in index + 1 .. Len(values) |->
                [x |-> label_size + 1 + i - index,
                 y |-> size.y - height[i] - 2,
                 height |-> height[i]]]

\* The characters of "{:.2f}"; Numbers has at most two digits.
LabelSize(number) == IF number < 10 THEN 4 ELSE 5

\* A window with a rate (draw_disk_io_read_rate_window) and one with a usage
\* (draw_cpu_usage_window, labels "100%" and "0%").
RateLabelSize == LET sizes == {LabelSize(MaxValue(diff_queue)),
                               LabelSize(MinValue(diff_queue))}
                 IN IF 5 \in sizes THEN 5 ELSE 4
RateChart == BarChart(RateLabelSize, Timeline(diff_queue))
UsageChart ==
    BarChart(4, [i \in 1..Len(diff_queue) |-> Fraction(diff_queue[i], Whole)])

-----------------------------------------------------------------------------
(***************************************************************************)
(* Properties.                                                             *)
(***************************************************************************)

\* The bars of a chart that has some stand beside each other between the
\* labels, one blank from them, the newest at the right; they start at the
\* row of the lower label and end below the top border.
Inside(chart, label_size) ==
    \A i \in DOMAIN chart :
        /\ chart[i].x \in label_size + 2 .. size.x - label_size - 3
        /\ chart[i].y >= 1
        /\ chart[i].y + chart[i].height - 1 = size.y - 3
        /\ i + 1 \in DOMAIN chart => chart[i + 1].x = chart[i].x + 1
        /\ i < Len(diff_queue) => i + 1 \in DOMAIN chart
BarsInside == Inside(RateChart, RateLabelSize) /\ Inside(UsageChart, 4)

\* A larger number never has the lower bar, and the largest of a series has
\* the highest one there is.
Ordered(chart) ==
    \A i, j \in DOMAIN chart :
        diff_queue[i] <= diff_queue[j] => chart[i].height <= chart[j].height
TallerIsMore ==
    /\ Ordered(RateChart) /\ Ordered(UsageChart)
    /\ \A i \in DOMAIN RateChart :
          (\A j \in 1..Len(diff_queue) : diff_queue[j] <= diff_queue[i]) =>
              RateChart[i].height = MaxHeight + 1

\* A series in which no number is 0 is scaled to its own range: its bars have
\* at least the block left for the lower bound, which its smallest number
\* gets alone unless all are equal.
NonZeroSeriesIsScaled ==
    0 \notin {diff_queue[i] : i \in 1..Len(diff_queue)} =>
          \A i \in DOMAIN RateChart :
              /\ RateChart[i].height >= 1
              /\ (\A j \in 1..Len(diff_queue) : diff_queue[i] <= diff_queue[j])
                 /\ (\E j \in 1..Len(diff_queue) : diff_queue[i] # diff_queue[j])
                 => RateChart[i].height = 1

\* Every bar has the block that is left for the lower bound (main.cpp:796,
\* 833).  Does not hold, see the README.
EveryBarHasItsBlock == \A i \in DOMAIN RateChart : RateChart[i].height >= 1

=============================================================================
