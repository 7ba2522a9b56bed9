------------------------ MODULE TerminalOutputProofs ------------------------
(***************************************************************************)
(* The safety of the terminal's loop, for every pace, history, limit, key  *)
(* and size: its types, its history, its pace and its count, what it shows *)
(* and where its windows are, and that its steps are those of OutputLoop.  *)
(***************************************************************************)
EXTENDS TerminalOutput, TLAPS

\* The types of what the loop keeps.
LoopTypes ==
    /\ output_number \in Nat /\ output_number \in Numbers /\ stop \in BOOLEAN
    /\ pc \in {"while", "getch", "sample", "check", "sleep", "done"}
    /\ sleep_times \in 0..NapsPerSample
    /\ current_number \in Nat
    /\ pop_times \in 0..ShrinkAfter
    /\ screen \in Sizes /\ tty \in Sizes
    /\ slept \in Nat /\ late \in Nat
    /\ taken \in Nat /\ reports \in Nat
    /\ signalled \in {"never", "start", "while", "getch", "sample", "check", "sleep"}

\* The samples behind the reports received so far.
Counted ==
    /\ current_number = reports
    /\ taken <= 5 * reports + 5
    /\ reports > 0 => taken >= 5 * reports + 1

\* The limit is met for the first time when the loop checks it.
Limit ==
    output_number > 0 =>
        /\ pc \in {"while", "getch", "sample", "sleep"} => reports < output_number
        /\ reports <= output_number
        /\ pc = "check" /\ reports = output_number => taken = 5 * output_number + 1

Ended ==
    pc = "done" /\ ~stop =>
        output_number > 0 /\ reports = output_number /\ taken = 5 * output_number + 1

\* Samples are taken after the naps that are due, and the naps start again.
Naps ==
    /\ pc = "sample" => sleep_times = NapsPerSample
    /\ pc = "check" => sleep_times < NapsPerSample

Marked ==
    /\ signalled # "never" => stop
    /\ signalled = "never" => late = 0
    /\ pc \in {"getch", "sample"} /\ signalled # "never" =>
           signalled \in {"getch", "sample"} /\ late = 0
    /\ NoSampleAfterSignal

LoopInv == LoopTypes /\ Counted /\ Limit /\ Ended /\ Naps /\ Marked /\ PaceKept

-----------------------------------------------------------------------------
\* What every action leaves of the loop's own state.
LEMMA InitLoopInv == Init => LoopInv
<1> SUFFICES ASSUME Init
             PROVE  LoopInv
  OBVIOUS
<1>1. /\ output_number \in Numbers /\ Numbers \subseteq Nat
      /\ pc = "while" /\ sleep_times = 0 /\ current_number = 0 /\ pop_times = 0
      /\ tty \in Sizes /\ screen = tty
      /\ taken = 0 /\ reports = 0 /\ slept = 0 /\ late = 0
      /\ stop \in BOOLEAN /\ signalled = IF stop THEN "start" ELSE "never"
      /\ NapsPerSample \in Nat \ {0} /\ ShrinkAfter \in Nat
  BY TerminalAssumption DEF Init, Sampler!Init
<1>2. LoopTypes
  BY <1>1 DEF LoopTypes
<1>3. Counted /\ Limit /\ Ended /\ Naps
  BY <1>1 DEF Counted, Limit, Ended, Naps
<1>4. Marked
  BY <1>1 DEF Marked, NoSampleAfterSignal
<1>5. PaceKept
  <2>1. NapsPerSample * taken = 0
    BY <1>1
  <2> QED BY <1>1, <2>1 DEF PaceKept
<1> QED BY <1>2, <1>3, <1>4, <1>5 DEF LoopInv

LEMMA NextLoopInv == LoopInv /\ [Next]_vars => LoopInv'
<1> SUFFICES ASSUME LoopInv, [Next]_vars
             PROVE  LoopInv'
  OBVIOUS
<1> USE TerminalAssumption DEF LoopInv
<1>1. CASE While
  BY <1>1 DEF While, loop, view, sampler, history, LoopTypes, Counted, Limit, Ended,
              Naps, Marked, NoSampleAfterSignal, PaceKept
<1>2. CASE NoKey
  BY <1>2 DEF NoKey, loop, view, sampler, history, LoopTypes, Counted, Limit, Ended,
              Naps, Marked, NoSampleAfterSignal, PaceKept
<1>3. CASE ResizeKey \/ DigitKey \/ OtherKey
  <2>1. /\ pc = "getch" /\ pc' = "while" /\ tty' = tty /\ screen' \in {screen, tty}
        /\ UNCHANGED <<loop, sampler, history>>
    BY <1>3 DEF ResizeKey, DigitKey, OtherKey, view
  <2> QED BY <2>1 DEF loop, sampler, history, LoopTypes, Counted, Limit, Ended,
                      Naps, Marked, NoSampleAfterSignal, PaceKept
<1>4. CASE QuitKey
  BY <1>4 DEF QuitKey, view, sampler, history, LoopTypes, Counted, Limit, Ended,
              Naps, Marked, NoSampleAfterSignal, PaceKept
<1>5. CASE Sample
  <2>1. /\ pc = "sample" /\ pc' = "check" /\ sleep_times' = 0 /\ taken' = taken + 1
        /\ UNCHANGED <<output_number, stop, screen, tty, slept, signalled>>
        /\ late' = IF signalled = "never" THEN late ELSE late + 1
    BY <1>5 DEF Sample, Sampler!Sample
  <2>2. \/ /\ taken + 1 = 5 * reports + 6
           /\ reports' = reports + 1 /\ current_number' = current_number + 1
           /\ pop_times' \in 0..ShrinkAfter
        \/ /\ taken + 1 # 5 * reports + 6
           /\ UNCHANGED <<reports, current_number, pop_times>>
    <3>1. CASE Sampler!Due
      <4>1. reports' = reports + 1 /\ reports' # reports
        BY <1>5, <3>1 DEF Sample, Sampler!Sample, LoopTypes
      <4>2. Receive
        BY <1>5, <4>1 DEF Sample
      <4>3. pop_times' \in 0..ShrinkAfter /\ current_number' = current_number + 1
        <5>1. /\ current_number' = current_number + 1
              /\ \/ pop_times' \in {pop_times, 0}
                 \/ ~(pop_times + 1 > ShrinkAfter) /\ pop_times' = pop_times + 1
          BY <4>2 DEF Receive
        <5>2. pop_times \in 0..ShrinkAfter /\ ShrinkAfter \in Nat
          BY DEF LoopTypes
        <5> HIDE DEF LoopInv
        <5> QED BY <5>1, <5>2
      <4> QED BY <3>1, <4>1, <4>3 DEF Sampler!Due
    <3>2. CASE ~Sampler!Due
      <4>1. reports' = reports
        BY <1>5, <3>2 DEF Sample, Sampler!Sample
      <4> QED BY <1>5, <3>2, <4>1 DEF Sample, Sampler!Due
    <3> QED BY <3>1, <3>2
  <2>3. LoopTypes'
    BY <2>1, <2>2 DEF LoopTypes
  <2>4. Counted' /\ Naps'
    BY <2>1, <2>2 DEF LoopTypes, Counted, Naps
  <2>5. Limit' /\ Ended'
    BY <2>1, <2>2 DEF LoopTypes, Counted, Limit, Ended
  <2>6. Marked'
    BY <2>1 DEF LoopTypes, Marked, NoSampleAfterSignal
  <2>7. PaceKept'
    <3>1. NapsPerSample * (taken + 1) = NapsPerSample * taken + NapsPerSample
      BY DEF LoopTypes
    <3>2. slept = NapsPerSample * taken + NapsPerSample
      BY <2>1 DEF PaceKept, Naps, LoopTypes
    <3> QED BY <2>1, <3>1, <3>2 DEF PaceKept, LoopTypes
  <2> QED BY <2>3, <2>4, <2>5, <2>6, <2>7
<1>6. CASE Check
  <2>1. /\ pc = "check"
        /\ \/ pc' = "done" /\ Finished /\ sleep_times' = sleep_times
           \/ pc' = "sleep" /\ ~Finished /\ sleep_times' = sleep_times + 1
        /\ UNCHANGED <<output_number, stop, current_number, pop_times, screen, tty,
                       taken, reports, slept, signalled, late>>
    BY <1>6 DEF Check, view, sampler, history
  <2>2. LoopTypes' /\ Counted' /\ Naps'
    BY <2>1 DEF LoopTypes, Counted, Naps
  <2>3. Limit' /\ Ended'
    BY <2>1 DEF LoopTypes, Counted, Limit, Ended, Finished
  <2>4. Marked' /\ PaceKept'
    BY <2>1 DEF LoopTypes, Marked, NoSampleAfterSignal, PaceKept
  <2> QED BY <2>2, <2>3, <2>4
<1>7. CASE Sleep
  BY <1>7 DEF Sleep, loop, view, sampler, LoopTypes, Counted, Limit, Ended,
              Naps, Marked, NoSampleAfterSignal, PaceKept
<1>8. CASE Signal
  <2>1. /\ pc # "done" /\ stop' = TRUE
        /\ signalled' = IF signalled = "never" THEN pc ELSE signalled
        /\ UNCHANGED <<output_number, pc, sleep_times, current_number, pop_times,
                       screen, tty, taken, reports, slept, late>>
    BY <1>8 DEF Signal, handle_signal, view, sampler
  <2>2. Marked' /\ LoopTypes'
    BY <2>1 DEF LoopTypes, Marked, NoSampleAfterSignal
  <2> QED BY <2>1, <2>2 DEF Counted, Limit, Ended, Naps, PaceKept
<1>9. CASE ResizeTty
  <2>1. tty' \in Sizes /\ UNCHANGED <<loop, pc, view, sampler, history>>
    BY <1>9 DEF ResizeTty
  <2> QED BY <2>1 DEF loop, view, sampler, history, LoopTypes, Counted, Limit, Ended,
                      Naps, Marked, NoSampleAfterSignal, PaceKept
<1>10. CASE Done \/ UNCHANGED vars
  <2>1. UNCHANGED <<loop, pc, screen, tty, sampler, history>>
    BY <1>10 DEF Done, vars, view
  <2> QED BY <2>1 DEF loop, sampler, history, LoopTypes, Counted, Limit, Ended,
                      Naps, Marked, NoSampleAfterSignal, PaceKept
<1> QED BY <1>1, <1>2, <1>3, <1>4, <1>5, <1>6, <1>7, <1>8, <1>9, <1>10 DEF Next, Loop

LEMMA LoopInvariance == Spec => []LoopInv
BY InitLoopInv, NextLoopInv, PTL DEF Spec

\* --number n ends the terminal's loop with its n-th report too, although keys
\* and redraws come between, and a run that nobody stopped took 5n + 1 samples.
THEOREM TerminalCountIsExact == Spec => []ExactCount
<1>1. LoopInv => ExactCount
  BY DEF LoopInv, LoopTypes, Limit, Ended, ExactCount
<1> QED BY <1>1, LoopInvariance, PTL

\* A signal that arrives while the loop waits for a key or is about to sample
\* costs one sample more, any other costs none.
THEOREM TerminalSignalStopsSampling == Spec => []NoSampleAfterSignal
<1>1. LoopInv => NoSampleAfterSignal
  BY DEF LoopInv, Marked
<1> QED BY <1>1, LoopInvariance, PTL

\* No key and no redraw changes the number of naps between two samples.
THEOREM TerminalKeepsPace == Spec => []PaceKept
<1>1. LoopInv => PaceKept
  BY DEF LoopInv
<1> QED BY <1>1, LoopInvariance, PTL

-----------------------------------------------------------------------------
LEMMA InitPromise == Init => Promise!Init
BY TerminalAssumption DEF Init, Sampler!Init, Promise!Init, Promise!Sampler!Init

LEMMA NextPromise == LoopInv /\ [Next]_vars => [Promise!Next]_(Promise!vars)
<1> SUFFICES ASSUME LoopInv, [Next]_vars
             PROVE  [Promise!Next]_(Promise!vars)
  OBVIOUS
<1> USE DEF LoopInv, Promise!Next, Promise!vars
<1>1. CASE While
  <2>1. CASE stop
    <3>1. Promise!End
      BY <1>1, <2>1 DEF While, loop, sampler, Promise!End
    <3> QED BY <3>1
  <2>2. CASE ~stop
    <3>1. Promise!Enter
      BY <1>1, <2>2 DEF While, loop, sampler, Promise!Enter, Promise!Enough,
                        LoopTypes, Limit
    <3> QED BY <3>1
  <2> QED BY <2>1, <2>2
<1>2. CASE NoKey
  <2>1. CASE sleep_times >= NapsPerSample
    BY <1>2, <2>1 DEF NoKey, loop, sampler
  <2>2. CASE ~(sleep_times >= NapsPerSample)
    <3>1. Promise!Pass
      BY <1>2, <2>2 DEF NoKey, loop, sampler, Promise!Pass
    <3> QED BY <3>1
  <2> QED BY <2>1, <2>2
<1>3. CASE ResizeKey \/ DigitKey \/ OtherKey
  <2>1. /\ pc = "getch" /\ pc' = "while"
        /\ UNCHANGED <<loop, sampler>>
    BY <1>3 DEF ResizeKey, DigitKey, OtherKey
  <2>2. Promise!Pass
    BY <2>1 DEF loop, sampler, Promise!Pass
  <2> QED BY <2>2
<1>4. CASE QuitKey
  <2>1. Promise!Quit
    BY <1>4 DEF QuitKey, sampler, Promise!Quit
  <2> QED BY <2>1
<1>5. CASE Sample
  <2>1. Promise!Take
    BY <1>5 DEF Sample, Sampler!Sample, Sampler!Due, Promise!Take,
                Promise!Sampler!Sample, Promise!Sampler!Due
  <2> QED BY <2>1
<1>6. CASE Check
  <2>1. CASE Finished
    <3>1. Promise!End
      BY <1>6, <2>1 DEF Check, Finished, sampler, Counted, Promise!End, Promise!Enough
    <3> QED BY <3>1
  <2>2. CASE ~Finished
    BY <1>6, <2>2 DEF Check, sampler
  <2> QED BY <2>1, <2>2
<1>7. CASE Sleep \/ ResizeTty \/ Done \/ UNCHANGED vars
  BY <1>7 DEF Sleep, ResizeTty, Done, loop, sampler, vars
<1>8. CASE Signal
  <2>1. Promise!Signal
    BY <1>8 DEF Signal, handle_signal, sampler, Promise!Signal
  <2> QED BY <2>1
<1> QED BY <1>1, <1>2, <1>3, <1>4, <1>5, <1>6, <1>7, <1>8 DEF Next, Loop

\* Every step of the terminal's loop is one that OutputLoop allows: keys,
\* redraws and naps are passing, and a sample follows a look at the signal.
THEOREM TerminalStepsArePromised ==
    Spec => Promise!Init /\ [][Promise!Next]_(Promise!vars)
<1>1. LoopInv /\ [Next]_vars => [Promise!Next]_(Promise!vars)
  BY NextPromise
<1> QED BY <1>1, InitPromise, LoopInvariance, PTL DEF Spec

-----------------------------------------------------------------------------
(***************************************************************************)
(* The history behind the charts.                                          *)
(***************************************************************************)

\* The reports size numbers up to the last.
LatestReports(last, size) == [i \in 1..size |-> last - size + i]

LEMMA KeepLatest ==
    ASSUME NEW last \in Nat, NEW queue,
           queue = LatestReports(last, Least(last, HistorySize))
    PROVE  Keep(Append(queue, last + 1))
               = LatestReports(last + 1, Least(last + 1, HistorySize))
<1> DEFINE size == Least(last, HistorySize)
           longer == Append(queue, last + 1)
<1>1. /\ HistorySize \in Nat \ {0} /\ size \in Nat
      /\ last < HistorySize => size = last
      /\ last >= HistorySize => size = HistorySize
  BY TerminalAssumption DEF Least
<1>2. queue \in Seq(Nat) /\ Len(queue) = size
  <2>1. \A i \in 1..size : last - size + i \in Nat
    BY <1>1
  <2>2. queue \in [1..size -> Nat]
    BY <2>1 DEF LatestReports
  <2> QED BY <1>1, <2>2
<1>3. /\ longer \in Seq(Nat) /\ Len(longer) = size + 1
      /\ \A i \in 1..(size + 1) : longer[i] = last - size + i
  <2>1. longer \in Seq(Nat) /\ Len(longer) = size + 1
    BY <1>1, <1>2
  <2>2. ASSUME NEW i \in 1..size PROVE longer[i] = last - size + i
    <3>1. longer[i] = queue[i]
      BY <1>1, <1>2
    <3> QED BY <3>1 DEF LatestReports
  <2>3. longer[size + 1] = last - size + (size + 1)
    BY <1>1, <1>2
  <2>4. 1..(size + 1) = (1..size) \cup {size + 1}
    BY <1>1
  <2> HIDE DEF longer, size
  <2> QED BY <2>1, <2>2, <2>3, <2>4
<1> HIDE DEF longer, size
<1>4. CASE size + 1 > HistorySize
  <2>1. size = HistorySize /\ Least(last + 1, HistorySize) = HistorySize
    BY <1>1, <1>4 DEF Least
  <2>2. Keep(longer) = Tail(longer)
    BY <1>3, <1>4 DEF Keep
  <2>3. Tail(longer) \in Seq(Nat) /\ Len(Tail(longer)) = size
        /\ \A i \in 1..size : Tail(longer)[i] = longer[i + 1]
    BY <1>1, <1>3
  <2>4. ASSUME NEW i \in 1..size PROVE Tail(longer)[i] = (last + 1) - size + i
    <3>1. i + 1 \in 1..(size + 1) /\ i \in Nat
      BY <1>1
    <3>2. longer[i + 1] = last - size + (i + 1)
      BY <1>3, <3>1
    <3> QED BY <1>1, <2>3, <3>1, <3>2
  <2>5. Tail(longer) = [i \in 1..size |-> Tail(longer)[i]]
    <3> DEFINE rest == Tail(longer)
    <3>1. rest \in Seq(Nat) /\ Len(rest) = size
      BY <2>3
    <3> HIDE DEF rest
    <3>2. rest = [i \in 1..size |-> rest[i]]
      BY <3>1
    <3> QED BY <3>2 DEF rest
  <2> QED BY <2>1, <2>2, <2>4, <2>5 DEF longer, LatestReports
<1>5. CASE ~(size + 1 > HistorySize)
  <2>1. size = last /\ Least(last + 1, HistorySize) = last + 1
    BY <1>1, <1>5 DEF Least
  <2>2. Keep(longer) = longer
    BY <1>3, <1>5 DEF Keep
  <2>3. longer = [i \in 1..(size + 1) |-> longer[i]]
    BY <1>3
  <2>4. longer = LatestReports(last + 1, last + 1)
    <3>1. ASSUME NEW i \in 1..(size + 1) PROVE longer[i] = (last + 1) - (last + 1) + i
      BY <1>1, <1>3, <2>1
    <3> QED BY <2>1, <2>3, <3>1 DEF LatestReports
  <2> QED BY <2>1, <2>2, <2>4 DEF longer
<1> QED BY <1>4, <1>5

LEMMA InitHistory == Init => HistoryIsLatest
<1> SUFFICES ASSUME Init
             PROVE  HistoryIsLatest
  OBVIOUS
<1>1. Least(reports, HistorySize) = 0 /\ diff_queue = <<>>
  BY TerminalAssumption DEF Init, Sampler!Init, Least
<1> QED BY <1>1 DEF HistoryIsLatest

LEMMA NextHistory == LoopInv /\ HistoryIsLatest /\ [Next]_vars => HistoryIsLatest'
<1> SUFFICES ASSUME LoopInv, HistoryIsLatest, [Next]_vars
             PROVE  HistoryIsLatest'
  OBVIOUS
<1>1. CASE Sample
  <2>1. CASE Sampler!Due
    <3>1. reports \in Nat /\ reports' = reports + 1 /\ reports' # reports
      BY <1>1, <2>1 DEF Sample, Sampler!Sample, LoopInv, LoopTypes
    <3>2. diff_queue' = Keep(Append(diff_queue, reports + 1))
      BY <1>1, <3>1 DEF Sample, Receive
    <3>3. diff_queue = LatestReports(reports, Least(reports, HistorySize))
      BY DEF HistoryIsLatest, LatestReports
    <3>4. diff_queue' = LatestReports(reports + 1, Least(reports + 1, HistorySize))
      BY <3>1, <3>2, <3>3, KeepLatest
    <3> QED BY <3>1, <3>4 DEF HistoryIsLatest, LatestReports, Least
  <2>2. CASE ~Sampler!Due
    BY <1>1, <2>2 DEF Sample, Sampler!Sample, HistoryIsLatest, Least
  <2> QED BY <2>1, <2>2
<1>2. CASE ~Sample
  <2>1. UNCHANGED <<diff_queue, reports>>
    BY <1>2 DEF Next, Loop, While, NoKey, ResizeKey, QuitKey, DigitKey, OtherKey, Check,
                Sleep, Signal, ResizeTty, Done, vars, loop, sampler
  <2> QED BY <2>1 DEF HistoryIsLatest, Least
<1> QED BY <1>1, <1>2

\* However many reports come, the charts are drawn from the newest of them, as
\* many as the history holds and none missing between.
THEOREM HistoryStaysLatest == Spec => []HistoryIsLatest
BY InitHistory, NextHistory, LoopInvariance, PTL DEF Spec

-----------------------------------------------------------------------------
(***************************************************************************)
(* The screen and its windows.                                             *)
(***************************************************************************)
Terminals == [y : Nat, x : Nat]
Names(type) == CASE type = "tiny"   -> {}
                 [] type = "middle" -> {"top", "bottom"}
                 [] type = "large"  -> {"top_left", "top_right", "bottom_left",
                                        "bottom_right"}

\* A half and the rest, of a length that is at least 1, and of a longer one.
LEMMA Halves ==
    ASSUME NEW n \in Nat
    PROVE  /\ n \div 2 \in Nat /\ 2 * (n \div 2) <= n /\ n <= 2 * (n \div 2) + 1
           /\ n >= 1 => n - (n \div 2) - 1 \in Nat
BY SMT

LEMMA HalvesGrow ==
    ASSUME NEW n \in Nat, NEW m \in Nat, n <= m
    PROVE  /\ n \div 2 <= m \div 2
           /\ n - (n \div 2) <= m - (m \div 2)
BY SMT

LEMMA DisplayTypes ==
    ASSUME NEW size \in Terminals
    PROVE  /\ DisplayType(size) \in {"tiny", "middle", "large"}
           /\ DisplayType(size) # "tiny" => size.y >= 21 /\ size.x >= 60
BY DEF DisplayType, Terminals

LEMMA LayoutNames ==
    ASSUME NEW type \in {"tiny", "middle", "large"}, NEW size
    PROVE  DOMAIN Layout(type, size) = Names(type)
<1>1. CASE type = "tiny"
  <2>1. Layout(type, size) = <<>>
    BY <1>1 DEF Layout, NoWindows
  <2> QED BY <1>1, <2>1 DEF Names
<1>2. CASE type = "middle"
  BY <1>2 DEF Layout, Names, MiddleWindows
<1>3. CASE type = "large"
  BY <1>3 DEF Layout, Names, LargeWindows
<1> QED BY <1>1, <1>2, <1>3

LEMMA LayoutIsFunction ==
    ASSUME NEW type \in {"tiny", "middle", "large"}, NEW size
    PROVE  Layout(type, size) = [n \in Names(type) |-> Layout(type, size)[n]]
<1>1. CASE type = "tiny"
  <2>1. Layout(type, size) = <<>> /\ Names(type) = {}
    BY <1>1 DEF Layout, NoWindows, Names
  <2>2. <<>> = [n \in {} |-> Layout(type, size)[n]]
    OBVIOUS
  <2> QED BY <2>1, <2>2
<1>2. CASE type = "middle"
  BY <1>2 DEF Layout, Names, MiddleWindows
<1>3. CASE type = "large"
  BY <1>3 DEF Layout, Names, LargeWindows
<1> QED BY <1>1, <1>2, <1>3

LEMMA LayoutInPlaces ==
    ASSUME NEW size \in Terminals,
           NEW n \in Names(DisplayType(size))
    PROVE  Layout(DisplayType(size), size)[n] \in Places
<1> DEFINE hy == size.y \div 2
           hx == size.x \div 2
<1>1. CASE DisplayType(size) = "tiny"
  BY <1>1 DEF Names
<1>2. CASE DisplayType(size) # "tiny"
  <2>1. /\ size.y \in Nat /\ size.x \in Nat /\ size.y >= 1 /\ size.x >= 1
        /\ DisplayType(size) \in {"middle", "large"}
    BY <1>2, DisplayTypes DEF Terminals
  <2>2. /\ hy \in Nat /\ size.y - hy - 1 \in Nat /\ hx \in Nat
        /\ size.x - hx - 1 \in Nat
    BY <2>1, Halves
  <2> HIDE DEF hy, hx
  <2>3. CASE DisplayType(size) = "middle"
    <3>1. Layout(DisplayType(size), size) =
              [top    |-> Window(1, 0, hy, size.x),
               bottom |-> Window(hy + 1, 0, size.y - hy - 1, size.x)]
      BY <2>3 DEF Layout, MiddleWindows, hy
    <3>2. n \in {"top", "bottom"}
      BY <2>3 DEF Names
    <3> QED BY <2>1, <2>2, <3>1, <3>2 DEF Window, Places
  <2>4. CASE DisplayType(size) = "large"
    <3>1. Layout(DisplayType(size), size) =
              [top_left     |-> Window(1, 0, hy, hx),
               top_right    |-> Window(1, hx, hy, size.x - hx - 1),
               bottom_left  |-> Window(hy + 1, 0, size.y - hy - 1, hx),
               bottom_right |-> Window(hy + 1, hx, size.y - hy - 1, size.x - hx - 1)]
      BY <2>4 DEF Layout, LargeWindows, hy, hx
    <3>2. n \in {"top_left", "top_right", "bottom_left", "bottom_right"}
      BY <2>4 DEF Names
    <3> QED BY <2>1, <2>2, <3>1, <3>2 DEF Window, Places
  <2> QED BY <2>1, <2>3, <2>4
<1> QED BY <1>1, <1>2

\* In a terminal that has grown every window can move before it is resized, and
\* none is cut.
LEMMA GrownFits ==
    ASSUME NEW than \in Terminals, NEW size \in Terminals, ~Smaller(size, than),
           NEW type \in {"tiny", "middle", "large"}, type = DisplayType(than),
           NEW n \in Names(type)
    PROVE  /\ Fits(Layout(type, than)[n], Layout(type, size)[n].y,
                   Layout(type, size)[n].x, size)
           /\ Layout(type, than)[n].h <= size.y /\ Layout(type, than)[n].w <= size.x
<1> DEFINE hy == than.y \div 2
           hx == than.x \div 2
           gy == size.y \div 2
           gx == size.x \div 2
<1>1. /\ than.y \in Nat /\ than.x \in Nat /\ size.y \in Nat /\ size.x \in Nat
      /\ than.y <= size.y /\ than.x <= size.x
  BY DEF Terminals, Smaller
<1>2. /\ hy \in Nat /\ hx \in Nat /\ gy \in Nat /\ gx \in Nat
      /\ 2 * hy <= than.y /\ 2 * hx <= than.x /\ 2 * gy <= size.y /\ 2 * gx <= size.x
  BY <1>1, Halves
<1>3. /\ hy <= gy /\ than.y - hy <= size.y - gy
      /\ hx <= gx /\ than.x - hx <= size.x - gx
  BY <1>1, HalvesGrow
<1>4. type # "tiny" => than.y >= 21 /\ than.x >= 60
  BY DisplayTypes
<1> HIDE DEF hy, hx, gy, gx
<1>5. CASE type = "tiny"
  BY <1>5 DEF Names
<1>6. CASE type = "middle"
  <2>1. /\ Layout(type, than) = [top    |-> Window(1, 0, hy, than.x),
                                 bottom |-> Window(hy + 1, 0, than.y - hy - 1, than.x)]
        /\ Layout(type, size) = [top    |-> Window(1, 0, gy, size.x),
                                 bottom |-> Window(gy + 1, 0, size.y - gy - 1, size.x)]
    BY <1>6 DEF Layout, MiddleWindows, hy, gy
  <2>2. n \in {"top", "bottom"}
    BY <1>6 DEF Names
  <2> QED BY <1>1, <1>2, <1>3, <1>4, <1>6, <2>1, <2>2 DEF Window, Fits
<1>7. CASE type = "large"
  <2>1. /\ Layout(type, than) =
              [top_left     |-> Window(1, 0, hy, hx),
               top_right    |-> Window(1, hx, hy, than.x - hx - 1),
               bottom_left  |-> Window(hy + 1, 0, than.y - hy - 1, hx),
               bottom_right |-> Window(hy + 1, hx, than.y - hy - 1, than.x - hx - 1)]
        /\ Layout(type, size) =
              [top_left     |-> Window(1, 0, gy, gx),
               top_right    |-> Window(1, gx, gy, size.x - gx - 1),
               bottom_left  |-> Window(gy + 1, 0, size.y - gy - 1, gx),
               bottom_right |-> Window(gy + 1, gx, size.y - gy - 1, size.x - gx - 1)]
    BY <1>7 DEF Layout, LargeWindows, hy, hx, gy, gx
  <2>2. n \in {"top_left", "top_right", "bottom_left", "bottom_right"}
    BY <1>7 DEF Names
  <2> QED BY <1>1, <1>2, <1>3, <1>4, <1>7, <2>1, <2>2 DEF Window, Fits
<1> QED BY <1>5, <1>6, <1>7

\* Windows have the names and the extents their layout gives them, and unless
\* the terminal has shrunk their places too.
Placed(open, size, small) ==
    LET wanted == Layout(DisplayType(size), size)
    IN /\ DOMAIN open = Names(DisplayType(size))
       /\ \A n \in DOMAIN open : /\ open[n] \in Places
                               /\ open[n].h = wanted[n].h /\ open[n].w = wanted[n].w
       /\ ~small => open = wanted

Showing(report, size, tab) ==
    [report |-> report, type |-> DisplayType(size), page |-> Page(DisplayType(size), tab)]

ViewInv ==
    /\ tab_index \in 0..9 /\ shrunk \in BOOLEAN
    /\ display_type = DisplayType(screen)
    /\ diff_queue = <<>> => windows = NoWindows /\ ~shrunk /\ shown = Nothing
    /\ diff_queue # <<>> =>
          /\ Placed(windows, screen, shrunk)
          /\ shown = Showing(reports, screen, tab_index)

\* The newest report is the last of the history.
LEMMA LatestReportsEnd ==
    ASSUME NEW last \in Nat, NEW queue,
           queue = LatestReports(last, Least(last, HistorySize))
    PROVE  /\ queue \in Seq(Nat) /\ Len(queue) <= HistorySize
           /\ queue # <<>> => queue[Len(queue)] = last
<1> DEFINE size == Least(last, HistorySize)
<1>1. size \in Nat /\ size <= last /\ size <= HistorySize
  BY TerminalAssumption DEF Least
<1>2. queue = [i \in 1..size |-> last - size + i]
  BY DEF LatestReports
<1> HIDE DEF size
<1>3. queue \in Seq(Nat) /\ Len(queue) = size
  <2>1. queue \in [1..size -> Nat]
    BY <1>1, <1>2
  <2> QED BY <1>1, <2>1
<1>4. queue # <<>> => size # 0
  BY <1>3
<1> QED BY <1>1, <1>2, <1>3, <1>4

LEMMA NewestIsLast ==
    ASSUME HistoryIsLatest, LoopTypes
    PROVE  /\ diff_queue \in Seq(Nat) /\ Len(diff_queue) <= HistorySize
           /\ diff_queue # <<>> => diff_queue[Len(diff_queue)] = reports
<1>1. diff_queue = LatestReports(reports, Least(reports, HistorySize))
  BY DEF HistoryIsLatest, LatestReports
<1>2. reports \in Nat
  BY DEF LoopTypes
<1> QED BY <1>1, <1>2, LatestReportsEnd

LEMMA NewestIsLastNext ==
    ASSUME HistoryIsLatest', LoopTypes'
    PROVE  /\ diff_queue' \in Seq(Nat)
           /\ diff_queue' # <<>> => diff_queue'[Len(diff_queue')] = reports'
<1>1. diff_queue' = LatestReports(reports', Least(reports', HistorySize))
  BY DEF HistoryIsLatest, LatestReports, Least
<1>2. reports' \in Nat
  BY DEF LoopTypes
<1> QED BY <1>1, <1>2, LatestReportsEnd

\* A layout as wanted is one as wanted.
LEMMA WantedIsPlaced ==
    ASSUME NEW size \in Terminals, NEW small
    PROVE  Placed(Layout(DisplayType(size), size), size, small)
<1>1. DOMAIN Layout(DisplayType(size), size) = Names(DisplayType(size))
  BY DisplayTypes, LayoutNames
<1> QED BY <1>1, LayoutInPlaces DEF Placed

\* Windows that follow the terminal from the size than to another of the same
\* display type: when it grows all of them end where the layout wants them.
LEMMA RelaidIsPlaced ==
    ASSUME NEW than \in Terminals, NEW size \in Terminals,
           DisplayType(size) = DisplayType(than),
           NEW open, NEW small, Placed(open, than, small)
    PROVE  Placed(Relayout(Cut(open, size), Layout(DisplayType(size), size), size),
                  size, Smaller(size, than))
<1> DEFINE type == DisplayType(size)
           wanted == Layout(type, size)
           cut == Cut(open, size)
           moved == Relayout(cut, wanted, size)
<1>1. type \in {"tiny", "middle", "large"}
  BY DisplayTypes
<1>2. /\ DOMAIN open = Names(type) /\ DOMAIN wanted = Names(type)
      /\ DOMAIN cut = Names(type) /\ DOMAIN moved = Names(type)
  BY <1>1, LayoutNames DEF Placed, Cut, Relayout
<1>3. ASSUME NEW n \in Names(type)
      PROVE  /\ open[n] \in Places /\ wanted[n] \in Places
             /\ open[n].h = Layout(type, than)[n].h /\ open[n].w = Layout(type, than)[n].w
  BY <1>2, <1>3, LayoutInPlaces DEF Placed
<1>4. ASSUME NEW n \in Names(type)
      PROVE  /\ moved[n] = IF Fits(cut[n], wanted[n].y, wanted[n].x, size) THEN wanted[n]
                           ELSE [wanted[n] EXCEPT !.y = cut[n].y, !.x = cut[n].x]
             /\ cut[n] = [open[n] EXCEPT !.h = Least(@, size.y), !.w = Least(@, size.x)]
  BY <1>2, <1>4 DEF Relayout, Cut
<1> HIDE DEF type, wanted, cut, moved
<1>5. ASSUME NEW n \in Names(type)
      PROVE  /\ cut[n].y = open[n].y /\ cut[n].x = open[n].x
             /\ cut[n].h = Least(open[n].h, size.y) /\ cut[n].w = Least(open[n].w, size.x)
  <2>1. /\ open[n] \in Places
        /\ cut[n] = [open[n] EXCEPT !.h = Least(@, size.y), !.w = Least(@, size.x)]
    BY <1>3, <1>4, <1>5
  <2> QED BY <2>1 DEF Places
<1>6. ASSUME NEW n \in Names(type)
      PROVE  moved[n] \in Places /\ moved[n].h = wanted[n].h /\ moved[n].w = wanted[n].w
  <2>1. open[n] \in Places /\ wanted[n] \in Places
    BY <1>3, <1>6
  <2>2. \/ moved[n] = wanted[n]
        \/ moved[n] = [wanted[n] EXCEPT !.y = open[n].y, !.x = open[n].x]
    BY <1>4, <1>5, <1>6
  <2> QED BY <2>1, <2>2 DEF Places
<1>7. ASSUME ~Smaller(size, than)
      PROVE  moved = wanted
  <2>1. ASSUME NEW n \in Names(type) PROVE moved[n] = wanted[n]
    <3>1. /\ Fits(Layout(type, than)[n], wanted[n].y, wanted[n].x, size)
          /\ Layout(type, than)[n].h <= size.y /\ Layout(type, than)[n].w <= size.x
      <4>1. type = DisplayType(than)
        BY DEF type
      <4> QED BY <1>1, <1>7, <2>1, <4>1, GrownFits DEF wanted
    <3>2. /\ open[n].h = Layout(type, than)[n].h /\ open[n].w = Layout(type, than)[n].w
          /\ open[n] \in Places
      BY <1>3, <2>1
    <3>3. Least(open[n].h, size.y) = open[n].h /\ Least(open[n].w, size.x) = open[n].w
      BY <3>1, <3>2 DEF Least, Places, Terminals
    <3>4. Fits(cut[n], wanted[n].y, wanted[n].x, size)
      BY <1>5, <2>1, <3>1, <3>2, <3>3 DEF Fits
    <3> QED BY <1>4, <2>1, <3>4
  <2>2. moved = [n \in Names(type) |-> moved[n]]
    BY <1>2 DEF moved, Relayout
  <2>3. wanted = [n \in Names(type) |-> wanted[n]]
    BY <1>1, LayoutIsFunction DEF wanted
  <2> QED BY <2>1, <2>2, <2>3
<1>8. Placed(moved, size, Smaller(size, than))
  BY <1>2, <1>6, <1>7 DEF Placed, wanted, type
<1> QED BY <1>8 DEF moved, cut, wanted, type

LEMMA NamesDiffer ==
    ASSUME NEW type \in {"tiny", "middle", "large"}, NEW other \in {"tiny", "middle", "large"},
           Names(type) = Names(other)
    PROVE  type = other
<1>1. /\ Names("tiny") = {} /\ Names("middle") = {"top", "bottom"}
      /\ Names("large") = {"top_left", "top_right", "bottom_left", "bottom_right"}
  BY DEF Names
<1>2. "top" \in Names("middle") /\ "top" \notin Names("large") /\ "top" \notin Names("tiny")
      /\ "top_left" \in Names("large") /\ "top_left" \notin Names("tiny")
  BY <1>1
<1> QED BY <1>2

\* A redraw without a change of size: a report has come, or a key.
LEMMA RedrawKeepsView ==
    ASSUME LoopTypes, ViewInv, NEW queue \in Seq(Nat), NEW tab \in 0..9,
           Draw(queue, tab, screen, windows, FALSE),
           screen' = screen, diff_queue' = queue,
           queue # <<>> => queue[Len(queue)] = reports',
           diff_queue # <<>> => queue # <<>>
    PROVE  ViewInv'
<1> DEFINE type == DisplayType(screen)
           wanted == Layout(type, screen)
<1>1. screen \in Terminals /\ type \in {"tiny", "middle", "large"}
  BY TerminalAssumption, DisplayTypes DEF LoopTypes, Terminals
<1>2. DOMAIN wanted = Names(type)
  BY <1>1, LayoutNames
<1>3. /\ display_type = type /\ display_type' = type /\ tab_index' = tab
      /\ queue = <<>> => UNCHANGED <<windows, shown, shrunk>>
      /\ queue # <<>> =>
            /\ windows' = IF DOMAIN windows # DOMAIN wanted THEN wanted ELSE windows
            /\ shrunk' = IF DOMAIN windows # DOMAIN wanted THEN FALSE ELSE shrunk
            /\ shown' = [report |-> queue[Len(queue)], type |-> type, page |-> Page(type, tab)]
  BY DEF Draw, ViewInv
<1>4. Placed(wanted, screen, FALSE) /\ Placed(wanted, screen, TRUE)
  BY <1>1, WantedIsPlaced
<1> HIDE DEF wanted
<1>5. CASE queue = <<>>
  BY <1>3, <1>5 DEF ViewInv, type
<1>6. CASE queue # <<>>
  <2>1. shown' = Showing(reports', screen, tab)
    BY <1>3, <1>6 DEF Showing
  <2>2. Placed(windows', screen, shrunk') /\ shrunk' \in BOOLEAN
    <3>1. CASE DOMAIN windows # DOMAIN wanted
      BY <1>3, <1>4, <1>6, <3>1
    <3>2. CASE DOMAIN windows = DOMAIN wanted /\ diff_queue # <<>>
      BY <1>3, <1>6, <3>2 DEF ViewInv
    <3>3. CASE DOMAIN windows = DOMAIN wanted /\ diff_queue = <<>>
      <4>1. windows = <<>>
        BY <3>3 DEF ViewInv, NoWindows
      <4>2. Names(type) = Names("tiny")
        <5>1. DOMAIN windows = {} /\ Names("tiny") = {}
          BY <4>1 DEF Names
        <5> QED BY <1>2, <3>3, <5>1
      <4>3. type = "tiny"
        BY <1>1, <4>2, NamesDiffer
      <4>4. windows = wanted
        BY <4>1, <4>3 DEF wanted, Layout, NoWindows
      <4>5. windows' = wanted /\ shrunk' = shrunk /\ shrunk \in BOOLEAN
        BY <1>3, <1>6, <3>3, <4>4 DEF ViewInv
      <4> QED BY <1>4, <4>5
    <3> QED BY <3>1, <3>2, <3>3
  <2>3. display_type' = DisplayType(screen)
    BY <1>3
  <2> QED BY <1>3, <1>6, <2>1, <2>2, <2>3 DEF ViewInv, Placed, Showing
<1> QED BY <1>5, <1>6

\* A redraw after a change of size.
LEMMA ResizeKeepsView ==
    ASSUME LoopTypes, HistoryIsLatest, ViewInv, ResizeKey
    PROVE  ViewInv'
<1> DEFINE type == DisplayType(tty)
           wanted == Layout(type, tty)
           cut == Cut(windows, tty)
           shown_tab == IF type = display_type THEN tab_index ELSE 1
<1>1. /\ screen \in Terminals /\ tty \in Terminals
      /\ type \in {"tiny", "middle", "large"}
      /\ DisplayType(screen) \in {"tiny", "middle", "large"}
  BY TerminalAssumption, DisplayTypes DEF LoopTypes, Terminals
<1>2. DOMAIN wanted = Names(type)
  BY <1>1, LayoutNames
<1>3. /\ display_type' = type /\ tab_index' = shown_tab /\ screen' = tty
      /\ UNCHANGED <<diff_queue, reports>>
      /\ diff_queue = <<>> => windows' = cut /\ UNCHANGED <<shown, shrunk>>
      /\ diff_queue # <<>> =>
            /\ windows' = IF DOMAIN cut # DOMAIN wanted THEN wanted
                          ELSE Relayout(cut, wanted, tty)
            /\ shrunk' = IF DOMAIN cut # DOMAIN wanted THEN FALSE ELSE Smaller(tty, screen)
            /\ shown' = [report |-> diff_queue[Len(diff_queue)], type |-> type,
                         page |-> Page(type, shown_tab)]
  BY DEF ResizeKey, Draw, loop, sampler
<1>4. shown_tab \in 0..9
  BY DEF ViewInv
<1>5. DOMAIN cut = DOMAIN windows
  BY DEF Cut
<1>6. Placed(wanted, tty, FALSE)
  BY <1>1, WantedIsPlaced
<1> HIDE DEF wanted, shown_tab, cut
<1>7. CASE diff_queue = <<>>
  <2>1. windows = <<>>
    BY <1>7 DEF ViewInv, NoWindows
  <2>2. cut = <<>>
    <3>1. cut = [n \in {} |-> [windows[n] EXCEPT !.h = Least(@, tty.y),
                                                !.w = Least(@, tty.x)]]
      BY <2>1 DEF cut, Cut
    <3> QED BY <3>1
  <2>3. windows' = NoWindows
    BY <1>3, <1>7, <2>2 DEF NoWindows
  <2> QED BY <1>3, <1>4, <1>7, <2>3 DEF ViewInv
<1>8. CASE diff_queue # <<>>
  <2>1. shown' = Showing(reports, tty, shown_tab)
    BY <1>3, <1>8, NewestIsLast DEF Showing
  <2>2. Placed(windows, screen, shrunk)
    BY <1>8 DEF ViewInv
  <2>3. Placed(windows', tty, shrunk') /\ shrunk' \in BOOLEAN
    <3>1. CASE DOMAIN cut # DOMAIN wanted
      BY <1>3, <1>6, <1>8, <3>1
    <3>2. CASE DOMAIN cut = DOMAIN wanted
      <4>1. Names(type) = Names(DisplayType(screen))
        BY <1>2, <1>5, <2>2, <3>2 DEF Placed
      <4>2. type = DisplayType(screen)
        BY <1>1, <4>1, NamesDiffer
      <4>3. Placed(Relayout(cut, wanted, tty), tty, Smaller(tty, screen))
        BY <1>1, <2>2, <4>2, RelaidIsPlaced DEF cut, wanted
      <4>4. Smaller(tty, screen) \in BOOLEAN
        BY DEF Smaller
      <4> QED BY <1>3, <1>8, <3>2, <4>3, <4>4
    <3> QED BY <3>1, <3>2
  <2>4. display_type' = DisplayType(tty)
    BY <1>3
  <2> QED BY <1>3, <1>4, <1>8, <2>1, <2>3, <2>4 DEF ViewInv, Placed, Showing
<1> QED BY <1>7, <1>8

LEMMA InitViewInv == Init => ViewInv
<1> SUFFICES ASSUME Init
             PROVE  ViewInv
  OBVIOUS
<1>1. /\ diff_queue = <<>> /\ tab_index = 1 /\ display_type = DisplayType(screen)
      /\ windows = NoWindows /\ shown = Nothing /\ shrunk = FALSE
  BY DEF Init
<1>2. 1 \in 0..9
  OBVIOUS
<1> QED BY <1>1, <1>2 DEF ViewInv

LEMMA NextViewInv ==
    LoopInv /\ HistoryIsLatest /\ HistoryIsLatest' /\ ViewInv /\ [Next]_vars => ViewInv'
<1> SUFFICES ASSUME LoopInv, HistoryIsLatest, HistoryIsLatest', ViewInv, [Next]_vars
             PROVE  ViewInv'
  OBVIOUS
<1>1. LoopTypes /\ LoopTypes'
  BY NextLoopInv DEF LoopInv
<1>2. diff_queue \in Seq(Nat) /\ diff_queue' \in Seq(Nat)
  BY <1>1, NewestIsLast, NewestIsLastNext
<1>3. CASE DigitKey
  <2>1. PICK digit \in Digits : Draw(diff_queue, digit, screen, windows, FALSE)
    BY <1>3 DEF DigitKey
  <2>2. digit \in 0..9
    BY TerminalAssumption
  <2>3. screen' = screen /\ diff_queue' = diff_queue /\ reports' = reports
    BY <1>3 DEF DigitKey, loop, sampler
  <2>4. diff_queue # <<>> => diff_queue[Len(diff_queue)] = reports'
    BY <1>1, <2>3, NewestIsLast
  <2> QED BY <1>1, <1>2, <2>1, <2>2, <2>3, <2>4, RedrawKeepsView
<1>4. CASE ResizeKey
  BY <1>1, <1>4, ResizeKeepsView
<1>5. CASE Sample
  <2>1. screen' = screen
    BY <1>5 DEF Sample
  <2>2. CASE Sampler!Due
    <3>1. reports' = reports + 1 /\ reports' # reports
      BY <1>1, <1>5, <2>2 DEF Sample, Sampler!Sample, LoopTypes
    <3>2. Draw(diff_queue', tab_index, screen, windows, FALSE)
      BY <1>5, <3>1 DEF Sample, Receive
    <3>3. diff_queue' # <<>>
      <4>1. Least(reports', HistorySize) \in Nat \ {0}
        BY <1>1, <3>1, TerminalAssumption DEF LoopTypes, Least
      <4>2. DOMAIN diff_queue' = 1..Least(reports', HistorySize)
        BY DEF HistoryIsLatest, Least
      <4>3. 1 \in DOMAIN diff_queue'
        BY <4>1, <4>2
      <4>4. DOMAIN <<>> = {}
        OBVIOUS
      <4> QED BY <4>3, <4>4
    <3>4. diff_queue'[Len(diff_queue')] = reports'
      BY <1>1, <3>3, NewestIsLastNext
    <3>5. tab_index \in 0..9
      BY DEF ViewInv
    <3> QED BY <1>1, <1>2, <2>1, <3>2, <3>3, <3>4, <3>5, RedrawKeepsView
  <2>3. CASE ~Sampler!Due
    <3>1. UNCHANGED <<diff_queue, reports, tab_index, display_type, windows, shown, shrunk>>
      BY <1>5, <2>3 DEF Sample, Sampler!Sample
    <3> QED BY <2>1, <3>1 DEF ViewInv, Placed, Showing
  <2> QED BY <2>2, <2>3
<1>6. CASE ~(DigitKey \/ ResizeKey \/ Sample)
  <2>1. UNCHANGED <<diff_queue, reports, view>>
    BY <1>6 DEF Next, Loop, While, NoKey, QuitKey, OtherKey, Check,
                Sleep, Signal, ResizeTty, Done, vars, loop, sampler
  <2> QED BY <2>1 DEF view, ViewInv, Placed, Showing
<1> QED BY <1>3, <1>4, <1>5, <1>6

LEMMA ViewInvariance == Spec => []ViewInv
BY InitViewInv, NextViewInv, LoopInvariance, HistoryStaysLatest, PTL DEF Spec

\* After every key, report and change of size that the loop has handled, the
\* screen shows the newest report, on the page and in the windows of the size
\* curses knows of.
THEOREM ScreenStaysCurrent == Spec => []ShownIsCurrent
<1>1. LoopInv /\ ViewInv => ShownIsCurrent
  <2> SUFFICES ASSUME LoopInv, ViewInv, diff_queue # <<>>
               PROVE  ShownIsCurrent
    BY DEF ShownIsCurrent
  <2>1. DisplayType(screen) \in {"tiny", "middle", "large"}
    BY TerminalAssumption, DisplayTypes DEF LoopInv, LoopTypes, Terminals
  <2>2. DOMAIN windows = DOMAIN Layout(DisplayType(screen), screen)
    BY <2>1, LayoutNames DEF ViewInv, Placed
  <2> QED BY <2>2 DEF ViewInv, Showing, ShownIsCurrent
<1> QED BY <1>1, LoopInvariance, ViewInvariance, PTL

\* For every sequence of sizes, windows are where the layout wants them, unless
\* the last change left them less room.
THEOREM WindowsStayLaidOut == Spec => []LaidOutUnlessShrunk
<1>1. ViewInv => LaidOutUnlessShrunk
  BY DEF ViewInv, Placed, LaidOutUnlessShrunk
<1> QED BY <1>1, ViewInvariance, PTL

\* The variables keep their types: there is no window of a negative size, and
\* every page shown is one that some tab has.
THEOREM TerminalTypes == Spec => []TypeOK
<1>1. LoopInv /\ ViewInv /\ HistoryIsLatest => TypeOK
  <2> SUFFICES ASSUME LoopInv, ViewInv, HistoryIsLatest
               PROVE  TypeOK
    OBVIOUS
  <2>1. LoopTypes
    BY DEF LoopInv
  <2>2. diff_queue \in Seq(Nat) /\ Len(diff_queue) <= HistorySize
    BY <2>1, NewestIsLast
  <2>3. display_type \in {"tiny", "middle", "large"}
    BY <2>1, TerminalAssumption, DisplayTypes DEF LoopTypes, ViewInv, Terminals
  <2>4. \A n \in DOMAIN windows : windows[n] \in Places
    <3>1. CASE diff_queue = <<>>
      <4>1. DOMAIN windows = {}
        BY <3>1 DEF ViewInv, NoWindows
      <4> QED BY <4>1
    <3>2. CASE diff_queue # <<>>
      BY <3>2 DEF ViewInv, Placed
    <3> QED BY <3>1, <3>2
  <2>5. shown \in [report : Nat, type : {"tiny", "middle", "large"}, page : 0..7]
    <3>1. Nothing \in [report : Nat, type : {"tiny", "middle", "large"}, page : 0..7]
      BY DEF Nothing
    <3>2. Page(display_type, tab_index) \in 0..7
      BY <2>3 DEF ViewInv, Page, TinyTabs, MiddleTabs, LargeTabs
    <3>3. CASE diff_queue = <<>>
      BY <3>1, <3>3 DEF ViewInv
    <3>4. CASE diff_queue # <<>>
      <4>1. shown = [report |-> reports, type |-> display_type,
                     page |-> Page(display_type, tab_index)]
        BY <3>4 DEF ViewInv, Showing
      <4>2. reports \in Nat
        BY <2>1 DEF LoopTypes
      <4> QED BY <2>3, <3>2, <4>1, <4>2
    <3> QED BY <3>3, <3>4
  <2>6. tab_index \in 0..9 /\ shrunk \in BOOLEAN
    BY DEF ViewInv
  <2> QED BY <2>1, <2>2, <2>3, <2>4, <2>5, <2>6 DEF LoopTypes, TypeOK
<1> QED BY <1>1, LoopInvariance, ViewInvariance, HistoryStaysLatest, PTL

=============================================================================
