--------------------------- MODULE TerminalOutput ---------------------------
(***************************************************************************)
(* terminal_output (cli/main.cpp): the curses loop, which naps between two *)
(* looks at the keyboard and samples after ten naps, the history of        *)
(* reports behind the charts, and the windows, which follow the size of    *)
(* the terminal.  The sampler is the abstract one of ReportCadence; what a *)
(* window shows is abstracted to its page and to the newest report in it.  *)
(*                                                                         *)
(* curses is external.  wgetch finds out that the terminal has a new size, *)
(* cuts every window that is larger and returns KEY_RESIZE; mvwin leaves a *)
(* window where it is when it would not fit on the screen at its new       *)
(* place; newwin and wresize succeed.                                      *)
(***************************************************************************)
EXTENDS Naturals, Sequences

CONSTANTS
    NapsPerSample,  \* naps between two samples, 10 in the code
    HistorySize,    \* reports kept for the charts, 384 in the code
    ShrinkAfter,    \* drops between two shrink_to_fit, 128 in the code
    Numbers,        \* the values of --number, 0 for no limit
    Digits,         \* the digit keys that are pressed
    Sizes,          \* the sizes [y, x] the terminal may have
    MaxTaken        \* bound: samples after which only a signal ends the loop

ASSUME TerminalAssumption ==
    /\ {NapsPerSample, HistorySize} \subseteq Nat \ {0} /\ ShrinkAfter \in Nat
    /\ Numbers \subseteq Nat /\ Digits \subseteq 0..9 /\ MaxTaken \in Nat
    /\ Sizes \subseteq [y : Nat, x : Nat]

VARIABLES
    output_number,  \* the option --number
    stop,           \* set by the signal handler and by q
    pc,             \* where the loop stands
    sleep_times,    \* naps since the last sample
    current_number, \* reports received
    diff_queue,     \* the history, a report being the number of its delivery
    pop_times,      \* drops since the last shrink_to_fit
    tab_index, display_type,
    windows,        \* the open windows: their names and where they are
    screen,         \* the size curses knows of
    tty,            \* the size the terminal has
    shown,          \* what the screen shows of which report
    taken, reports, \* the sampler, see ReportCadence
    slept,          \* history: naps
    signalled,      \* history: where the loop stood at the first signal, before it
                    \* at the start
    late,           \* history: samples begun after it
    shrunk          \* history: the windows were last laid out for less room

loop == <<output_number, stop, sleep_times, current_number, diff_queue,
          pop_times>>
view == <<tab_index, display_type, windows, screen, shown, shrunk>>
sampler == <<taken, reports>>
history == <<slept, signalled, late>>
vars == <<loop, pc, view, tty, sampler, history>>

Sampler == INSTANCE ReportCadence WITH taken <- taken, reports <- reports

-----------------------------------------------------------------------------
(***************************************************************************)
(* Display types, pages and windows.                                       *)
(***************************************************************************)

\* get_display_type
DisplayType(size) ==
    CASE size.x >= 120 /\ size.y >= 21 -> "large"
      [] size.x \in 60..119 /\ size.y >= 21 -> "middle"
      [] OTHER -> "tiny"

\* The tabs each display type knows; any other shows the first page.
TinyTabs == 1..7
MiddleTabs == 1..7
LargeTabs == 1..4
Page(type, tab) ==
    IF tab \in (CASE type = "tiny"   -> TinyTabs
                  [] type = "middle" -> MiddleTabs
                  [] type = "large"  -> LargeTabs) THEN tab ELSE 1

Window(y, x, h, w) == [y |-> y, x |-> x, h |-> h, w |-> w]

\* Where draw_middle and draw_large want their windows.
MiddleWindows(size) ==
    LET top_height == size.y \div 2
        bottom_height == size.y - top_height - 1
    IN [top    |-> Window(1, 0, top_height, size.x),
        bottom |-> Window(top_height + 1, 0, bottom_height, size.x)]

LargeWindows(size) ==
    LET top_height == size.y \div 2
        left_width == size.x \div 2
        bottom_height == size.y - top_height - 1
        right_width == size.x - left_width - 1
    IN [top_left     |-> Window(1, 0, top_height, left_width),
        top_right    |-> Window(1, left_width, top_height, right_width),
        bottom_left  |-> Window(top_height + 1, 0, bottom_height, left_width),
        bottom_right |-> Window(top_height + 1, left_width, bottom_height,
                                right_width)]

NoWindows == <<>>

Layout(type, size) == CASE type = "tiny"   -> NoWindows
                        [] type = "middle" -> MiddleWindows(size)
                        [] type = "large"  -> LargeWindows(size)

Least(a, b) == IF a < b THEN a ELSE b

\* What wgetch does to the windows when the terminal has a new size.
Cut(open, size) ==
    [n \in DOMAIN open |-> [open[n] EXCEPT !.h = Least(@, size.y),
                                           !.w = Least(@, size.x)]]

\* mvwin refuses to move a window off the screen.
Fits(window, y, x, size) == y + window.h <= size.y /\ x + window.w <= size.x

\* Mutation: the windows are resized and stay where they are.
RelayoutUnmoved(open, wanted, size) ==
    [n \in DOMAIN open |-> [wanted[n] EXCEPT !.y = open[n].y, !.x = open[n].x]]
\* Every window is moved before any is resized.
Relayout(open, wanted, size) ==
    [n \in DOMAIN open |->
        IF Fits(open[n], wanted[n].y, wanted[n].x, size) THEN wanted[n]
        ELSE [wanted[n] EXCEPT !.y = open[n].y, !.x = open[n].x]]

Smaller(size, than) == size.y < than.y \/ size.x < than.x

\* terminal_output::draw, with the history and the tab it finds, the size of
\* the screen and the windows open.
Draw(queue, tab, size, open, resize) ==
    LET type == DisplayType(size)
        shown_tab == IF type = display_type THEN tab ELSE 1
        wanted == Layout(type, size)
        create == DOMAIN open # DOMAIN wanted
    IN /\ display_type' = type
       /\ tab_index' = shown_tab
       /\ IF queue = <<>>
          THEN windows' = open /\ UNCHANGED <<shown, shrunk>>
          ELSE /\ windows' = CASE create -> wanted
                               [] resize /\ ~create -> Relayout(open, wanted, size)
                               [] OTHER -> open
               /\ shrunk' = CASE create -> FALSE
                              [] resize /\ ~create -> Smaller(size, screen)
                              [] OTHER -> shrunk
               /\ shown' = [report |-> queue[Len(queue)], type |-> type,
                            page |-> Page(type, shown_tab)]

Nothing == [report |-> 0, type |-> "tiny", page |-> 0]

Init ==
    /\ output_number \in Numbers
    /\ stop \in BOOLEAN /\ signalled = IF stop THEN "start" ELSE "never"
    /\ pc = "while"
    /\ sleep_times = 0 /\ current_number = 0 /\ pop_times = 0
    /\ diff_queue = <<>>
    /\ tty \in Sizes /\ screen = tty
    /\ tab_index = 1 /\ display_type = DisplayType(screen)
    /\ windows = NoWindows /\ shown = Nothing
    /\ Sampler!Init
    /\ slept = 0 /\ late = 0 /\ shrunk = FALSE

-----------------------------------------------------------------------------
(***************************************************************************)
(* The world: a signal, a user who resizes the terminal.                   *)
(***************************************************************************)

\* Mutation: the signal is only taken while the loop naps.
handle_signal_asleep == stop' = (stop \/ pc = "sleep")
handle_signal == stop' = TRUE

Signal ==
    /\ pc # "done"
    /\ handle_signal
    /\ signalled' = IF signalled = "never" THEN pc ELSE signalled
    /\ UNCHANGED <<output_number, sleep_times, current_number, diff_queue,
                   pop_times, pc, view, tty, sampler, slept, late>>

ResizeTty ==
    /\ pc # "done"
    /\ tty' \in Sizes \ {tty}
    /\ UNCHANGED <<loop, pc, view, sampler, history>>

-----------------------------------------------------------------------------
(***************************************************************************)
(* terminal_output::run.                                                   *)
(***************************************************************************)

\* Mutation: while (true).
WhileTrue ==
    /\ pc = "while"
    /\ taken < MaxTaken \/ stop
    /\ pc' = "getch"
    /\ UNCHANGED <<loop, view, tty, sampler, history>>
\* while (!stop); endwin after the loop.
While ==
    /\ pc = "while"
    /\ taken < MaxTaken \/ stop
    /\ pc' = IF stop THEN "done" ELSE "getch"
    /\ UNCHANGED <<loop, view, tty, sampler, history>>

\* wgetch returns ERR.
NoKey ==
    /\ pc = "getch"
    /\ pc' = IF sleep_times >= NapsPerSample THEN "sample" ELSE "check"
    /\ UNCHANGED <<loop, view, tty, sampler, history>>

\* Mutation: the redraw after a KEY_RESIZE is left to the next report.
ResizeKeyUndrawn ==
    /\ pc = "getch"
    /\ tty # screen
    /\ screen' = tty
    /\ pc' = "while"
    /\ UNCHANGED <<loop, tab_index, display_type, windows, shown, shrunk, tty,
                   sampler, history>>
\* KEY_RESIZE
ResizeKey ==
    /\ pc = "getch"
    /\ tty # screen
    /\ screen' = tty
    /\ Draw(diff_queue, tab_index, tty, Cut(windows, tty), TRUE)
    /\ pc' = "while"
    /\ UNCHANGED <<loop, tty, sampler, history>>

\* 'q'
QuitKey ==
    /\ pc = "getch"
    /\ stop' = TRUE
    /\ pc' = "done"
    /\ UNCHANGED <<output_number, sleep_times, current_number, diff_queue,
                   pop_times, view, tty, sampler, history>>

\* Mutation: a key starts the naps afresh.
DigitKeyNapsAfresh ==
    /\ pc = "getch"
    /\ \E digit \in Digits : Draw(diff_queue, digit, screen, windows, FALSE)
    /\ sleep_times' = 0
    /\ pc' = "while"
    /\ UNCHANGED <<output_number, stop, current_number, diff_queue, pop_times,
                   screen, tty, sampler, history>>
\* '0'..'9'
DigitKey ==
    /\ pc = "getch"
    /\ \E digit \in Digits : Draw(diff_queue, digit, screen, windows, FALSE)
    /\ pc' = "while"
    /\ UNCHANGED <<loop, screen, tty, sampler, history>>

\* Any other key is ignored.
OtherKey ==
    /\ pc = "getch"
    /\ pc' = "while"
    /\ UNCHANGED <<loop, view, tty, sampler, history>>

\* Mutation: the history drops its oldest report one report too late.
KeepLate(queue) == IF Len(queue) > HistorySize + 1 THEN Tail(queue) ELSE queue
\* What the history keeps.
Keep(queue) == IF Len(queue) > HistorySize THEN Tail(queue) ELSE queue

\* The callback: it counts the report, adds it to the history and draws.
Receive ==
    LET queue == Append(diff_queue, reports')
    IN /\ current_number' = current_number + 1
       /\ diff_queue' = Keep(queue)
       /\ pop_times' = CASE Len(queue) <= HistorySize -> pop_times
                         [] pop_times + 1 > ShrinkAfter -> 0
                         [] OTHER -> pop_times + 1
       /\ Draw(diff_queue', tab_index, screen, windows, FALSE)

\* get_sampler().sample(...)
Sample ==
    /\ pc = "sample"
    /\ sleep_times' = 0
    /\ Sampler!Sample
    /\ IF reports' # reports THEN Receive
       ELSE UNCHANGED <<current_number, diff_queue, pop_times, tab_index,
                        display_type, windows, shown, shrunk>>
    /\ late' = IF signalled = "never" THEN late ELSE late + 1
    /\ pc' = "check"
    /\ UNCHANGED <<output_number, stop, screen, tty, slept, signalled>>

\* Mutations: a limit of 0 is met at once; the limit is not asked for.
FinishedAtZero == stop \/ current_number >= output_number
FinishedByStop == stop
Finished == stop \/ (output_number > 0 /\ current_number >= output_number)

Check ==
    /\ pc = "check"
    /\ IF Finished
       THEN pc' = "done" /\ UNCHANGED sleep_times
       ELSE pc' = "sleep" /\ sleep_times' = sleep_times + 1
    /\ UNCHANGED <<output_number, stop, current_number, diff_queue, pop_times,
                   view, tty, sampler, history>>

\* sleep_for(100ms)
Sleep ==
    /\ pc = "sleep"
    /\ slept' = slept + 1
    /\ pc' = "while"
    /\ UNCHANGED <<loop, view, tty, sampler, signalled, late>>

Done == pc = "done" /\ UNCHANGED vars

Loop == \/ While \/ NoKey \/ ResizeKey \/ QuitKey \/ DigitKey \/ OtherKey
        \/ Sample \/ Check \/ Sleep

Next == Loop \/ Signal \/ ResizeTty \/ Done

\* The loop is sequential, and now and then no key is waiting.
Fairness == WF_vars(Loop) /\ SF_vars(NoKey)
Spec == Init /\ [][Next]_vars /\ Fairness

-----------------------------------------------------------------------------
(***************************************************************************)
(* Properties.                                                             *)
(***************************************************************************)

Places == [y : Nat, x : Nat, h : Nat, w : Nat]

\* Types.
TypeOK ==
    /\ output_number \in Numbers /\ stop \in BOOLEAN
    /\ pc \in {"while", "getch", "sample", "check", "sleep", "done"}
    /\ sleep_times \in 0..NapsPerSample
    /\ current_number \in Nat
    /\ diff_queue \in Seq(Nat) /\ Len(diff_queue) <= HistorySize
    /\ pop_times \in 0..ShrinkAfter
    /\ tab_index \in 0..9 /\ display_type \in {"tiny", "middle", "large"}
    /\ \A n \in DOMAIN windows : windows[n] \in Places
    /\ screen \in Sizes /\ tty \in Sizes
    /\ shown \in [report : Nat, type : {"tiny", "middle", "large"}, page : 0..7]
    /\ slept \in Nat /\ late \in Nat /\ shrunk \in BOOLEAN
    /\ signalled \in {"never", "start", "while", "getch", "sample", "check", "sleep"}

\* The charts are drawn from the latest reports, all of them, in the order in
\* which they came (main.cpp:358-365).
HistoryIsLatest ==
    LET size == Least(reports, HistorySize)
    IN diff_queue = [i \in 1..size |-> reports - size + i]

\* The screen shows the newest report, on the page of the tab chosen last, or
\* the first one of a display type the terminal has just grown or shrunk to;
\* the windows are those of the display type.
ShownIsCurrent ==
    diff_queue # <<>> =>
        /\ shown = [report |-> reports, type |-> DisplayType(screen),
                    page |-> Page(DisplayType(screen), tab_index)]
        /\ DOMAIN windows = DOMAIN Layout(DisplayType(screen), screen)

\* Windows are where the layout wants them, unless the last change of the
\* terminal's size left them less room.
LaidOutUnlessShrunk ==
    ~shrunk /\ windows # NoWindows =>
        windows = Layout(DisplayType(screen), screen)

\* A change of the terminal's size moves and resizes the windows
\* (main.cpp:550, 671).  Does not hold, see the README.
LaidOut == windows # NoWindows => windows = Layout(DisplayType(screen), screen)

\* Keys and redraws never shorten or stretch the time between two samples:
\* there are as many naps as the sampler's callers owe it.
PaceKept == slept + (IF pc = "sleep" THEN 1 ELSE 0)
                = NapsPerSample * taken + sleep_times

\* --number n ends the loop with its n-th report, after the 5n + 1 samples of
\* n windows; without a limit only a key or a signal ends it.
ExactCount ==
    /\ output_number > 0 => reports <= output_number
    /\ pc = "done" /\ ~stop =>
          /\ output_number > 0
          /\ reports = output_number
          /\ taken = 5 * output_number + 1

\* After a signal at most the sample that was about to begin is taken.
NoSampleAfterSignal ==
    late <= IF signalled \in {"getch", "sample"} THEN 1 ELSE 0

\* A signal ends the program, wherever in the loop it arrives and whatever
\* keys are pressed.
SignalEnds == signalled # "never" ~> pc = "done"

\* A limited run ends without one, as long as keys leave the loop a pause.
LimitedRunEnds == output_number > 0 ~> pc = "done"

\* The loop keeps what OutputLoop promises of every output: it goes on only
\* after it has found that nobody wants it to stop and the limit is not met,
\* and it does not pass for ever.
Promise == INSTANCE OutputLoop WITH
    running <- pc # "done", entered <- pc \in {"getch", "sample"}
PromiseKept == Promise!Spec
=============================================================================
