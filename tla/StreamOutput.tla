---------------------------- MODULE StreamOutput ----------------------------
(***************************************************************************)
(* text_output::run and json_output::run (cli/main.cpp), which share their *)
(* control, with the signal handler that interrupts them.  The sampler is  *)
(* the abstract one: a call either calls back with a report or does not,   *)
(* as ReportCadence says.                                                  *)
(***************************************************************************)
EXTENDS Naturals

CONSTANTS
    MaxNumber,      \* bound: the values of --number, 0 for no limit
    MaxTaken        \* bound: samples after which only a signal ends the loop

ASSUME StreamAssumption == MaxNumber \in Nat /\ MaxTaken \in Nat

VARIABLES
    output_number,  \* the option --number
    stop,           \* set by the signal handler
    pc,             \* where the loop stands
    current_number, \* reports written
    taken, reports, \* the sampler, see ReportCadence
    signalled,      \* history: where the loop stood at the first signal, before it
                    \* at the start
    late            \* history: samples begun after it

loop == <<output_number, stop, current_number, signalled, late>>
vars == <<loop, pc, taken, reports>>

Sampler == INSTANCE ReportCadence WITH taken <- taken, reports <- reports

Init ==
    /\ output_number \in 0..MaxNumber
    /\ stop \in BOOLEAN /\ signalled = IF stop THEN "start" ELSE "never"
    /\ pc = "while"
    /\ current_number = 0
    /\ Sampler!Init
    /\ late = 0

\* Mutation: the handler toggles.
handle_signal_toggle == stop' = ~stop
\* SIGINT and SIGTSTP, from the installation of the handler to the end.
handle_signal == stop' = TRUE

Signal ==
    /\ pc # "done"
    /\ handle_signal
    /\ signalled' = IF signalled = "never" THEN pc ELSE signalled
    /\ UNCHANGED <<output_number, pc, current_number, late, taken, reports>>

\* Mutation: while (true).
WhileTrue ==
    /\ pc = "while"
    /\ taken < MaxTaken \/ stop
    /\ pc' = "sample"
    /\ UNCHANGED <<loop, taken, reports>>
\* while (!stop)
While ==
    /\ pc = "while"
    /\ taken < MaxTaken \/ stop
    /\ pc' = IF stop THEN "done" ELSE "sample"
    /\ UNCHANGED <<loop, taken, reports>>

\* Mutation: the callback writes without counting.
SampleUncounted ==
    /\ pc = "sample"
    /\ Sampler!Sample
    /\ late' = IF signalled = "never" THEN late ELSE late + 1
    /\ pc' = "check"
    /\ UNCHANGED <<output_number, stop, signalled, current_number>>
\* get_sampler().sample(...), whose callback counts and writes a report.
Sample ==
    /\ pc = "sample"
    /\ Sampler!Sample
    /\ current_number' = IF reports' # reports THEN current_number + 1
                                               ELSE current_number
    /\ late' = IF signalled = "never" THEN late ELSE late + 1
    /\ pc' = "check"
    /\ UNCHANGED <<output_number, stop, signalled>>

\* Mutation: one report too many.
FinishedTooLate == stop \/ (output_number > 0 /\ current_number > output_number)
\* The condition of the break.
Finished == stop \/ (output_number > 0 /\ current_number >= output_number)

Check ==
    /\ pc = "check"
    /\ pc' = IF Finished THEN "done" ELSE "sleep"
    /\ UNCHANGED <<loop, taken, reports>>

\* sleep_for resumes after a signal until its second is over.
Sleep ==
    /\ pc = "sleep"
    /\ pc' = "while"
    /\ UNCHANGED <<loop, taken, reports>>

\* main returns.
Done == pc = "done" /\ UNCHANGED vars

Loop == While \/ Sample \/ Check \/ Sleep

Next == Loop \/ Signal \/ Done

\* A sequential loop of calls that return.  Nothing makes a signal arrive.
Spec == Init /\ [][Next]_vars /\ WF_vars(Loop)

-----------------------------------------------------------------------------
(***************************************************************************)
(* Properties.                                                             *)
(***************************************************************************)

\* Types.
TypeOK ==
    /\ output_number \in Nat
    /\ stop \in BOOLEAN
    /\ pc \in {"while", "sample", "check", "sleep", "done"}
    /\ current_number \in Nat
    /\ taken \in Nat /\ reports \in Nat
    /\ signalled \in {"never", "start", "while", "sample", "check", "sleep"}
    /\ late \in Nat

\* --number n writes n reports and not one more, a signal can only cut them
\* short; a run that is not interrupted takes the 5n + 1 samples of n windows
\* that share their boundaries, and goes on for ever when n is 0
\* (main.cpp:1248, 1287; the option's help at 217).
ExactCount ==
    /\ output_number > 0 => reports <= output_number
    /\ pc = "done" /\ signalled = "never" =>
          /\ output_number > 0
          /\ reports = output_number
          /\ taken = 5 * output_number + 1

\* After a signal at most the sample that was about to begin is taken, and
\* with it at most one report; none when the signal arrives during the pause.
NoSampleAfterSignal ==
    late <= IF signalled = "sample" THEN 1 ELSE 0

\* A signal ends the program, wherever in the loop it arrives and even when
\* another one follows.
SignalEnds == signalled # "never" ~> pc = "done"

\* A limited run ends without one.
LimitedRunEnds == output_number > 0 ~> pc = "done"

\* The loop keeps what OutputLoop promises of every output: it goes on only
\* after it has found that nobody wants it to stop and the limit is not met,
\* and it does not pass for ever.
Promise == INSTANCE OutputLoop WITH
    running <- pc # "done", entered <- pc = "sample"
PromiseKept == Promise!Spec
=============================================================================
