----------------------------- MODULE OutputLoop -----------------------------
(***************************************************************************)
(* What an output promises (output_base::run in cli/main.cpp), whether it  *)
(* writes text or JSON or draws: it takes samples one at a time, each      *)
(* after it has found that nobody wants it to stop, and ends when somebody *)
(* does or when --number reports have been made.  How it passes the time   *)
(* between two samples, and what it shows, is left to it.                  *)
(***************************************************************************)
EXTENDS Naturals

CONSTANT MaxTaken   \* bound: samples after which only a signal ends the loop

VARIABLES
    output_number,  \* the option --number, 0 for no limit
    stop,           \* somebody wants it to stop
    running,        \* run() has not returned
    entered,        \* it has found that it shall go on
    taken, reports  \* the sampler, see ReportCadence

vars == <<output_number, stop, running, entered, taken, reports>>

Sampler == INSTANCE ReportCadence WITH taken <- taken, reports <- reports

Init ==
    /\ output_number \in Nat
    /\ stop \in BOOLEAN     \* the handler is there before the loop
    /\ running = TRUE /\ entered = FALSE
    /\ Sampler!Init

Enough == output_number > 0 /\ reports >= output_number

\* SIGINT or SIGTSTP.
Signal ==
    /\ running
    /\ stop' = TRUE
    /\ UNCHANGED <<output_number, running, entered, taken, reports>>

Enter ==
    /\ running /\ ~entered /\ ~stop /\ ~Enough /\ taken < MaxTaken
    /\ entered' = TRUE
    /\ UNCHANGED <<output_number, stop, running, taken, reports>>

\* The sample that was due when it went on, even if somebody interrupts it now.
Take ==
    /\ running /\ entered
    /\ Sampler!Sample
    /\ entered' = FALSE
    /\ UNCHANGED <<output_number, stop, running>>

\* No sample is due, or a key keeps it from taking one.
Pass ==
    /\ running /\ entered
    /\ entered' = FALSE
    /\ UNCHANGED <<output_number, stop, running, taken, reports>>

End ==
    /\ running /\ ~entered /\ (stop \/ Enough)
    /\ running' = FALSE
    /\ UNCHANGED <<output_number, stop, entered, taken, reports>>

\* The user presses q.
Quit ==
    /\ running /\ entered
    /\ stop' = TRUE /\ running' = FALSE /\ entered' = FALSE
    /\ UNCHANGED <<output_number, taken, reports>>

Next == Signal \/ Enter \/ Take \/ Pass \/ End \/ Quit

\* It goes on or ends, and does not pass for ever.
Fairness == WF_vars(Enter) /\ WF_vars(End) /\ SF_vars(Take)

Spec == Init /\ [][Next]_vars /\ Fairness
=============================================================================
