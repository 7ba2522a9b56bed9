------------------------------- MODULE Program -------------------------------
(***************************************************************************)
(* main (cli/main.cpp) from the options to the exit: hwinfo::init and what *)
(* it calls, any of which may fail, the handles they hold meanwhile, the   *)
(* choice of the output, the handlers, and the output's run.  The output   *)
(* is any that keeps the promise of OutputLoop, as StreamOutput and        *)
(* TerminalOutput do.                                                      *)
(***************************************************************************)
EXTENDS Naturals, Sequences

CONSTANTS
    MaxNumber,      \* bound: the values of --number
    MaxDevices,     \* bound: AppleARMIODevices in the registry
    MaxTaken        \* bound: samples after which only a signal ends the run

ASSUME ProgramAssumption == MaxNumber \in Nat /\ MaxDevices \in Nat /\ MaxTaken \in Nat

VARIABLES
    options,        \* [help, json, text : BOOLEAN], and whether stdout is a tty
    output_number,  \* --number
    pc,             \* the next call, "run" or "exit"
    held,           \* handles that have to be released
    devices,        \* devices the iterator has left
    handlers,       \* the signals that are handled
    output,         \* the kind of p_output
    code,           \* what main returns ("success" is 0, "failure" -1), or "killed"
    suspended,      \* stopped by the terminal
    failed,         \* history: the calls that failed
    asked,          \* history: what the first signal found
    stop, running, entered, taken, reports      \* see OutputLoop

start == <<options, output_number, pc, held, devices, handlers, output, code, failed>>
run == <<stop, running, entered, taken, reports>>
vars == <<start, suspended, asked, run>>

Loop == INSTANCE OutputLoop

Init ==
    /\ options \in [help : BOOLEAN, json : BOOLEAN, text : BOOLEAN, tty : BOOLEAN]
    /\ output_number \in 0..MaxNumber
    /\ pc = "options" /\ held = {} /\ devices \in 0..MaxDevices
    /\ handlers = {} /\ output = "none" /\ code = "none"
    /\ suspended = FALSE /\ failed = <<>> /\ asked = "never"
    /\ stop = FALSE /\ running = FALSE /\ entered = FALSE
    /\ Loop!Sampler!Init

-----------------------------------------------------------------------------
(***************************************************************************)
(* Ways on and out.                                                        *)
(***************************************************************************)

\* What the destructors of the sampler's hwinfo leave.
Destroyed == held \ {"connection", "subscription"}

\* A call fails, its error is returned to main and main returns -1.
FailWith(released) ==
    /\ failed' = Append(failed, pc)
    /\ pc' = "exit" /\ code' = "failure"
    /\ held' = Destroyed \ released

\* A call succeeds.
Go(next, holding) == pc' = next /\ held' = holding /\ UNCHANGED <<code, failed>>

\* Mutation: the error is printed.
FailButGo(released) ==
    /\ failed' = Append(failed, pc)
    /\ pc' = "create_output" /\ held' = held \ released /\ UNCHANGED code

-----------------------------------------------------------------------------
(***************************************************************************)
(* The options, sys_info::init, smc_reader::init and io_report::init.      *)
(***************************************************************************)
Options ==
    /\ pc = "options"
    /\ IF options.help
       THEN pc' = "exit" /\ code' = "success" /\ UNCHANGED <<held, failed>>
       ELSE Go("brand", held)
    /\ UNCHANGED <<options, output_number, devices, handlers, output>>

\* The values of sysctlbyname; a brand that is not known has no pmgr to read.
Scalars == {"brand", "perflevel1", "perflevel0", "memsize", "pagesize"}
After(scalar) ==
    CASE scalar = "brand" -> {"perflevel1"}
      [] scalar = "perflevel1" -> {"perflevel0"}
      [] scalar = "perflevel0" -> {"match_pmgr", "memsize"}
      [] scalar = "memsize" -> {"pagesize"}
      [] scalar = "pagesize" -> {"match_smc"}

ReadScalar ==
    /\ pc \in Scalars
    /\ FailWith({}) \/ \E next \in After(pc) : Go(next, held)
    /\ UNCHANGED <<options, output_number, devices, handlers, output>>

\* IOServiceMatching and IOServiceGetMatchingServices.
MatchPmgr ==
    /\ pc = "match_pmgr"
    /\ FailWith({}) \/ Go("next_device", held \cup {"iterator"})
    /\ UNCHANGED <<options, output_number, devices, handlers, output>>

\* IOIteratorNext.
NextDevice ==
    /\ pc = "next_device"
    /\ IF devices = 0
       THEN Go("memsize", held \ {"iterator"}) /\ UNCHANGED devices
       ELSE Go("device", held \cup {"device"}) /\ devices' = devices - 1
    /\ UNCHANGED <<options, output_number, handlers, output>>

\* The device has no name or another, or its properties cannot be read: the
\* next one.  pmgr: the lists, and the end of the loop.
Device ==
    /\ pc = "device"
    /\ Go("next_device", held \ {"device"}) \/ Go("properties", held \cup {"properties"})
    /\ UNCHANGED <<options, output_number, devices, handlers, output>>

ReadLists ==
    /\ pc = "properties"
    /\ Go("memsize", held \ {"properties", "device", "iterator"})
    /\ UNCHANGED <<options, output_number, devices, handlers, output>>

MatchSmc ==
    /\ pc = "match_smc"
    /\ FailWith({}) \/ Go("smc_service", held \cup {"iterator"})
    /\ UNCHANGED <<options, output_number, devices, handlers, output>>

\* The first service of the iterator, which is released in any case.
SmcService ==
    /\ pc = "smc_service"
    /\ FailWith({"iterator"}) \/ Go("smc_open", (held \ {"iterator"}) \cup {"service"})
    /\ UNCHANGED <<options, output_number, devices, handlers, output>>

\* Mutation: the service is released when the connection is there.
SmcOpenKeepsService ==
    /\ pc = "smc_open"
    /\ FailWith({}) \/ Go("io_report", (held \ {"service"}) \cup {"connection"})
    /\ UNCHANGED <<options, output_number, devices, handlers, output>>

\* IOServiceOpen; the keys that are checked then cannot fail, see SmcReader.
SmcOpen ==
    /\ pc = "smc_open"
    /\ FailWith({"service"}) \/ Go("io_report", (held \ {"service"}) \cup {"connection"})
    /\ UNCHANGED <<options, output_number, devices, handlers, output>>

\* Mutation: its error is not returned.
InitIoReportAnyhow ==
    /\ pc = "io_report"
    /\ FailButGo({}) \/ \E sub \in SUBSET {"subscription"} : Go("create_output", held \cup sub)
    /\ UNCHANGED <<options, output_number, devices, handlers, output>>

\* io_report::init, see IoReport: it may succeed with nothing.
InitIoReport ==
    /\ pc = "io_report"
    /\ FailWith({}) \/ \E sub \in SUBSET {"subscription"} : Go("create_output", held \cup sub)
    /\ UNCHANGED <<options, output_number, devices, handlers, output>>

-----------------------------------------------------------------------------
(***************************************************************************)
(* The output, the handlers and the run.                                   *)
(***************************************************************************)
CreateOutput ==
    /\ pc = "create_output"
    /\ output' = CASE options.json -> "json"
                   [] ~options.json /\ options.text -> "text"
                   [] OTHER -> IF options.tty THEN "terminal" ELSE "text"
    /\ Go("SIGINT", held)
    /\ UNCHANGED <<options, output_number, devices, handlers>>

\* sigaction for one signal, then for the other.
InstallHandler ==
    /\ pc \in {"SIGINT", "SIGTSTP"}
    /\ \/ FailWith({}) /\ UNCHANGED handlers
       \/ Go(IF pc = "SIGINT" THEN "SIGTSTP" ELSE "start_run", held) /\ handlers' = handlers \cup {pc}
    /\ UNCHANGED <<options, output_number, devices, output>>

Startup ==
    /\ ~suspended
    /\ \/ Options \/ ReadScalar \/ MatchPmgr \/ NextDevice \/ Device \/ ReadLists
       \/ MatchSmc \/ SmcService \/ SmcOpen \/ InitIoReport \/ CreateOutput \/ InstallHandler
    /\ UNCHANGED <<suspended, asked, run>>

\* Mutation: the run begins afresh.
RunUnstopped ==
    /\ pc = "start_run"
    /\ pc' = "run" /\ running' = TRUE /\ stop' = FALSE
    /\ UNCHANGED <<options, output_number, held, devices, handlers, output, code, failed,
                   suspended, asked, entered, taken, reports>>

\* p_output->run().
Run ==
    /\ pc = "start_run"
    /\ pc' = "run" /\ running' = TRUE
    /\ UNCHANGED <<options, output_number, held, devices, handlers, output, code, failed,
                   suspended, asked, stop, entered, taken, reports>>

RunStep ==
    /\ Loop!Enter \/ Loop!Take \/ Loop!Pass \/ Loop!End \/ (output = "terminal" /\ Loop!Quit)
    /\ UNCHANGED <<start, suspended, asked>>

Return ==
    /\ pc = "run" /\ ~running
    /\ pc' = "exit" /\ code' = "success" /\ held' = Destroyed
    /\ UNCHANGED <<options, output_number, devices, handlers, output, failed, suspended, asked, run>>

-----------------------------------------------------------------------------
(***************************************************************************)
(* Signals, which a program that is suspended gets when it is continued.   *)
(***************************************************************************)

\* Mutation: a signal before the run does not count.
handle_signal_running == stop' = (stop \/ running)
handle_signal == stop' = TRUE

Mark == asked' = IF asked # "never" THEN asked ELSE IF taken = 0 /\ ~entered THEN "early" ELSE "late"

Handled(signal) ==
    /\ signal \in handlers /\ pc # "exit" /\ ~suspended
    /\ handle_signal /\ Mark
    /\ UNCHANGED <<start, suspended, running, entered, taken, reports>>

\* SIGINT ends a program that does not handle it; the kernel takes its handles.
Interrupt ==
    /\ "SIGINT" \notin handlers /\ pc # "exit" /\ ~suspended
    /\ pc' = "exit" /\ code' = "killed" /\ held' = {} /\ Mark
    /\ UNCHANGED <<options, output_number, devices, handlers, output, failed, suspended, run>>

\* SIGTSTP suspends a program that does not, until its shell continues it.
Suspend ==
    /\ "SIGTSTP" \notin handlers /\ pc # "exit" /\ ~suspended
    /\ suspended' = TRUE
    /\ UNCHANGED <<start, asked, run>>

Continue == suspended /\ suspended' = FALSE /\ UNCHANGED <<start, asked, run>>

Signals == (\E signal \in {"SIGINT", "SIGTSTP"} : Handled(signal)) \/ Interrupt \/ Suspend \/ Continue

Done == pc = "exit" /\ UNCHANGED vars

Next == Startup \/ Run \/ RunStep \/ Return \/ Signals \/ Done

\* The calls return, and the output keeps its promise.
Fairness == WF_vars(Startup) /\ WF_vars(Run \/ Return) /\ Loop!Fairness

Spec == Init /\ [][Next]_vars /\ Fairness

-----------------------------------------------------------------------------
\* The output runs only when nothing has failed, both signals are handled and
\* the SMC is connected, with no other handle in use; it is the one that the
\* help of the options tells ("json format when both json and text options are
\* specified", text "even if stdout is attached with a tty", main.cpp:214).
ReadyWhenRunning ==
    running =>
        /\ failed = <<>> /\ handlers = {"SIGINT", "SIGTSTP"}
        /\ "connection" \in held /\ held \subseteq {"connection", "subscription"}
        /\ options.json <=> output = "json"
        /\ output = "terminal" => options.tty /\ ~options.text

\* main returns 0 for the help or after a run that somebody ended or that made
\* all its reports, -1 for the first call that failed, before any sample.
CodeTellsOutcome ==
    pc = "exit" =>
        /\ code = "success" =>
              /\ failed = <<>>
              /\ options.help \/ stop \/ (output_number > 0 /\ reports = output_number)
        /\ code = "failure" => Len(failed) = 1 /\ taken = 0
        /\ code = "killed" => "SIGINT" \notin handlers

\* Whatever call fails and whenever the program ends, each handle it got has
\* been released.
NothingIsLeft == pc = "exit" => held = {}

\* A signal that arrives before the first sample, even before the output runs,
\* keeps the program from taking any.
EarlySignalTakesNone == asked = "early" => taken = 0

\* A signal ends the program, at the start, in the run and between the two,
\* unless SIGTSTP has suspended it before it handles it.
SignalEnds == asked # "never" ~> pc = "exit" \/ suspended

\* With a limit every start ends, in success or failure.
LimitedProgramEnds == output_number > 0 ~> pc = "exit" \/ suspended

\* main runs the output and returns as its calls went.
MainIsInOrder == ReadyWhenRunning /\ CodeTellsOutcome

\* The program ends when it is told to, by a signal or a limit.
ProgramEnds == SignalEnds /\ LimitedProgramEnds
=============================================================================
