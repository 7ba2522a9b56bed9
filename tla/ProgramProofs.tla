---------------------------- MODULE ProgramProofs ----------------------------
(***************************************************************************)
(* The safety of main, for every option, any number of devices and any     *)
(* call that fails: what is held when a call fails, what has happened when *)
(* the output runs, and what the value returned by main says.              *)
(***************************************************************************)
EXTENDS Program, TLAPS

Starting == {"options", "match_pmgr", "next_device", "device", "properties", "match_smc",
             "smc_service", "smc_open", "io_report", "create_output"} \cup Scalars
Ready == {"create_output", "SIGINT", "SIGTSTP", "start_run", "run"}

\* The handles main has at each call.
Holding(at) ==
    CASE at \in {"next_device", "smc_service"} -> {{"iterator"}}
      [] at = "device"     -> {{"iterator", "device"}}
      [] at = "properties" -> {{"iterator", "device", "properties"}}
      [] at = "smc_open"   -> {{"service"}}
      [] at = "io_report"  -> {{"connection"}}
      [] at \in Ready      -> {{"connection"}, {"connection", "subscription"}}
      [] OTHER             -> {{}}

TypeInv ==
    /\ pc \in Starting \cup Ready \cup {"exit"}
    /\ output_number \in Nat /\ taken \in Nat /\ reports \in Nat
    /\ running \in BOOLEAN /\ entered \in BOOLEAN /\ stop \in BOOLEAN

\* The signals that are handled at each call.
Handling ==
    /\ pc \in Starting \cup {"SIGINT"} => handlers = {}
    /\ pc = "SIGTSTP" => handlers = {"SIGINT"}
    /\ pc \in {"start_run", "run"} => handlers = {"SIGINT", "SIGTSTP"}

\* The output is the one the options ask for.
Chosen ==
    pc \in Ready \ {"create_output"} =>
        /\ options.json <=> output = "json"
        /\ output = "terminal" => options.tty /\ ~options.text

\* Samples are taken while the output runs, the last one at the limit.
Sampling ==
    /\ pc \notin {"run", "exit"} => ~running /\ taken = 0 /\ reports = 0
    /\ running => pc = "run"
    /\ entered => running
    /\ output_number > 0 =>
          /\ reports <= output_number
          /\ entered => reports < output_number

\* The first call that fails ends the program, and an output that has returned
\* was told to or has made all its reports.
Outcome ==
    /\ pc # "exit" => code = "none" /\ failed = <<>>
    /\ pc = "run" /\ ~running => stop \/ (output_number > 0 /\ reports = output_number)
    /\ CodeTellsOutcome

\* An early signal has left its mark before anything asked for a sample.
Early == asked = "early" => taken = 0 /\ ~entered /\ (stop \/ pc = "exit")

IInv ==
    /\ TypeInv /\ held \in Holding(pc) /\ Handling /\ Chosen
    /\ Sampling /\ Outcome /\ Early

-----------------------------------------------------------------------------
LEMMA InitIInv == Init => IInv
<1> SUFFICES ASSUME Init PROVE IInv
  OBVIOUS
<1>1. /\ pc = "options" /\ held = {} /\ handlers = {} /\ code = "none"
      /\ failed = <<>> /\ asked = "never" /\ output_number \in Nat
      /\ stop = FALSE /\ running = FALSE /\ entered = FALSE /\ taken = 0 /\ reports = 0
  BY ProgramAssumption DEF Init, Loop!Sampler!Init
<1>2. TypeInv /\ Handling /\ Chosen
  BY <1>1 DEF TypeInv, Handling, Chosen, Starting, Ready
<1>3. held \in Holding(pc)
  BY <1>1 DEF Holding, Ready
<1>4. Sampling /\ Outcome /\ Early
  BY <1>1 DEF Sampling, Outcome, CodeTellsOutcome, Early
<1> QED BY <1>2, <1>3, <1>4 DEF IInv

\* A call before the handlers are there succeeds: the next one has the handles
\* that it needs.
LEMMA GoesOn ==
    ASSUME IInv, pc \in Starting,
           NEW next \in Starting \cup {"SIGINT"}, NEW holding \in Holding(next),
           Go(next, holding),
           UNCHANGED <<options, output_number, handlers, suspended, asked, run>>,
           next = "SIGINT" => Chosen'
    PROVE  IInv'
<1> USE DEF IInv, Go, run
<1>1. TypeInv'
  BY DEF TypeInv, Ready
<1>2. held' \in Holding(pc')
  OBVIOUS
<1>3. Handling'
  BY DEF Handling, Starting, Scalars
<1>4. Chosen'
  BY DEF Chosen, Starting, Scalars, Ready
<1>5. pc # "exit" /\ pc # "run" /\ pc' # "exit" /\ pc' # "run"
  BY DEF Starting, Scalars
<1>6. Sampling' /\ Outcome' /\ Early'
  BY <1>5 DEF Sampling, Outcome, CodeTellsOutcome, Early
<1> QED BY <1>1, <1>2, <1>3, <1>4, <1>6

\* A call fails: what it held is released, the rest by the destructors.
LEMMA Fails ==
    ASSUME IInv, pc \notin {"run", "exit"},
           NEW released, held \subseteq released \cup {"connection", "subscription"},
           FailWith(released),
           UNCHANGED <<options, output_number, handlers, suspended, asked, run>>
    PROVE  IInv'
<1> USE DEF IInv, FailWith, run
<1>1. pc' = "exit" /\ code' = "failure" /\ failed' = Append(<<>>, pc)
  BY DEF Outcome
<1>2. held' \in Holding(pc')
  <2>1. held' = {}
    BY DEF Destroyed
  <2> QED BY <1>1, <2>1 DEF Holding, Ready
<1>3. TypeInv'
  BY <1>1 DEF TypeInv
<1>4. Handling' /\ Chosen'
  BY <1>1 DEF Handling, Chosen, Starting, Scalars, Ready
<1>5. taken = 0 /\ ~running
  BY DEF Sampling
<1>6. Len(failed') = 1
  BY <1>1
<1>7. Sampling' /\ Outcome' /\ Early'
  BY <1>1, <1>5, <1>6 DEF Sampling, Outcome, CodeTellsOutcome, Early
<1> QED BY <1>2, <1>3, <1>4, <1>7

-----------------------------------------------------------------------------
\* hwinfo::init, the choice of the output and the handlers.
LEMMA StartupIInv == IInv /\ Startup => IInv'
<1> SUFFICES ASSUME IInv, Startup PROVE IInv'
  OBVIOUS
<1>0. UNCHANGED <<suspended, asked, run>>
  BY DEF Startup
<1> DEFINE Goes(next, holding) == Go(next, holding) /\ next \in Starting /\ holding \in Holding(next)
<1>a. ASSUME NEW next, NEW holding, Goes(next, holding), pc \in Starting,
             UNCHANGED <<options, output_number, handlers>>
      PROVE  IInv'
  <2>1. next # "SIGINT"
    BY <1>a DEF Starting, Scalars
  <2> QED BY <1>0, <1>a, <2>1, GoesOn
<1>b. held \in Holding(pc)
  BY DEF IInv
<1>1. CASE Options
  <2>1. CASE options.help
    <3>1. /\ pc = "options" /\ pc' = "exit" /\ code' = "success" /\ held = {}
          /\ UNCHANGED <<held, failed, options, output_number, handlers, output>>
      BY <1>1, <1>b, <2>1 DEF Options, Holding, Ready
    <3>2. TypeInv' /\ held' \in Holding(pc') /\ Handling' /\ Chosen'
      BY <1>0, <3>1 DEF IInv, TypeInv, Holding, Handling, Chosen, Starting, Scalars, Ready, run
    <3>3. Sampling' /\ Outcome' /\ Early'
      BY <1>0, <2>1, <3>1 DEF IInv, Sampling, Outcome, CodeTellsOutcome, Early, run
    <3> QED BY <3>2, <3>3 DEF IInv
  <2>2. CASE ~options.help
    <3>1. pc = "options" /\ Go("brand", held) /\ UNCHANGED <<options, output_number, handlers>>
      BY <1>1, <2>2 DEF Options
    <3>2. Goes("brand", held) /\ pc \in Starting
      BY <3>1, <1>b DEF Holding, Starting, Scalars, Ready
    <3> QED BY <3>1, <3>2, <1>a
  <2> QED BY <2>1, <2>2
<1>2. CASE ReadScalar
  <2>1. pc \in Scalars /\ held = {} /\ UNCHANGED <<options, output_number, handlers>>
    BY <1>2, <1>b DEF ReadScalar, Holding, Scalars, Ready
  <2>2. CASE FailWith({})
    BY <1>0, <2>1, <2>2, Fails DEF Scalars
  <2>3. ASSUME NEW next \in After(pc), Go(next, held) PROVE IInv'
    <3>1. next \in Scalars \cup {"match_pmgr", "match_smc"}
      BY <2>1, <2>3 DEF After, Scalars
    <3>2. Goes(next, held) /\ pc \in Starting
      BY <2>1, <2>3, <3>1 DEF Holding, Starting, Scalars, Ready
    <3> QED BY <2>1, <3>2, <1>a
  <2> QED BY <1>2, <2>2, <2>3 DEF ReadScalar
<1>3. CASE MatchPmgr
  <2>1. pc = "match_pmgr" /\ held = {} /\ UNCHANGED <<options, output_number, handlers>>
    BY <1>3, <1>b DEF MatchPmgr, Holding, Ready
  <2>2. CASE FailWith({})
    BY <1>0, <2>1, <2>2, Fails
  <2>3. CASE Go("next_device", held \cup {"iterator"})
    <3>1. Goes("next_device", held \cup {"iterator"}) /\ pc \in Starting
      BY <2>1, <2>3 DEF Holding, Starting, Ready
    <3> QED BY <2>1, <3>1, <1>a
  <2> QED BY <1>3, <2>2, <2>3 DEF MatchPmgr
<1>4. CASE NextDevice
  <2>1. pc = "next_device" /\ held = {"iterator"} /\ UNCHANGED <<options, output_number, handlers>>
    BY <1>4, <1>b DEF NextDevice, Holding, Ready
  <2>2. CASE Go("memsize", held \ {"iterator"})
    <3>1. Goes("memsize", held \ {"iterator"}) /\ pc \in Starting
      BY <2>1, <2>2 DEF Holding, Starting, Scalars, Ready
    <3> QED BY <2>1, <3>1, <1>a
  <2>3. CASE Go("device", held \cup {"device"})
    <3>1. Goes("device", held \cup {"device"}) /\ pc \in Starting
      BY <2>1, <2>3 DEF Holding, Starting, Ready
    <3> QED BY <2>1, <3>1, <1>a
  <2> QED BY <1>4, <2>2, <2>3 DEF NextDevice
<1>5. CASE Device
  <2>1. pc = "device" /\ held = {"iterator", "device"} /\ UNCHANGED <<options, output_number, handlers>>
    BY <1>5, <1>b DEF Device, Holding, Ready
  <2>2. CASE Go("next_device", held \ {"device"})
    <3>1. Goes("next_device", held \ {"device"}) /\ pc \in Starting
      BY <2>1, <2>2 DEF Holding, Starting, Ready
    <3> QED BY <2>1, <3>1, <1>a
  <2>3. CASE Go("properties", held \cup {"properties"})
    <3>1. Goes("properties", held \cup {"properties"}) /\ pc \in Starting
      BY <2>1, <2>3 DEF Holding, Starting, Ready
    <3> QED BY <2>1, <3>1, <1>a
  <2> QED BY <1>5, <2>2, <2>3 DEF Device
<1>6. CASE ReadLists
  <2>1. /\ pc = "properties" /\ held = {"iterator", "device", "properties"}
        /\ Go("memsize", held \ {"properties", "device", "iterator"})
        /\ UNCHANGED <<options, output_number, handlers>>
    BY <1>6, <1>b DEF ReadLists, Holding, Ready
  <2>2. Goes("memsize", held \ {"properties", "device", "iterator"}) /\ pc \in Starting
    BY <2>1 DEF Holding, Starting, Scalars, Ready
  <2> QED BY <2>1, <2>2, <1>a
<1>7. CASE MatchSmc
  <2>1. pc = "match_smc" /\ held = {} /\ UNCHANGED <<options, output_number, handlers>>
    BY <1>7, <1>b DEF MatchSmc, Holding, Ready
  <2>2. CASE FailWith({})
    BY <1>0, <2>1, <2>2, Fails
  <2>3. CASE Go("smc_service", held \cup {"iterator"})
    <3>1. Goes("smc_service", held \cup {"iterator"}) /\ pc \in Starting
      BY <2>1, <2>3 DEF Holding, Starting, Ready
    <3> QED BY <2>1, <3>1, <1>a
  <2> QED BY <1>7, <2>2, <2>3 DEF MatchSmc
<1>8. CASE SmcService
  <2>1. pc = "smc_service" /\ held = {"iterator"} /\ UNCHANGED <<options, output_number, handlers>>
    BY <1>8, <1>b DEF SmcService, Holding, Ready
  <2>2. CASE FailWith({"iterator"})
    BY <1>0, <2>1, <2>2, Fails
  <2>3. CASE Go("smc_open", (held \ {"iterator"}) \cup {"service"})
    <3>1. Goes("smc_open", (held \ {"iterator"}) \cup {"service"}) /\ pc \in Starting
      BY <2>1, <2>3 DEF Holding, Starting, Ready
    <3> QED BY <2>1, <3>1, <1>a
  <2> QED BY <1>8, <2>2, <2>3 DEF SmcService
<1>9. CASE SmcOpen
  <2>1. pc = "smc_open" /\ held = {"service"} /\ UNCHANGED <<options, output_number, handlers>>
    BY <1>9, <1>b DEF SmcOpen, Holding, Ready
  <2>2. CASE FailWith({"service"})
    BY <1>0, <2>1, <2>2, Fails
  <2>3. CASE Go("io_report", (held \ {"service"}) \cup {"connection"})
    <3>1. Goes("io_report", (held \ {"service"}) \cup {"connection"}) /\ pc \in Starting
      BY <2>1, <2>3 DEF Holding, Starting, Ready
    <3> QED BY <2>1, <3>1, <1>a
  <2> QED BY <1>9, <2>2, <2>3 DEF SmcOpen
<1>10. CASE InitIoReport
  <2>1. pc = "io_report" /\ held = {"connection"} /\ UNCHANGED <<options, output_number, handlers>>
    BY <1>10, <1>b DEF InitIoReport, Holding, Ready
  <2>2. CASE FailWith({})
    BY <1>0, <2>1, <2>2, Fails
  <2>3. ASSUME NEW sub \in SUBSET {"subscription"}, Go("create_output", held \cup sub) PROVE IInv'
    <3>1. Goes("create_output", held \cup sub) /\ pc \in Starting
      BY <2>1, <2>3 DEF Holding, Starting, Ready
    <3> QED BY <2>1, <3>1, <1>a
  <2> QED BY <1>10, <2>2, <2>3 DEF InitIoReport
<1>11. CASE CreateOutput
  <2>1. /\ pc = "create_output" /\ Go("SIGINT", held)
        /\ output' = CASE options.json -> "json"
                       [] ~options.json /\ options.text -> "text"
                       [] OTHER -> IF options.tty THEN "terminal" ELSE "text"
        /\ UNCHANGED <<options, output_number, handlers>>
    BY <1>11 DEF CreateOutput
  <2>2. held \in Holding("SIGINT") /\ pc \in Starting
    BY <1>b, <2>1 DEF Holding, Ready, Starting
  <2>3. Chosen'
    BY <2>1 DEF Chosen
  <2> QED BY <1>0, <2>1, <2>2, <2>3, GoesOn
<1>12. CASE InstallHandler
  <2>1. /\ pc \in {"SIGINT", "SIGTSTP"} /\ held \subseteq {"connection", "subscription"}
        /\ UNCHANGED <<options, output_number, output>>
    BY <1>12, <1>b DEF InstallHandler, Holding, Ready
  <2>2. CASE FailWith({}) /\ UNCHANGED handlers
    BY <1>0, <2>1, <2>2, Fails
  <2>3. CASE /\ Go(IF pc = "SIGINT" THEN "SIGTSTP" ELSE "start_run", held)
             /\ handlers' = handlers \cup {pc}
    <3>1. /\ pc' = IF pc = "SIGINT" THEN "SIGTSTP" ELSE "start_run"
          /\ UNCHANGED <<held, code, failed>>
      BY <2>3 DEF Go
    <3>2. held' \in Holding(pc')
      BY <2>1, <3>1, <1>b DEF Holding, Ready
    <3>3. TypeInv' /\ Chosen'
      BY <1>0, <2>1, <3>1 DEF IInv, TypeInv, Chosen, Ready, run
    <3>4. Handling'
      BY <2>1, <2>3, <3>1 DEF IInv, Handling, Starting, Scalars
    <3>5. Sampling' /\ Outcome' /\ Early'
      BY <1>0, <2>1, <3>1 DEF IInv, Sampling, Outcome, CodeTellsOutcome, Early, run
    <3> QED BY <3>2, <3>3, <3>4, <3>5 DEF IInv
  <2> QED BY <1>12, <2>2, <2>3 DEF InstallHandler
<1> QED BY <1>1, <1>2, <1>3, <1>4, <1>5, <1>6, <1>7, <1>8, <1>9, <1>10, <1>11, <1>12 DEF Startup

-----------------------------------------------------------------------------
\* The run of the output.
LEMMA RunIInv == IInv /\ (Run \/ RunStep \/ Return) => IInv'
<1> SUFFICES ASSUME IInv, Run \/ RunStep \/ Return PROVE IInv'
  OBVIOUS
<1> USE DEF IInv
<1>1. CASE Run
  <2>1. TypeInv' /\ held' \in Holding(pc') /\ Handling' /\ Chosen'
    BY <1>1 DEF Run, TypeInv, Holding, Handling, Chosen, Starting, Scalars, Ready
  <2>2. Sampling' /\ Outcome' /\ Early'
    BY <1>1 DEF Run, Sampling, Outcome, CodeTellsOutcome, Early, TypeInv
  <2> QED BY <2>1, <2>2
<1>2. CASE RunStep
  <2>1. UNCHANGED <<options, output_number, pc, held, handlers, output, code, failed, asked>>
    BY <1>2 DEF RunStep, start
  <2>2. /\ running => pc = "run"
        /\ pc = "run" => code = "none" /\ failed = <<>>
    BY DEF Sampling, Outcome
  <2>3. held' \in Holding(pc') /\ Handling' /\ Chosen'
    BY <2>1 DEF Handling, Chosen
  <2>4. CASE Loop!Enter
    BY <2>1, <2>2, <2>3, <2>4
       DEF Loop!Enter, Loop!Enough, TypeInv, Sampling, Outcome, CodeTellsOutcome, Early
  <2>5. CASE Loop!Take
    <3>1. /\ running /\ entered /\ entered' = FALSE /\ UNCHANGED <<stop, running>>
          /\ taken' = taken + 1 /\ (reports' = reports + 1 \/ reports' = reports)
      BY <2>5 DEF Loop!Take, Loop!Sampler!Sample
    <3>2. TypeInv'
      <4>1. taken' \in Nat /\ reports' \in Nat
        BY <3>1 DEF TypeInv
      <4> QED BY <2>1, <3>1, <4>1 DEF TypeInv
    <3>3. Sampling' /\ Early'
      BY <2>1, <2>2, <3>1 DEF TypeInv, Sampling, Early
    <3>4. Outcome'
      BY <2>1, <2>2, <3>1 DEF Outcome, CodeTellsOutcome, Sampling
    <3> QED BY <2>3, <3>2, <3>3, <3>4
  <2>6. CASE Loop!Pass
    BY <2>1, <2>2, <2>3, <2>6
       DEF Loop!Pass, TypeInv, Sampling, Outcome, CodeTellsOutcome, Early
  <2>7. CASE Loop!End
    <3>1. /\ running /\ ~entered /\ running' = FALSE
          /\ stop \/ (output_number > 0 /\ reports >= output_number)
          /\ UNCHANGED <<stop, entered, taken, reports>>
      BY <2>7 DEF Loop!End, Loop!Enough
    <3>2. TypeInv' /\ Early'
      BY <2>1, <3>1 DEF TypeInv, Early
    <3>3. Sampling'
      BY <2>1, <2>2, <3>1 DEF TypeInv, Sampling
    <3>4. stop \/ (output_number > 0 /\ reports = output_number)
      BY <3>1 DEF TypeInv, Sampling
    <3>5. Outcome'
      BY <2>1, <2>2, <3>1, <3>4 DEF Outcome, CodeTellsOutcome
    <3> QED BY <2>3, <3>2, <3>3, <3>5
  <2>8. CASE Loop!Quit
    BY <2>1, <2>2, <2>3, <2>8
       DEF Loop!Quit, TypeInv, Sampling, Outcome, CodeTellsOutcome, Early
  <2> QED BY <1>2, <2>4, <2>5, <2>6, <2>7, <2>8 DEF RunStep
<1>3. CASE Return
  <2>1. /\ pc = "run" /\ ~running /\ pc' = "exit" /\ code' = "success"
        /\ held' = Destroyed
        /\ UNCHANGED <<options, output_number, handlers, output, failed, asked, run>>
    BY <1>3 DEF Return
  <2>2. held' \in Holding(pc')
    BY <2>1 DEF Holding, Ready, Destroyed
  <2>3. TypeInv' /\ Handling' /\ Chosen'
    BY <2>1 DEF TypeInv, Handling, Chosen, Starting, Scalars, Ready, run
  <2>4. Sampling' /\ Outcome' /\ Early'
    BY <2>1 DEF Sampling, Outcome, CodeTellsOutcome, Early, run
  <2> QED BY <2>2, <2>3, <2>4
<1> QED BY <1>1, <1>2, <1>3

\* A signal, which is handled or not.
LEMMA SignalIInv == IInv /\ Signals => IInv'
<1> SUFFICES ASSUME IInv, Signals PROVE IInv'
  OBVIOUS
<1> USE DEF IInv
<1>1. ASSUME NEW signal \in {"SIGINT", "SIGTSTP"}, Handled(signal) PROVE IInv'
  <2>1. /\ stop' = TRUE /\ Mark /\ pc # "exit"
        /\ UNCHANGED <<options, output_number, pc, held, handlers, output, code, failed,
                       running, entered, taken, reports>>
    BY <1>1 DEF Handled, handle_signal, start
  <2>2. held' \in Holding(pc') /\ TypeInv' /\ Handling' /\ Chosen'
    BY <2>1 DEF TypeInv, Handling, Chosen
  <2>3. Sampling' /\ Outcome' /\ Early'
    BY <2>1 DEF Sampling, Outcome, CodeTellsOutcome, Early, Mark
  <2> QED BY <2>2, <2>3
<1>2. CASE Interrupt
  <2>1. /\ "SIGINT" \notin handlers /\ pc # "exit" /\ Mark
        /\ pc' = "exit" /\ code' = "killed" /\ held' = {}
        /\ UNCHANGED <<options, output_number, handlers, output, failed, run>>
    BY <1>2 DEF Interrupt
  <2>2. ~running /\ ~entered
    BY <2>1 DEF Sampling, Handling
  <2>3. held' \in Holding(pc') /\ TypeInv' /\ Handling' /\ Chosen'
    BY <2>1 DEF Holding, TypeInv, Handling, Chosen, Starting, Scalars, Ready, run
  <2>4. Sampling' /\ Outcome' /\ Early'
    BY <2>1, <2>2 DEF Sampling, Outcome, CodeTellsOutcome, Early, Mark, run
  <2> QED BY <2>3, <2>4
<1>3. CASE Suspend \/ Continue
  BY <1>3 DEF Suspend, Continue, start, run, TypeInv, Handling, Chosen, Sampling, Outcome,
              CodeTellsOutcome, Early
<1> QED BY <1>1, <1>2, <1>3 DEF Signals

LEMMA NextIInv == IInv /\ [Next]_vars => IInv'
<1> SUFFICES ASSUME IInv, Done \/ UNCHANGED vars PROVE IInv'
  BY StartupIInv, RunIInv, SignalIInv DEF Next
<1> QED BY DEF Done, vars, start, run, IInv, TypeInv, Handling, Chosen, Sampling, Outcome,
               CodeTellsOutcome, Early

LEMMA ProgramInvariance == Spec => []IInv
BY InitIInv, NextIInv, PTL DEF Spec

-----------------------------------------------------------------------------
\* The output runs when everything is there and nothing has failed, and main
\* returns what happened, for every option and whichever call fails.
THEOREM MainStaysInOrder == Spec => []MainIsInOrder
<1>1. IInv => MainIsInOrder
  <2> SUFFICES ASSUME IInv PROVE MainIsInOrder
    OBVIOUS
  <2>1. ASSUME running PROVE pc = "run"
    BY <2>1 DEF IInv, Sampling
  <2>2. ReadyWhenRunning
    BY <2>1 DEF ReadyWhenRunning, IInv, Outcome, Handling, Holding, Chosen, Ready
  <2> QED BY <2>2 DEF MainIsInOrder, IInv, Outcome
<1> QED BY <1>1, ProgramInvariance, PTL

\* Whatever call fails and whatever signal comes, no handle is left at the end.
THEOREM NothingStaysHeld == Spec => []NothingIsLeft
<1>1. IInv => NothingIsLeft
  BY DEF IInv, NothingIsLeft, Holding, Ready
<1> QED BY <1>1, ProgramInvariance, PTL

\* A signal before the first sample keeps the program from taking any.
THEOREM EarlySignalsPreventSamples == Spec => []EarlySignalTakesNone
<1>1. IInv => EarlySignalTakesNone
  BY DEF IInv, Early, EarlySignalTakesNone
<1> QED BY <1>1, ProgramInvariance, PTL
=============================================================================
