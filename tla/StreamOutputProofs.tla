------------------------- MODULE StreamOutputProofs -------------------------
(***************************************************************************)
(* The safety of the text and the JSON loop, for every limit and however   *)
(* often the handler runs.                                                 *)
(***************************************************************************)
EXTENDS StreamOutput, TLAPS

\* The samples behind the reports written so far: whole windows that share
\* their boundaries, and the part of one that is not complete.
Windows ==
    /\ current_number = reports
    /\ taken <= 5 * reports + 5
    /\ reports > 0 => taken >= 5 * reports + 1

\* The limit is met for the first time when the loop checks it.
Limit ==
    output_number > 0 =>
        /\ pc \in {"while", "sample", "sleep"} => reports < output_number
        /\ reports <= output_number
        /\ pc = "check" /\ reports = output_number =>
               taken = 5 * output_number + 1

\* A loop nobody interrupted only ends at its limit.
Ended ==
    pc = "done" /\ signalled = "never" =>
        /\ output_number > 0
        /\ reports = output_number
        /\ taken = 5 * output_number + 1

\* The handler's mark, and the one sample that may follow it.
Marked ==
    /\ stop <=> signalled # "never"
    /\ signalled = "never" => late = 0
    /\ pc = "sample" /\ signalled # "never" => signalled = "sample" /\ late = 0
    /\ NoSampleAfterSignal

IInv == TypeOK /\ Windows /\ Limit /\ Ended /\ Marked

LEMMA InitIInv == Init => IInv
<1> SUFFICES ASSUME Init
             PROVE  IInv
  OBVIOUS
<1>1. /\ output_number \in Nat /\ taken = 0 /\ reports = 0
      /\ current_number = 0 /\ pc = "while" /\ late = 0
  BY StreamAssumption DEF Init, Sampler!Init
<1>2. stop \in BOOLEAN /\ signalled = IF stop THEN "start" ELSE "never"
  BY DEF Init
<1>3. TypeOK /\ Windows /\ Limit /\ Ended
  <2>2. TypeOK
    BY <1>1, <1>2 DEF TypeOK
  <2>3. Windows /\ Limit /\ Ended
    BY <1>1, <1>2, StreamAssumption DEF Windows, Limit, Ended
  <2> QED BY <2>2, <2>3
<1>4. Marked
  BY <1>1, <1>2 DEF Marked, NoSampleAfterSignal
<1> QED BY <1>3, <1>4 DEF IInv

LEMMA NextIInv == IInv /\ [Next]_vars => IInv'
<1> SUFFICES ASSUME IInv, [Next]_vars
             PROVE  IInv'
  OBVIOUS
<1> USE DEF IInv
<1>1. CASE While
  <2>1. TypeOK' /\ Windows'
    BY <1>1 DEF While, loop, TypeOK, Windows
  <2>2. Limit'
    BY <1>1 DEF While, loop, TypeOK, Limit
  <2>3. Ended'
    BY <1>1 DEF While, loop, TypeOK, Ended, Marked
  <2>4. Marked'
    BY <1>1 DEF While, loop, TypeOK, Marked, NoSampleAfterSignal
  <2> QED BY <2>1, <2>2, <2>3, <2>4
<1>2. CASE Sample
  <2>1. /\ pc = "sample" /\ pc' = "check" /\ taken' = taken + 1
        /\ \/ /\ taken + 1 = 5 * reports + 6
              /\ reports' = reports + 1 /\ current_number' = current_number + 1
           \/ /\ taken + 1 # 5 * reports + 6
              /\ reports' = reports /\ current_number' = current_number
    BY <1>2 DEF Sample, Sampler!Sample, Sampler!Due, TypeOK
  <2>2. UNCHANGED <<output_number, stop, signalled>>
    BY <1>2 DEF Sample
  <2>3. late' \in Nat /\ late' = IF signalled = "never" THEN late ELSE late + 1
    BY <1>2 DEF Sample, TypeOK
  <2>4. TypeOK'
    BY <2>1, <2>2, <2>3 DEF TypeOK
  <2>5. Windows'
    BY <2>1 DEF TypeOK, Windows
  <2>6. Limit'
    BY <2>1, <2>2 DEF TypeOK, Windows, Limit
  <2>7. Ended'
    BY <2>1 DEF Ended
  <2>8. Marked'
    BY <2>1, <2>2, <2>3 DEF TypeOK, Marked, NoSampleAfterSignal
  <2> QED BY <2>4, <2>5, <2>6, <2>7, <2>8
<1>3. CASE Check
  <2>1. TypeOK' /\ Windows'
    BY <1>3 DEF Check, loop, TypeOK, Windows
  <2>2. Limit'
    BY <1>3 DEF Check, Finished, loop, TypeOK, Windows, Limit
  <2>3. Ended'
    BY <1>3 DEF Check, Finished, loop, TypeOK, Windows, Limit, Ended, Marked
  <2>4. Marked'
    BY <1>3 DEF Check, loop, TypeOK, Marked, NoSampleAfterSignal
  <2> QED BY <2>1, <2>2, <2>3, <2>4
<1>4. CASE Sleep
  BY <1>4 DEF Sleep, loop, TypeOK, Windows, Limit, Ended, Marked,
              NoSampleAfterSignal
<1>5. CASE Signal
  <2>1. /\ stop' = TRUE /\ pc # "done"
        /\ signalled' = IF signalled = "never" THEN pc ELSE signalled
        /\ UNCHANGED <<output_number, pc, current_number, late, taken, reports>>
    BY <1>5 DEF Signal, handle_signal
  <2>2. TypeOK' /\ Windows' /\ Limit' /\ Ended'
    BY <2>1 DEF TypeOK, Windows, Limit, Ended
  <2>3. Marked'
    BY <2>1 DEF TypeOK, Marked, NoSampleAfterSignal
  <2> QED BY <2>2, <2>3
<1>6. CASE Done \/ UNCHANGED vars
  BY <1>6 DEF Done, vars, loop, TypeOK, Windows, Limit, Ended, Marked,
              NoSampleAfterSignal
<1> QED BY <1>1, <1>2, <1>3, <1>4, <1>5, <1>6 DEF Next, Loop

LEMMA LoopInvariance == Spec => []IInv
BY InitIInv, NextIInv, PTL DEF Spec

\* For every limit n > 0 the loop writes n reports and not one more, and a run
\* that no signal cuts short took exactly 5n + 1 samples for them.
THEOREM CountIsExact == Spec => []ExactCount
<1>1. IInv => ExactCount
  BY DEF IInv, TypeOK, Limit, Ended, ExactCount
<1> QED BY <1>1, LoopInvariance, PTL

\* Wherever the first signal arrives, at most the sample that was about to
\* begin is still taken.
THEOREM SignalStopsSampling == Spec => []NoSampleAfterSignal
<1>1. IInv => NoSampleAfterSignal
  BY DEF IInv, Marked
<1> QED BY <1>1, LoopInvariance, PTL

\* The variables keep their types.
THEOREM StreamTypes == Spec => []TypeOK
<1>1. IInv => TypeOK
  BY DEF IInv
<1> QED BY <1>1, LoopInvariance, PTL

LEMMA InitPromise == Init => Promise!Init
BY StreamAssumption DEF Init, Sampler!Init, Promise!Init, Promise!Sampler!Init

LEMMA NextPromise == IInv /\ [Next]_vars => [Promise!Next]_(Promise!vars)
<1> SUFFICES ASSUME IInv, [Next]_vars
             PROVE  [Promise!Next]_(Promise!vars)
  OBVIOUS
<1> USE DEF IInv, Promise!Next, Promise!vars
<1>1. CASE While
  <2>1. CASE stop
    <3>1. Promise!End
      BY <1>1, <2>1 DEF While, loop, Promise!End
    <3> QED BY <3>1
  <2>2. CASE ~stop
    <3>1. Promise!Enter
      BY <1>1, <2>2 DEF While, loop, Promise!Enter, Promise!Enough, TypeOK, Limit
    <3> QED BY <3>1
  <2> QED BY <2>1, <2>2
<1>2. CASE Sample
  <2>1. Promise!Take
    BY <1>2 DEF Sample, Sampler!Sample, Sampler!Due, Promise!Take,
                Promise!Sampler!Sample, Promise!Sampler!Due
  <2> QED BY <2>1
<1>3. CASE Check
  <2>1. CASE Finished
    <3>1. Promise!End
      BY <1>3, <2>1 DEF Check, Finished, loop, Windows, Promise!End, Promise!Enough
    <3> QED BY <3>1
  <2>2. CASE ~Finished
    BY <1>3, <2>2 DEF Check, loop
  <2> QED BY <2>1, <2>2
<1>4. CASE Sleep \/ Done \/ UNCHANGED vars
  BY <1>4 DEF Sleep, Done, loop, vars
<1>5. CASE Signal
  <2>1. Promise!Signal
    BY <1>5 DEF Signal, handle_signal, Promise!Signal
  <2> QED BY <2>1
<1> QED BY <1>1, <1>2, <1>3, <1>4, <1>5 DEF Next, Loop

\* Every step of the text and the JSON loop is one that OutputLoop allows: a
\* sample is begun only after the loop has found that it shall go on, for every
\* limit and wherever signals arrive.
THEOREM StreamStepsArePromised ==
    Spec => Promise!Init /\ [][Promise!Next]_(Promise!vars)
<1>1. IInv /\ [Next]_vars => [Promise!Next]_(Promise!vars)
  BY NextPromise
<1> QED BY <1>1, InitPromise, LoopInvariance, PTL DEF Spec

=============================================================================
