------------------------- MODULE OscillatordProofs --------------------------
(***************************************************************************)
(* What the main thread tells the algorithm about the phase.  One ignored  *)
(* input is enough unless it is missed: neither the algorithm nor a        *)
(* calibration sees a phase error from before a phase jump if by the jump  *)
(* the phasemeter thread had read and published every timestamp, and no    *)
(* wait for a phase has returned on its own since.  Then the loop without  *)
(* the algorithm, in which the SA5x disciplines itself (module Sa5x): its  *)
(* time constant is the one of the driver's phase, whatever the durations  *)
(* and however many commands fail.                                         *)
(***************************************************************************)
EXTENDS Oscillatord, Sa5x, FiniteSetTheorems, TLAPS

\* Nothing the phasemeter will still publish was captured before the last jump.
Clean == ~ts1.old /\ ~ts2.old /\ \A i \in DOMAIN fifo : ~fifo[i].old

\* The main loop, and in it the stretches that ignore_next_irq never reaches.
Looping == {"top", "phase", "epoch", "read_ctrl", "process", "monitor", "calib_next",
            "calib_phase", "calib_epoch"}
Trusting == {"process", "calib_next", "calib_phase", "calib_epoch"}

\* The loop is entered after the initial jump.  If the thread was not behind, a jump in
\* the loop leaves at most the first timestamp of a pair behind, until the main thread
\* is woken for a phase.
PulsesInv ==
  main \in Looping /\ ~missed =>
    /\ ~ts2.old /\ \A i \in DOMAIN fifo : ~fifo[i].old
    /\ Clean \/ (ignore /\ main \in {"monitor", "top", "phase"} /\ ~woken)

\* A phase measured across a jump is ignored.
MeasuresInv ==
  ~missed =>
    /\ main \in Trusting => ~ignore
    /\ main \in {"phase", "calib_phase"} /\ woken /\ status.status = "BOTH" /\ ~ignore
         => ~status.old
    /\ main \in {"epoch", "read_ctrl", "process"} /\ measure.status = "BOTH" /\ ~ignore
         => ~measure.old

FreshInv == PulsesInv /\ MeasuresInv

\* A calibration measure is only begun when one is left to take.
LeftInv == main \in {"calib_phase", "calib_epoch"} => left > 0

-----------------------------------------------------------------------------
(* Types                                                                   *)

Measures == [status: Status, old: BOOLEAN]

PmType ==
  /\ status \in Measures /\ fifo \in Seq(Pulses) /\ Len(fifo) <= MaxQueue
  /\ thr \in {"first", "second", "publish", "exited"}
  /\ ts1 \in Pulses /\ ts2 \in Pulses /\ outcome \in {"BOTH", "MISSING"}
  /\ lstop \in BOOLEAN
MainType ==
  /\ loop \in BOOLEAN /\ exit \in {"no", "success", "failure", "crash"}
  /\ main \in Waits \cup Stretches
  /\ woken \in BOOLEAN /\ (woken => main \in Waits) /\ aligned \in BOOLEAN
  /\ measure \in Measures
  /\ ignore \in BOOLEAN /\ missed \in BOOLEAN /\ calib \in BOOLEAN /\ asked \in BOOLEAN
  /\ left \in 0 .. NbMeasures /\ request \in Requests \cup {"NONE"}
  /\ stop \in BOOLEAN /\ gstop \in BOOLEAN
  /\ gthr \in {"run", "exited"} /\ saver \in {"none", "run", "done"}

\* The types by owner: the phasemeter's part, which a step of the clock disturbs,
\* and the rest.
LEMMA TypeUnfold == TypeOK <=> PmType /\ MainType
BY DEF TypeOK, PmType, MainType, Measures

\* A step of the clock makes everything captured old, and does nothing else.
LEMMA StepClockEffect ==
  ASSUME PmType, StepClock
  PROVE  /\ PmType'
         /\ thr' = thr /\ outcome' = outcome /\ lstop' = lstop
         /\ DOMAIN fifo' = DOMAIN fifo /\ (fifo = << >> => fifo' = << >>)
         /\ ts2'.old = (thr = "publish")
<1>1. /\ fifo \in Seq(Pulses) /\ Len(fifo) <= MaxQueue /\ ts1 \in Pulses /\ ts2 \in Pulses
      /\ status \in Measures
  BY DEF PmType
<1>2. fifo' = [i \in 1 .. Len(fifo) |-> [fifo[i] EXCEPT !.old = TRUE]]
  BY <1>1 DEF StepClock
<1>3. \A i \in 1 .. Len(fifo) : [fifo[i] EXCEPT !.old = TRUE] \in Pulses
  <2>1. \A i \in 1 .. Len(fifo) : fifo[i] \in Pulses
    BY <1>1
  <2> QED
    BY <2>1 DEF Pulses
<1>4. fifo' \in Seq(Pulses) /\ Len(fifo') = Len(fifo) /\ DOMAIN fifo' = 1 .. Len(fifo)
  BY <1>1, <1>2, <1>3
<1>6. /\ ts1' \in Pulses /\ ts2' \in Pulses /\ ts2'.old = (thr = "publish")
      /\ status' \in Measures
  <2>1. ASSUME NEW b \in BOOLEAN, NEW ts \in Pulses
        PROVE  [ts EXCEPT !.old = b] \in Pulses /\ [ts EXCEPT !.old = b].old = b
    BY DEF Pulses
  <2>2. (thr \in {"second", "publish"}) \in BOOLEAN /\ (thr = "publish") \in BOOLEAN
    OBVIOUS
  <2>3. /\ ts1' = [ts1 EXCEPT !.old = thr \in {"second", "publish"}]
        /\ ts2' = [ts2 EXCEPT !.old = thr = "publish"]
        /\ status' = [status EXCEPT !.old = TRUE]
    BY DEF StepClock
  <2>4. status' \in Measures
    BY <1>1, <2>3 DEF Measures
  <2> QED
    BY <1>1, <2>1, <2>2, <2>3, <2>4
<1>7. UNCHANGED <<thr, outcome, lstop>>
  BY DEF StepClock
<1>8. fifo = << >> => fifo' = << >>
  BY <1>1, <1>4
<1> QED
  BY <1>1, <1>4, <1>6, <1>7, <1>8 DEF PmType

-----------------------------------------------------------------------------
(* Every step keeps the types.                                             *)

LEMMA EnvironmentType ==
  ASSUME TypeOK, Environment \/ PhasemeterThread
  PROVE  TypeOK'
<1>1. PmType /\ MainType
  BY TypeUnfold
<1>2. CASE SignalHandler
  <2>3. loop' \in BOOLEAN /\ exit' \in {"no", "success", "failure", "crash"}
    BY <1>1, <1>2 DEF SignalHandler, MainType
  <2>4. UNCHANGED <<main, woken, aligned, measure, ignore, missed, calib, asked, left, request, stop,
                    gstop, gthr, saver>>
    BY <1>2 DEF SignalHandler, mainVars, inVars, gnssVars
  <2>1. MainType'
    BY <1>1, <2>3, <2>4 DEF MainType
  <2>2. PmType'
    BY <1>1, <1>2 DEF SignalHandler, PmType, pmVars
  <2> QED
    BY <2>1, <2>2 DEF TypeOK, PmType, MainType, Measures
<1>3. CASE MonitoringRequest
  <2>1. MainType'
    BY <1>1, <1>3 DEF MonitoringRequest, MainType, mainVars, inVars, gnssVars
  <2>2. PmType'
    BY <1>1, <1>3 DEF MonitoringRequest, PmType, pmVars
  <2> QED
    BY <2>1, <2>2 DEF TypeOK, PmType, MainType, Measures
<1>4. ASSUME NEW s \in Sources, Pulse(s) PROVE TypeOK'
  <2>1. MainType'
    BY <1>1, <1>4 DEF Pulse, MainType, mainVars, inVars, gnssVars
  <2>2. /\ fifo \in Seq(Pulses) /\ Len(fifo) < MaxQueue /\ [src |-> s, old |-> FALSE] \in Pulses
        /\ fifo' = Append(fifo, [src |-> s, old |-> FALSE])
    BY <1>1, <1>4 DEF Pulse, PmType, Pulses
  <2>3. fifo' \in Seq(Pulses) /\ Len(fifo') <= MaxQueue
    BY <2>2, OscillatordAssumption
  <2>4. PmType'
    BY <1>1, <1>4, <2>3 DEF Pulse, PmType
  <2> QED
    BY <2>1, <2>4 DEF TypeOK, PmType, MainType, Measures
<1>5. ASSUME fifo # << >>
      PROVE  Head(fifo) \in Pulses /\ Tail(fifo) \in Seq(Pulses) /\ Len(Tail(fifo)) <= MaxQueue
  <2>1. fifo \in Seq(Pulses) /\ Len(fifo) <= MaxQueue
    BY <1>1 DEF PmType
  <2> QED
    BY <1>5, <2>1, OscillatordAssumption
<1>6. Pulse0 \in Pulses
  BY DEF Pulse0, Pulses, Sources
<1>7. CASE ReadFirst
  <2>1. MainType'
    BY <1>1, <1>7 DEF ReadFirst, MainType, mainVars, inVars, gnssVars
  <2>2. PmType'
    BY <1>1, <1>5, <1>6, <1>7 DEF ReadFirst, PmType
  <2> QED
    BY <2>1, <2>2 DEF TypeOK, PmType, MainType, Measures
<1>8. CASE ReadSecond
  <2>1. MainType'
    BY <1>1, <1>8 DEF ReadSecond, MainType, mainVars, inVars, gnssVars
  <2>2. PmType'
    BY <1>1, <1>5, <1>8 DEF ReadSecond, PmType
  <2> QED
    BY <2>1, <2>2 DEF TypeOK, PmType, MainType, Measures
<1>9. CASE ReadSecondTooFar
  <2>1. MainType'
    BY <1>1, <1>9 DEF ReadSecondTooFar, MainType, mainVars, inVars, gnssVars
  <2>2. PmType'
    BY <1>1, <1>5, <1>9 DEF ReadSecondTooFar, PmType
  <2> QED
    BY <2>1, <2>2 DEF TypeOK, PmType, MainType, Measures
<1>10. CASE Publish
  <2>1. MainType'
    BY <1>1, <1>10 DEF Publish, MainType, inVars, gnssVars, Waits
  <2>2. status' \in Measures
    BY <1>1, <1>10 DEF Publish, PmType, Measures, Status, Pulses
  <2>3. lstop' \in BOOLEAN /\ thr' \in {"first", "second", "publish", "exited"}
    BY <1>1, <1>10 DEF Publish, MainType
  <2>4. ts1' \in Pulses /\ ts2' \in Pulses /\ outcome' \in {"BOTH", "MISSING"} /\ fifo' = fifo
    BY <1>1, <1>6, <1>10 DEF Publish, PmType
  <2>5. PmType'
    BY <1>1, <2>2, <2>3, <2>4 DEF PmType
  <2> QED
    BY <2>1, <2>5 DEF TypeOK, PmType, MainType, Measures
<1> QED
  BY <1>2, <1>3, <1>4, <1>7, <1>8, <1>9, <1>10 DEF Environment, PhasemeterThread

LEMMA OthersType ==
  ASSUME TypeOK, Others
  PROVE  TypeOK'
<1>1. PmType /\ MainType
  BY TypeUnfold
<1>2. CASE SpuriousWakeup
  <2>1. MainType'
    BY <1>1, <1>2 DEF SpuriousWakeup, MainType, gnssVars
  <2>2. PmType'
    BY <1>1, <1>2 DEF SpuriousWakeup, PmType, pmVars
  <2> QED
    BY <2>1, <2>2 DEF TypeOK, PmType, MainType, Measures
<1>3. ASSUME NEW waits \in {DataWaits, TimeWaits}, GnssWakes(waits) PROVE TypeOK'
  <2>1. MainType'
    BY <1>1, <1>3 DEF GnssWakes, MainType, inVars, gnssVars, Waits
  <2>2. PmType'
    BY <1>1, <1>3 DEF GnssWakes, PmType, pmVars
  <2> QED
    BY <2>1, <2>2 DEF TypeOK, PmType, MainType, Measures
<1>4. CASE GnssExit
  <2>1. MainType'
    BY <1>1, <1>4 DEF GnssExit, MainType, mainVars, inVars
  <2>2. PmType'
    BY <1>1, <1>4 DEF GnssExit, PmType, pmVars
  <2> QED
    BY <2>1, <2>2 DEF TypeOK, PmType, MainType, Measures
<1>5. CASE SaverEnds
  <2>1. MainType'
    BY <1>1, <1>5 DEF SaverEnds, MainType, mainVars, inVars, gnssVars
  <2>2. PmType'
    BY <1>1, <1>5 DEF SaverEnds, PmType, pmVars
  <2> QED
    BY <2>1, <2>2 DEF TypeOK, PmType, MainType, Measures
<1> QED
  BY <1>2, <1>3, <1>4, <1>5 DEF Others, GnssData, GnssTime

\* The main thread moves on, or the process ends where it is.
Moves == \/ \E next \in Waits \cup Stretches : GoTo(next)
         \/ \E how \in {"success", "failure", "crash"} : ExitWith(how)

Place == /\ exit \in {"no", "success", "failure", "crash"}
         /\ main \in Waits \cup Stretches
         /\ woken \in BOOLEAN /\ (woken => main \in Waits)

LEMMA MoveType ==
  ASSUME MainType, Moves
  PROVE  Place'
<1>1. ASSUME NEW next \in Waits \cup Stretches, GoTo(next) PROVE Place'
  BY <1>1 DEF MainType, GoTo, Place
<1>2. ASSUME NEW how \in {"success", "failure", "crash"}, ExitWith(how) PROVE Place'
  <2>1. exit' = how /\ main' = main /\ woken' = woken
    BY <1>2 DEF ExitWith, mainVars
  <2> QED
    BY <2>1 DEF MainType, Place
<1> QED
  BY <1>1, <1>2 DEF Moves

\* The control points, spelled out.
LEMMA Points ==
  /\ Waits = {"initial", "phase", "calib_phase", "clock_unset", "clock_set", "check", "epoch",
              "calib_epoch", "settime", "checktime"}
  /\ Stretches = {"top", "read_ctrl", "process", "calib_next", "monitor", "shutdown",
                  "join_gnss", "join_saver", "stop_pm", "join_pm"}
BY DEF Waits, PhaseWaits, DataWaits, TimeWaits, Stretches

LEMMA StartupType ==
  ASSUME TypeOK, Startup
  PROVE  TypeOK'
<1>1. PmType /\ MainType
  BY TypeUnfold
<1>2. CASE InitialJump
  <2>1. PmType'
    <3>1. CASE StepClock
      BY <1>1, <3>1, StepClockEffect
    <3>2. CASE UNCHANGED <<pmVars, status>>
      BY <1>1, <3>2 DEF PmType, pmVars
    <3> QED
      BY <1>2, <3>1, <3>2 DEF InitialJump
  <2>2. Moves
    BY <1>2, Points DEF InitialJump, ClockRound, Moves
  <2>3. Place'
    BY <1>1, <2>2, MoveType
  <2>4. aligned' \in BOOLEAN /\ missed' \in BOOLEAN
    BY <1>1, <1>2 DEF InitialJump, MainType
  <2>5. UNCHANGED <<rest, measure, ignore, calib, asked, left, stop, saver>>
    BY <1>2 DEF InitialJump
  <2>6. MainType'
    BY <1>1, <2>3, <2>4, <2>5 DEF MainType, Place, rest, gnssVars
  <2> QED
    BY <2>1, <2>6 DEF TypeOK, PmType, MainType, Measures
<1>3. CASE ~InitialJump
  <2>1. UNCHANGED <<rest, inVars, pmVars, stop, status, saver>>
    BY <1>3 DEF Startup, ClockUnset, ClockSetTime, ClockSet, ClockCheck, ClockChecked,
                InitialRetry
  <2>2. Moves
    BY <1>3, Points DEF Startup, ClockUnset, ClockSetTime, ClockSet, ClockCheck, ClockChecked,
                        InitialRetry, ClockRound, AfterClock, Moves
  <2>3. Place'
    BY <1>1, <2>2, MoveType
  <2>4. MainType'
    BY <1>1, <2>1, <2>3 DEF MainType, Place, rest, inVars, gnssVars
  <2>5. PmType'
    BY <1>1, <2>1 DEF PmType, pmVars
  <2> QED
    BY <2>4, <2>5 DEF TypeOK, PmType, MainType, Measures
<1> QED
  BY <1>2, <1>3

\* What a step of the main thread outside StepClock leaves alone.
LEMMA PmTypeKept ==
  ASSUME PmType, UNCHANGED <<pmVars, status>>
  PROVE  PmType'
BY DEF PmType, pmVars

LEMMA IterationType ==
  ASSUME TypeOK, LeftInv, Iteration
  PROVE  TypeOK'
<1>1. PmType /\ MainType
  BY TypeUnfold
<1>2. Measure0 \in Measures /\ NbMeasures \in Nat
  BY OscillatordAssumption DEF Measure0, Measures, Status
<1>3. Place'
  <2>1. Moves
    <3>1. CASE \/ LoopTop \/ GotPhaseError \/ GotEpoch \/ ReadCtrlFails \/ ReadCtrl
      BY <3>1, Points DEF LoopTop, GotPhaseError, GotEpoch, ReadCtrlFails, ReadCtrl, Moves
    <3>2. CASE ProcessAdjust \/ ProcessPhaseJump \/ ProcessCalibrate \/ ProcessFails
      BY <3>2, Points DEF ProcessAdjust, ProcessPhaseJump, ProcessCalibrate, ProcessFails, Moves
    <3>3. CASE CalibrateNext \/ CalibrateMeasure \/ CalibrateEpoch \/ CalibrateDone \/ MonitorStep
      BY <3>3, Points DEF CalibrateNext, CalibrateMeasure, CalibrateEpoch, CalibrateDone,
                          CalibrationAborted, MonitorStep, Moves
    <3> QED
      BY <3>1, <3>2, <3>3 DEF Iteration
  <2> QED
    BY <1>1, <2>1, MoveType
<1>4. PmType'
  <2>1. CASE ProcessPhaseJump /\ StepClock
    BY <1>1, <2>1, StepClockEffect
  <2>2. CASE UNCHANGED <<pmVars, status>>
    BY <1>1, <2>2, PmTypeKept
  <2>3. ProcessPhaseJump \/ UNCHANGED <<pmVars, status>>
    BY DEF Iteration, LoopTop, GotPhaseError, GotEpoch, ReadCtrlFails, ReadCtrl,
           ProcessAdjust, ProcessCalibrate, ProcessFails, CalibrateNext, CalibrateMeasure,
           CalibrateEpoch, CalibrateDone, MonitorStep
  <2> QED
    BY <2>1, <2>2, <2>3 DEF ProcessPhaseJump
<1>5. /\ loop' \in BOOLEAN /\ request' \in Requests \cup {"NONE"}
      /\ stop' \in BOOLEAN /\ gstop' \in BOOLEAN /\ gthr' \in {"run", "exited"}
  <2>1. UNCHANGED <<loop, gstop, gthr, stop>> /\ request' \in {request, "NONE"}
    <3>1. CASE MonitorStep
      BY <3>1 DEF MonitorStep, gnssVars
    <3>2. CASE ~MonitorStep
      BY <3>2 DEF Iteration, LoopTop, GotPhaseError, GotEpoch, ReadCtrlFails, ReadCtrl,
                  ProcessAdjust, ProcessPhaseJump, ProcessCalibrate, ProcessFails, CalibrateNext,
                  CalibrateMeasure, CalibrateEpoch, CalibrateDone, rest, gnssVars
    <3> QED
      BY <3>1, <3>2
  <2> QED
    BY <1>1, <2>1 DEF MainType
<1>6. /\ aligned' \in BOOLEAN /\ measure' \in Measures /\ ignore' \in BOOLEAN
      /\ missed' \in BOOLEAN /\ calib' \in BOOLEAN /\ asked' \in BOOLEAN /\ left' \in 0 .. NbMeasures
      /\ saver' \in {"none", "run", "done"}
  <2> DEFINE Typed == /\ aligned' \in BOOLEAN /\ measure' \in Measures /\ ignore' \in BOOLEAN
                      /\ missed' \in BOOLEAN /\ calib' \in BOOLEAN /\ asked' \in BOOLEAN /\ left' \in 0 .. NbMeasures
                      /\ saver' \in {"none", "run", "done"}
  <2>1. CASE UNCHANGED inVars /\ saver' \in {saver, "run"}
    BY <1>1, <2>1 DEF MainType, inVars
  <2>2. CASE LoopTop \/ GotEpoch \/ CalibrateNext \/ CalibrateMeasure \/ CalibrateDone
    <3>1. UNCHANGED inVars /\ saver' \in {saver, "run"}
      BY <2>2 DEF LoopTop, GotEpoch, CalibrateNext, CalibrateMeasure, CalibrateDone, PeriodicSave
    <3> QED
      BY <2>1, <3>1
  <2>3. CASE GotPhaseError
    BY <1>1, <2>3 DEF GotPhaseError, MainType, PmType
  <2>4. CASE ReadCtrlFails
    BY <1>1, <1>2, <2>4 DEF ReadCtrlFails, MainType
  <2>5. CASE ReadCtrl
    BY <1>1, <1>2, <2>5 DEF ReadCtrl, MainType
  <2>6. CASE ProcessAdjust \/ ProcessPhaseJump \/ ProcessCalibrate \/ ProcessFails
    <3>1. FeedAlgorithm
      BY <2>6 DEF ProcessAdjust, ProcessPhaseJump, ProcessCalibrate, ProcessFails
    <3>2. /\ aligned' \in BOOLEAN /\ measure' \in Measures /\ calib' \in BOOLEAN
          /\ asked' \in BOOLEAN
      BY <1>1, <1>2, <3>1 DEF FeedAlgorithm, MainType
    <3>3. (ignore' = ignore \/ ignore' = TRUE) /\ (left' = left \/ left' = NbMeasures)
          /\ (saver' = saver \/ saver' = "run")
      BY <2>6 DEF ProcessAdjust, ProcessPhaseJump, ProcessCalibrate, ProcessFails, PeriodicSave
    <3>4. left' \in 0 .. NbMeasures /\ saver' \in {"none", "run", "done"}
      BY <1>1, <1>2, <3>3 DEF MainType
    <3>5. ignore' \in BOOLEAN /\ missed' \in BOOLEAN
      BY <1>1, <2>6, <3>3
      DEF MainType, Drained, ProcessAdjust, ProcessPhaseJump, ProcessCalibrate, ProcessFails
    <3> QED
      BY <3>2, <3>4, <3>5
  <2>7. CASE CalibrateEpoch
    <3>1. left' \in 0 .. NbMeasures
      BY <1>1, <1>2, <2>7 DEF CalibrateEpoch, MainType, At, LeftInv
    <3> QED
      BY <1>1, <2>7, <3>1 DEF CalibrateEpoch, MainType
  <2>8. CASE MonitorStep
    BY <1>1, <2>8 DEF MonitorStep, MainType
  <2> QED
    BY <2>2, <2>3, <2>4, <2>5, <2>6, <2>7, <2>8 DEF Iteration
<1>7. MainType'
  BY <1>3, <1>5, <1>6 DEF MainType, Place
<1> QED
  BY <1>4, <1>7 DEF TypeOK, PmType, MainType, Measures

LEMMA ShutdownType ==
  ASSUME TypeOK, Shutdown
  PROVE  TypeOK'
<1>1. PmType /\ MainType
  BY TypeUnfold
<1>2. Moves
  BY Points DEF Shutdown, StopGnss, JoinGnss, JoinSaver, StopPhasemeter, JoinPhasemeter, Moves
<1>3. Place'
  BY <1>1, <1>2, MoveType
<1>4. PmType'
  <2>1. UNCHANGED <<pmVars, status>>
    BY DEF Shutdown, StopGnss, JoinGnss, JoinSaver, StopPhasemeter, JoinPhasemeter
  <2> QED
    BY <1>1, <2>1, PmTypeKept
<1>5. UNCHANGED <<loop, request, inVars, gthr, saver>>
  BY DEF Shutdown, StopGnss, JoinGnss, JoinSaver, StopPhasemeter, JoinPhasemeter, rest, gnssVars
<1>6. (gstop' = gstop \/ gstop' = TRUE) /\ (stop' = stop \/ stop' = TRUE)
  BY DEF Shutdown, StopGnss, JoinGnss, JoinSaver, StopPhasemeter, JoinPhasemeter, rest, gnssVars
<1>7. gstop' \in BOOLEAN /\ stop' \in BOOLEAN
  BY <1>1, <1>6 DEF MainType
<1>8. MainType'
  BY <1>1, <1>3, <1>5, <1>7 DEF MainType, Place, inVars
<1> QED
  BY <1>4, <1>8 DEF TypeOK, PmType, MainType, Measures

\* Only the calibration changes what is left, and only calib_next leads to a measure.
LEMMA LeftStep ==
  ASSUME TypeOK, LeftInv, Next
  PROVE  LeftInv'
<1>1. left \in 0 .. NbMeasures /\ NbMeasures \in Nat
  BY OscillatordAssumption DEF TypeOK
<1>2. CASE Environment \/ PhasemeterThread \/ Others \/ Terminated
  <2>1. main' = main /\ left' = left
    BY <1>2 DEF Environment, PhasemeterThread, Others, Terminated, SignalHandler,
                MonitoringRequest, Pulse, ReadFirst, ReadSecond, ReadSecondTooFar, Publish,
                SpuriousWakeup, GnssData, GnssTime, GnssWakes, GnssExit, SaverEnds, vars,
                mainVars, inVars
  <2> QED
    BY <2>1 DEF LeftInv
<1>3. CASE Startup \/ Shutdown
  <2>1. left' = left /\ (main' = main \/ main' \notin {"calib_phase", "calib_epoch"})
    BY <1>3 DEF Startup, ClockUnset, ClockSetTime, ClockSet, ClockCheck, ClockChecked,
                InitialRetry, InitialJump, Shutdown, StopGnss, JoinGnss, JoinSaver,
                StopPhasemeter, JoinPhasemeter, GoTo, ExitWith, ClockRound, AfterClock,
                mainVars, inVars
  <2> QED
    BY <2>1 DEF LeftInv
<1>4. CASE LoopTop \/ GotPhaseError \/ GotEpoch \/ ReadCtrlFails \/ ReadCtrl \/ ProcessAdjust
           \/ ProcessPhaseJump \/ ProcessCalibrate \/ ProcessFails \/ CalibrateEpoch
           \/ CalibrateDone \/ MonitorStep
  <2>1. main \notin {"calib_phase", "calib_epoch"} \/ CalibrateEpoch
    BY <1>4 DEF LoopTop, GotPhaseError, GotEpoch, ReadCtrlFails, ReadCtrl, ProcessAdjust,
                ProcessPhaseJump, ProcessCalibrate, ProcessFails, FeedAlgorithm, CalibrateDone,
                MonitorStep, At
  <2>2. main' = main \/ main' \notin {"calib_phase", "calib_epoch"}
    BY <1>4 DEF LoopTop, GotPhaseError, GotEpoch, ReadCtrlFails, ReadCtrl, ProcessAdjust,
                ProcessPhaseJump, ProcessCalibrate, ProcessFails, CalibrateEpoch,
                CalibrateDone, MonitorStep, GoTo, ExitWith, mainVars
  <2>3. CASE CalibrateEpoch
    BY <2>3 DEF CalibrateEpoch, GoTo, LeftInv
  <2> QED
    BY <2>1, <2>2, <2>3 DEF LeftInv
<1>5. CASE CalibrateNext
  BY <1>1, <1>5 DEF CalibrateNext, CalibrationAborted, GoTo, ExitWith, At, LeftInv, inVars, mainVars
<1>6. CASE CalibrateMeasure
  BY <1>1, <1>6 DEF CalibrateMeasure, CalibrationAborted, GoTo, ExitWith, At, LeftInv, inVars, mainVars
<1> QED
  BY <1>2, <1>3, <1>4, <1>5, <1>6 DEF Next, Main, Iteration

\* The types, in every reachable state: a publication is one of the phasemeter's, a
\* wake-up belongs to a wait, and the count of calibration measures stays in range.
THEOREM OscillatordType == Spec => [](TypeOK /\ LeftInv)
<1>1. ASSUME Init PROVE TypeOK /\ LeftInv
  <2>1. Pulse0 \in Pulses /\ Measure0 \in Measures /\ NbMeasures \in Nat /\ MaxQueue \in Nat
    BY OscillatordAssumption DEF Pulse0, Pulses, Sources, Measure0, Measures, Status
  <2>2. fifo \in Seq(Pulses) /\ Len(fifo) <= MaxQueue
    BY <1>1, <2>1 DEF Init
  <2>3. PmType
    BY <1>1, <2>1, <2>2 DEF Init, PmType
  <2>4. MainType
    <3>1. left \in 0 .. NbMeasures
      BY <1>1, <2>1 DEF Init
    <3>2. main \in Waits \cup Stretches /\ woken = FALSE
      BY <1>1, Points DEF Init
    <3> QED
      BY <1>1, <2>1, <3>1, <3>2 DEF Init, MainType
  <2>5. LeftInv
    BY <1>1 DEF Init, LeftInv
  <2> QED
    BY <2>3, <2>4, <2>5, TypeUnfold
<1>2. ASSUME TypeOK, LeftInv, [Next]_vars PROVE TypeOK' /\ LeftInv'
  <2>1. CASE UNCHANGED vars
    BY <1>2, <2>1 DEF vars, TypeOK, LeftInv
  <2>2. CASE Next
    <3>1. LeftInv'
      BY <1>2, <2>2, LeftStep
    <3>2. CASE Terminated
      BY <1>2, <3>2, <2>1 DEF Terminated
    <3>3. TypeOK'
      BY <1>2, <2>2, <3>2, EnvironmentType, OthersType, StartupType, IterationType, ShutdownType
      DEF Next, Main
    <3> QED
      BY <3>1, <3>3
  <2> QED
    BY <1>2, <2>1, <2>2
<1> QED
  BY <1>1, <1>2, PTL DEF Spec

-----------------------------------------------------------------------------
(* Every step keeps FreshInv.                                              *)

\* A step that touches neither what FreshInv speaks of.
LEMMA FreshKept ==
  ASSUME FreshInv, UNCHANGED <<main, woken, aligned, measure, ignore, missed, fifo, ts1, ts2, status>>
  PROVE  FreshInv'
BY DEF FreshInv, PulsesInv, MeasuresInv, Clean

LEMMA FreshCaptured ==
  ASSUME TypeOK, FreshInv, Environment \/ PhasemeterThread
  PROVE  FreshInv'
<1>1. CASE SignalHandler \/ MonitoringRequest
  <2>1. UNCHANGED <<main, woken, aligned, measure, ignore, missed, fifo, ts1, ts2, status>>
    BY <1>1 DEF SignalHandler, MonitoringRequest, mainVars, inVars, pmVars
  <2> QED
    BY <2>1, FreshKept
<1>2. fifo \in Seq(Pulses) /\ (fifo # << >> => 1 \in DOMAIN fifo /\ Head(fifo) = fifo[1])
  BY DEF TypeOK
<1>3. ASSUME fifo # << >>, fifo' = Tail(fifo), \A i \in DOMAIN fifo : ~fifo[i].old
      PROVE  ~Head(fifo).old /\ \A i \in DOMAIN fifo' : ~fifo'[i].old
  <2>1. ~Head(fifo).old
    BY <1>2, <1>3
  <2>2. DOMAIN fifo' = 1 .. Len(fifo) - 1 /\ \A i \in DOMAIN fifo' : fifo'[i] = fifo[i + 1]
    BY <1>2, <1>3
  <2>3. \A i \in DOMAIN fifo' : i + 1 \in DOMAIN fifo
    BY <1>2, <2>2
  <2> QED
    BY <1>3, <2>1, <2>2, <2>3
<1>4. ASSUME NEW src \in Sources, Pulse(src) PROVE FreshInv'
  <2>1. /\ fifo' = Append(fifo, [src |-> src, old |-> FALSE])
        /\ UNCHANGED <<main, woken, aligned, measure, ignore, missed, ts1, ts2, status>>
    BY <1>4 DEF Pulse, mainVars, inVars
  <2>2. ASSUME \A i \in DOMAIN fifo : ~fifo[i].old PROVE \A i \in DOMAIN fifo' : ~fifo'[i].old
    <3>1. DOMAIN fifo' = 1 .. Len(fifo) + 1 /\ DOMAIN fifo = 1 .. Len(fifo)
      BY <1>2, <2>1
    <3>2. \A i \in DOMAIN fifo : fifo'[i] = fifo[i]
      BY <1>2, <2>1
    <3>3. fifo'[Len(fifo) + 1] = [src |-> src, old |-> FALSE]
      BY <1>2, <2>1
    <3> QED
      BY <1>2, <2>2, <3>1, <3>2, <3>3
  <2> QED
    BY <2>1, <2>2 DEF FreshInv, PulsesInv, MeasuresInv, Clean
<1>5. CASE ReadFirst
  <2>1. UNCHANGED <<main, woken, aligned, measure, ignore, missed, ts2, status>>
    BY <1>5 DEF ReadFirst, mainVars, inVars
  <2>2. ASSUME main \in Looping, ~missed PROVE Clean'
    BY <1>3, <1>5, <2>2 DEF ReadFirst, FreshInv, PulsesInv, Clean, Pulse0
  <2> QED
    BY <2>1, <2>2 DEF FreshInv, PulsesInv, MeasuresInv, Clean
<1>6. CASE ReadSecond
  <2>1. UNCHANGED <<main, woken, aligned, measure, ignore, missed, ts1, status>>
    BY <1>6 DEF ReadSecond, mainVars, inVars
  <2>2. ASSUME main \in Looping, ~missed PROVE ~ts2'.old /\ \A i \in DOMAIN fifo' : ~fifo'[i].old
    BY <1>3, <1>6, <2>2 DEF ReadSecond, FreshInv, PulsesInv
  <2> QED
    BY <2>1, <2>2 DEF FreshInv, PulsesInv, MeasuresInv, Clean
<1>7. CASE ReadSecondTooFar
  <2>1. UNCHANGED <<main, woken, aligned, measure, ignore, missed, ts2, status>>
    BY <1>7 DEF ReadSecondTooFar, mainVars, inVars
  <2>2. ASSUME main \in Looping, ~missed PROVE Clean'
    BY <1>3, <1>7, <2>2 DEF ReadSecondTooFar, FreshInv, PulsesInv, Clean
  <2> QED
    BY <2>1, <2>2 DEF FreshInv, PulsesInv, MeasuresInv, Clean
<1>8. CASE Publish
  <2>1. UNCHANGED <<main, aligned, measure, ignore, missed, fifo>>
    BY <1>8 DEF Publish, inVars
  <2>2. ASSUME main \in Looping, ~missed PROVE Clean'
    BY <1>8, <2>2 DEF Publish, FreshInv, PulsesInv, Clean, Pulse0
  <2>3. PulsesInv'
    BY <2>1, <2>2 DEF FreshInv, PulsesInv, Clean
  \* What is published is fresh unless the input it leads to is ignored.
  <2>4. ASSUME ~missed, main \in {"phase", "calib_phase"}, ~ignore, status'.status = "BOTH"
        PROVE  ~status'.old
    <3>1. ~ts1.old /\ ~ts2.old
      BY <2>4 DEF FreshInv, PulsesInv, Clean, Looping
    <3> QED
      BY <1>8, <2>4, <3>1 DEF Publish
  <2> QED
    BY <2>1, <2>3, <2>4 DEF FreshInv, MeasuresInv
<1> QED
  BY <1>1, <1>4, <1>5, <1>6, <1>7, <1>8 DEF Environment, PhasemeterThread

LEMMA FreshOthers ==
  ASSUME TypeOK, FreshInv, Others
  PROVE  FreshInv'
<1>1. CASE SpuriousWakeup
  <2>1. /\ UNCHANGED <<main, aligned, measure, ignore, fifo, ts1, ts2, status>>
        /\ missed' = (missed \/ main \in PhaseWaits) /\ main \in Waits
    BY <1>1 DEF SpuriousWakeup, pmVars
  <2>2. CASE main \in PhaseWaits
    BY <2>1, <2>2 DEF FreshInv, PulsesInv, MeasuresInv
  <2>3. CASE main \notin PhaseWaits
    BY <2>1, <2>3, Points DEF FreshInv, PulsesInv, MeasuresInv, Clean, PhaseWaits
  <2> QED
    BY <2>2, <2>3
<1>2. ASSUME NEW waits \in {DataWaits, TimeWaits}, GnssWakes(waits) PROVE FreshInv'
  <2>1. /\ UNCHANGED <<main, aligned, measure, ignore, missed, fifo, ts1, ts2, status>>
        /\ main \notin {"monitor", "top", "phase", "calib_phase"}
    BY <1>2 DEF GnssWakes, inVars, pmVars, DataWaits, TimeWaits
  <2> QED
    BY <2>1 DEF FreshInv, PulsesInv, MeasuresInv, Clean
<1>3. CASE GnssExit \/ SaverEnds
  <2>1. UNCHANGED <<main, woken, aligned, measure, ignore, missed, fifo, ts1, ts2, status>>
    BY <1>3 DEF GnssExit, SaverEnds, mainVars, inVars, pmVars
  <2> QED
    BY <2>1, FreshKept
<1> QED
  BY <1>1, <1>2, <1>3 DEF Others, GnssData, GnssTime

\* Start-up and shutdown lie outside the loop, which ClockChecked enters with nothing
\* left from before the initial jump.
LEMMA FreshOutside ==
  ASSUME TypeOK, FreshInv, Startup \/ Shutdown
  PROVE  FreshInv'
<1>1. main \notin Looping
  BY DEF Startup, ClockUnset, ClockSetTime, ClockSet, ClockCheck, ClockChecked, InitialRetry,
         InitialJump, Shutdown, StopGnss, JoinGnss, JoinSaver, StopPhasemeter, JoinPhasemeter,
         At, Looping
<1>2. main' \notin Looping \/ (ClockChecked /\ aligned /\ main' = "top")
  <2>1. CASE ClockChecked
    BY <1>1, <2>1 DEF ClockChecked, GoTo, AfterClock, ClockRound, Looping
  <2>2. CASE ~ClockChecked
    BY <1>1, <2>2
    DEF Startup, ClockUnset, ClockSetTime, ClockSet, ClockCheck, InitialRetry, InitialJump,
        Shutdown, StopGnss, JoinGnss, JoinSaver, StopPhasemeter, JoinPhasemeter, GoTo, ExitWith,
        ClockRound, Looping, mainVars
  <2> QED
    BY <2>1, <2>2
<1>3. CASE main' \notin Looping
  BY <1>3 DEF FreshInv, PulsesInv, MeasuresInv, Looping, Trusting
<1>4. CASE ClockChecked /\ aligned /\ main' = "top"
  <2>1. UNCHANGED <<aligned, fifo, ts1, ts2>> /\ Settled
    BY <1>4 DEF ClockChecked, inVars, pmVars
  <2>2. Len(fifo) \in Nat /\ DOMAIN fifo = 1 .. Len(fifo)
    BY DEF TypeOK
  <2>3. Clean
    BY <2>1 DEF Settled, Clean
  <2> QED
    BY <1>4, <2>1, <2>3 DEF FreshInv, PulsesInv, MeasuresInv, Clean, Trusting
<1> QED
  BY <1>2, <1>3, <1>4

LEMMA FreshIteration ==
  ASSUME TypeOK, FreshInv, Iteration
  PROVE  FreshInv'
<1>1. main \in Looping
  BY DEF Iteration, LoopTop, GotPhaseError, GotEpoch, ReadCtrlFails, ReadCtrl, ProcessAdjust,
         ProcessPhaseJump, ProcessCalibrate, ProcessFails, FeedAlgorithm, CalibrateNext,
         CalibrateMeasure, CalibrateEpoch, CalibrateDone, MonitorStep, At, Looping, inVars
<1>2. CASE ProcessPhaseJump
  <2>1. CASE StepClock /\ ignore' = TRUE /\ missed' = ~Drained /\ GoTo("monitor")
    <3>1. ASSUME Drained PROVE ~ts2'.old /\ \A i \in DOMAIN fifo' : ~fifo'[i].old
      <4>1. fifo = << >> /\ thr # "publish"
        BY <3>1 DEF Drained
      <4>2. fifo' = << >> /\ ~ts2'.old
        BY <2>1, <4>1, TypeUnfold, StepClockEffect
      <4>3. fifo' \in Seq(Pulses) /\ Len(fifo') = 0
        BY <4>2
      <4> QED
        BY <4>2, <4>3
    <3> QED
      BY <2>1, <3>1 DEF FreshInv, PulsesInv, MeasuresInv, GoTo, Trusting
  <2>2. CASE UNCHANGED <<pmVars, status, ignore, missed, saver>> /\ ExitWith("failure")
    <3>1. main = "process" /\ measure' = Measure0
      BY <1>2 DEF ProcessPhaseJump, FeedAlgorithm, At
    <3>2. UNCHANGED <<main, woken, ignore, missed, fifo, ts1, ts2, status>>
      BY <2>2 DEF ExitWith, pmVars, mainVars
    <3> QED
      BY <1>1, <3>1, <3>2 DEF FreshInv, PulsesInv, MeasuresInv, Clean, Trusting, Measure0
  <2> QED
    BY <1>2, <2>1, <2>2 DEF ProcessPhaseJump
<1>3. CASE ~ProcessPhaseJump
  <2>1. UNCHANGED <<missed, fifo, ts1, ts2, status>>
    BY <1>3 DEF Iteration, LoopTop, GotPhaseError, GotEpoch, ReadCtrlFails, ReadCtrl,
                ProcessAdjust, ProcessCalibrate, ProcessFails, CalibrateNext, CalibrateMeasure,
                CalibrateEpoch, CalibrateDone, MonitorStep, pmVars, inVars
  <2>2. CASE LoopTop \/ MonitorStep
    BY <1>1, <2>1, <2>2 DEF LoopTop, MonitorStep, GoTo, At, FreshInv, PulsesInv, MeasuresInv,
                            Clean, Looping, Trusting, inVars
  <2>3. CASE GotPhaseError
    BY <1>1, <2>1, <2>3, Points
    DEF GotPhaseError, GoTo, At, FreshInv, PulsesInv, MeasuresInv, Clean, Looping, Trusting
  <2>4. CASE GotEpoch
    BY <1>1, <2>1, <2>4 DEF GotEpoch, GoTo, At, FreshInv, PulsesInv, MeasuresInv, Clean, Looping,
                            Trusting, inVars
  <2>5. CASE ReadCtrlFails
    BY <1>1, <2>1, <2>5 DEF ReadCtrlFails, GoTo, At, FreshInv, PulsesInv, MeasuresInv, Clean,
                            Looping, Trusting
  <2>6. CASE ReadCtrl
    BY <1>1, <2>1, <2>6 DEF ReadCtrl, GoTo, At, FreshInv, PulsesInv, MeasuresInv, Clean,
                            Looping, Trusting
  <2>7. CASE ProcessAdjust \/ ProcessCalibrate \/ ProcessFails
    <3>1. main = "process" /\ ignore' = ignore
      BY <2>7 DEF ProcessAdjust, ProcessCalibrate, ProcessFails, FeedAlgorithm, At
    <3>2. \/ main' \in {"monitor", "calib_next"} /\ woken' = FALSE
          \/ main' = main /\ woken' = woken /\ measure' = Measure0
      BY <2>7 DEF ProcessAdjust, ProcessCalibrate, ProcessFails, FeedAlgorithm, GoTo, ExitWith,
                  mainVars
    <3> QED
      BY <1>1, <2>1, <3>1, <3>2 DEF FreshInv, PulsesInv, MeasuresInv, Clean, Trusting, Measure0
  <2>8. CASE CalibrateNext \/ CalibrateMeasure \/ CalibrateEpoch \/ CalibrateDone
    <3>1. main \in {"calib_next", "calib_phase", "calib_epoch"} /\ ignore' = ignore
      BY <2>8 DEF CalibrateNext, CalibrateMeasure, CalibrateEpoch, CalibrateDone, At, inVars
    <3>2. \/ /\ main' \in {"calib_next", "calib_phase", "calib_epoch", "monitor", "shutdown"}
             /\ woken' = FALSE
          \/ main' = main /\ woken' = woken
      BY <2>8 DEF CalibrateNext, CalibrateMeasure, CalibrateEpoch, CalibrateDone,
                  CalibrationAborted, GoTo, ExitWith, mainVars
    <3> QED
      BY <1>1, <2>1, <3>1, <3>2 DEF FreshInv, PulsesInv, MeasuresInv, Clean, Trusting, Looping
  <2> QED
    BY <1>3, <2>2, <2>3, <2>4, <2>5, <2>6, <2>7, <2>8 DEF Iteration
<1> QED
  BY <1>2, <1>3

\* FreshInv is an invariant: one ignored input outlasts everything a jump leaves behind,
\* if by then every timestamp was read and published and no wait returns on its own.
THEOREM OscillatordFreshInvariant == Spec => []FreshInv
<1>1. Init => FreshInv
  BY DEF Init, FreshInv, PulsesInv, MeasuresInv, Looping, Trusting
<1>2. ASSUME TypeOK, FreshInv, [Next]_vars PROVE FreshInv'
  <2>1. CASE Terminated \/ UNCHANGED vars
    <3>1. UNCHANGED <<main, woken, aligned, measure, ignore, missed, fifo, ts1, ts2, status>>
      BY <2>1 DEF Terminated, vars
    <3> QED
      BY <1>2, <3>1, FreshKept
  <2> QED
    BY <1>2, <2>1, FreshCaptured, FreshOthers, FreshOutside, FreshIteration DEF Next, Main
<1> QED
  BY <1>1, <1>2, OscillatordType, PTL DEF Spec

\* Neither od_process nor a calibration is given a phase error measured, even in part,
\* before the last phase jump, unless the one ignored input was missed: timestamps
\* unread or unpublished at the jump, or a wait for a phase that ended by itself since.
THEOREM OscillatordFreshAfterJump == Spec => []FreshAfterJump
<1>1. FreshInv => FreshAfterJump
  BY DEF FreshInv, MeasuresInv, FreshAfterJump, Trusting
<1> QED
  BY <1>1, OscillatordFreshInvariant, PTL

-----------------------------------------------------------------------------
(* The SA5x driver                                                         *)

\* The number of readings that get lost is a number.
LEMMA LostReadings ==
  ASSUME NEW lost \in SUBSET Readings
  PROVE  Cardinality(lost) \in Nat
<1>1. IsFiniteSet(Readings)
  <2>1. IsFiniteSet({}) BY FS_EmptySet
  <2>2. IsFiniteSet({} \cup {"disciplinelocked"}) BY <2>1, FS_AddElement
  <2>3. IsFiniteSet(({} \cup {"disciplinelocked"}) \cup {"ppsindetected"}) BY <2>2, FS_AddElement
  <2> DEFINE S3 == ({} \cup {"disciplinelocked"}) \cup {"ppsindetected"}
             S4 == S3 \cup {"digitaltuning"}
             S5 == S4 \cup {"lastcorrection"}
             S6 == S5 \cup {"alarms"}
             S7 == S6 \cup {"disciplining"}
             S8 == S7 \cup {"phase"}
  <2>4. IsFiniteSet(S4) BY <2>3, FS_AddElement
  <2>5. IsFiniteSet(S5) BY <2>4, FS_AddElement
  <2>6. IsFiniteSet(S6) BY <2>5, FS_AddElement
  <2>7. IsFiniteSet(S7) BY <2>6, FS_AddElement
  <2>8. IsFiniteSet(S8) BY <2>7, FS_AddElement
  <2>9. S8 = Readings BY DEF Readings
  <2> QED BY <2>8, <2>9
<1>2. IsFiniteSet(lost)
  BY <1>1, FS_Subset
<1> QED BY <1>2, FS_CardinalityType

\* The states that get_ctrl computes before it looks at the age of the phase.
States == [class: Classes, phase: Phases, start: 0 .. Interval1 + 1, adjust: BOOLEAN]

\* The state is well formed; a phase changes only with an order to set TAU, and
\* holdover keeps it.
LEMMA NextStateIs ==
  ASSUME Sa5xTypeOK
  PROVE  /\ NextState \in States
         /\ ~NextState.adjust => NextState.phase = disciplining_phase
         /\ Holdover => /\ NextState.phase = disciplining_phase
                        /\ NextState.adjust = latch
                        /\ NextState.class \in {"HOLDOVER", "UNCALIBRATED"}
<1>a. /\ Interval1 \in Nat /\ disciplining_phase \in Phases /\ sinceStart \in 0 .. Interval1 + 1
      /\ latch \in BOOLEAN /\ clock_class \in Classes /\ 0 \in 0 .. Interval1 + 1
  BY Sa5xAssumption DEF Sa5xTypeOK
<1>b. ASSUME NEW c \in Classes
      PROVE  /\ Kept(c) \in States /\ Kept(c).phase = disciplining_phase
             /\ Kept(c).adjust = latch /\ Kept(c).class = c
  BY <1>a DEF Kept, States
<1>c. Restarted \in States /\ Restarted.adjust = TRUE
  BY <1>a DEF Restarted, States, Classes, Phases
<1>1. CASE Holdover
  <2>1. \E c \in {"HOLDOVER", "UNCALIBRATED"} : NextState = Kept(c)
    <3>1. NextState = Kept(IF clock_class = "CALIBRATING" \/ sinceFix > Day
                           THEN "UNCALIBRATED" ELSE "HOLDOVER")
      BY <1>1 DEF NextState
    <3> QED BY <3>1
  <2> QED BY <1>b, <2>1 DEF Classes
<1>2. CASE ~Holdover /\ latch
  <2>1. NextState = Kept("UNCALIBRATED")
    BY <1>2 DEF NextState
  <2> QED BY <1>2, <1>b, <2>1 DEF Classes
<1>3. CASE ~Holdover /\ ~latch /\ clock_class \in {"HOLDOVER", "UNCALIBRATED"}
  <2>1. NextState = Restarted
    BY <1>3 DEF NextState
  <2> QED BY <1>3, <1>c, <2>1
<1>4. CASE ~Holdover /\ ~latch /\ clock_class = "LOCK"
  <2>1. NextState = IF a.disciplinelocked THEN Kept(clock_class) ELSE Restarted
    BY <1>4 DEF NextState
  <2> QED BY <1>4, <1>a, <1>b, <1>c, <2>1
<1>5. CASE ~Holdover /\ ~latch /\ clock_class = "CALIBRATING"
  <2>1. NextState = [Kept(clock_class) EXCEPT !.start = IF a.disciplinelocked THEN @ ELSE 0]
    BY <1>5 DEF NextState
  <2>2. NextState = [class |-> clock_class, phase |-> disciplining_phase,
                     start |-> IF a.disciplinelocked THEN sinceStart ELSE 0, adjust |-> latch]
    BY <2>1 DEF Kept
  <2> QED BY <1>5, <1>a, <2>2 DEF States
<1> QED BY <1>a, <1>1, <1>2, <1>3, <1>4, <1>5 DEF Classes

\* The phase that a round ends with, and what it tells the clock.
LEMMA UpdateStatusDoes ==
  ASSUME Sa5xTypeOK, UpdateStatus
  PROVE  LET s == NextState
         IN  /\ disciplining_phase' \in Phases /\ sinceStart' = s.start
             /\ disciplining_phase' = IF Advances(s) THEN s.phase + 1 ELSE s.phase
             /\ IF s.adjust \/ Advances(s)
                THEN /\ \/ tau' = disciplining_phase' /\ tauLost' = FALSE /\ Working
                        \/ tau' = tau /\ tauLost' = TRUE /\ Failing
                     /\ clock_class' = IF disciplining_phase' = 0 THEN "CALIBRATING" ELSE "LOCK"
                     /\ holdover_ready' = (disciplining_phase' = 2)
                ELSE /\ clock_class' = s.class
                     /\ UNCHANGED <<tau, tauLost, holdover_ready, faults>>
<1> DEFINE s == NextState
<1>1. s \in States
  BY NextStateIs
<1>2. /\ disciplining_phase' = (IF Advances(s) THEN s.phase + 1 ELSE s.phase)
      /\ sinceStart' = s.start
  BY DEF UpdateStatus
<1>3. disciplining_phase' \in Phases
  <2> HIDE DEF s
  <2> QED BY <1>1, <1>2 DEF States, Phases, Advances
<1> QED BY <1>2, <1>3 DEF UpdateStatus

\* Type correctness of the clock, the driver and its round.
THEOREM Sa5xType == Sa5xSpec => []Sa5xTypeOK
<1>a. Interval0 \in Nat /\ Interval1 \in Nat /\ NoFixTimeout \in Nat /\ Day \in Nat /\ MaxFaults \in Nat
  BY Sa5xAssumption
<1>b. NoAttributes \in Attribute
  BY DEF NoAttributes, Attribute
<1>c. ASSUME Sa5xTypeOK, Working \/ Failing PROVE faults' \in 0 .. MaxFaults
  BY <1>a, <1>c DEF Sa5xTypeOK, Working, Failing
<1>1. Sa5xInit => Sa5xTypeOK
  <2> SUFFICES ASSUME Sa5xInit PROVE Sa5xTypeOK
    OBVIOUS
  <2>1. sinceStart \in 0 .. Interval1 + 1 /\ sinceFix \in 0 .. Day + 1
        /\ sinceLatch \in 0 .. Interval0 + 1 /\ faults \in 0 .. MaxFaults
    BY <1>a DEF Sa5xInit
  <2>2. tau \in Phases /\ disciplining_phase \in Phases /\ retry \in 0 .. 3
    BY DEF Sa5xInit, Phases
  <2>3. clock_class \in Classes /\ a \in Attribute
    BY <1>b DEF Sa5xInit, Classes
  <2> QED BY <2>1, <2>2, <2>3 DEF Sa5xInit, Sa5xTypeOK
<1>2. Sa5xTypeOK /\ [Sa5xNext]_sa5xVars => Sa5xTypeOK'
  <2> SUFFICES ASSUME Sa5xTypeOK, [Sa5xNext]_sa5xVars PROVE Sa5xTypeOK'
    OBVIOUS
  <2>1. CASE Tick
    <3>1. sinceStart' \in 0 .. Interval1 + 1 /\ sinceFix' \in 0 .. Day + 1
          /\ sinceLatch' \in 0 .. Interval0 + 1
      BY <1>a, <2>1 DEF Tick, Sa5xTypeOK, Older
    <3>2. {disciplining, outOfRange, locked, pps, phase0, latch_fixed, holdover_ready,
           gnss_fix_status, latch, tauLost}' \subseteq BOOLEAN
      BY <2>1 DEF Tick, Sa5xTypeOK, driver
    <3> QED BY <1>b, <2>1, <3>1, <3>2 DEF Tick, Sa5xTypeOK, driver
  <2>2. ASSUME NEW fixOk \in BOOLEAN, PushGnssInfo(fixOk) PROVE Sa5xTypeOK'
    <3>1. sinceFix' \in 0 .. Day + 1
      BY <1>a, <2>2 DEF PushGnssInfo, Sa5xTypeOK
    <3> QED BY <2>2, <3>1 DEF PushGnssInfo, Sa5xTypeOK, clock, driver
  <2>3. CASE GetAttributes
    <3>1. PICK lost \in SUBSET Readings, p0 \in BOOLEAN, stale \in SUBSET {0} :
            /\ Cardinality(lost) <= MaxFaults - faults
            /\ faults' = faults + Cardinality(lost)
            /\ IF "ppsindetected" \in lost
               THEN (pc' = "tick" /\ UNCHANGED a) \/ (pc' = "decide" /\ a' = NoAttributes)
               ELSE pc' = "reenable" /\ a' = Attributes(lost, p0, stale)
      BY <2>3 DEF GetAttributes
    <3>2. faults' \in 0 .. MaxFaults
      <4>1. Cardinality(lost) \in Nat
        BY LostReadings
      <4>2. faults \in 0 .. MaxFaults
        BY DEF Sa5xTypeOK
      <4> QED BY <1>a, <3>1, <4>1, <4>2
    <3>3. Attributes(lost, p0, stale) \in Attribute
      BY DEF Attributes, Attribute, Sa5xTypeOK
    <3>4. a' \in Attribute /\ pc' \in {"tick", "decide", "reenable"}
      BY <1>b, <3>1, <3>3 DEF Sa5xTypeOK
    <3> QED BY <2>3, <3>2, <3>4 DEF GetAttributes, Sa5xTypeOK, clock, driver, ages
  <2>4. CASE Reenable
    <3>1. faults' \in 0 .. MaxFaults
      BY <1>a, <2>4 DEF Reenable, Working, Failing, Sa5xTypeOK
    <3>2. disciplining' \in BOOLEAN
      BY <2>4 DEF Reenable, Sa5xTypeOK
    <3> QED BY <2>4, <3>1, <3>2 DEF Reenable, Sa5xTypeOK, driver, ages
  <2>5. CASE Decide
    <3>1. latch' \in BOOLEAN
      BY <2>5 DEF Decide, LatchNeeded
    <3> QED BY <2>5, <3>1 DEF Decide, Sa5xTypeOK, clock, driver, ages
  <2>6. CASE LatchOff
    <3>1. faults' \in 0 .. MaxFaults
      <4>1. Working \/ Failing
        BY <2>6 DEF LatchOff
      <4> QED BY <1>c, <4>1
    <3>2. retry' \in 0 .. 3
      <4>1. retry > 0 /\ (retry' = retry - 1 \/ retry' = retry)
        BY <2>6 DEF LatchOff
      <4>2. retry \in 0 .. 3
        BY DEF Sa5xTypeOK
      <4> QED BY <4>1, <4>2
    <3>3. disciplining' \in BOOLEAN /\ locked' \in BOOLEAN
      BY <2>6 DEF LatchOff, Sa5xTypeOK
    <3>4. a' \in Attribute
      BY <2>6 DEF LatchOff, Sa5xTypeOK, Attribute
    <3>5. pc' \in {"latch", "status"}
      BY <2>6 DEF LatchOff
    <3> QED BY <2>6, <3>1, <3>2, <3>3, <3>4, <3>5 DEF LatchOff, Sa5xTypeOK, driver, ages
  <2>7. CASE LatchCommand
    <3>1. faults' \in 0 .. MaxFaults /\ sinceLatch' \in 0 .. Interval0 + 1
      BY <1>a, <2>7 DEF LatchCommand, Working, Failing, Sa5xTypeOK
    <3>2. outOfRange' \in BOOLEAN /\ phase0' \in BOOLEAN
      BY <2>7 DEF LatchCommand, Sa5xTypeOK
    <3> QED BY <2>7, <3>1, <3>2 DEF LatchCommand, Sa5xTypeOK, driver
  <2>8. CASE UpdateStatus
    <3>1. NextState \in States
      BY NextStateIs
    <3>2. NextState.class \in Classes /\ NextState.start \in 0 .. Interval1 + 1
      BY <3>1 DEF States
    <3>3. disciplining_phase' \in Phases /\ sinceStart' \in 0 .. Interval1 + 1
      BY <2>8, <3>2, UpdateStatusDoes
    <3>4. tau' \in Phases /\ tauLost' \in BOOLEAN /\ holdover_ready' \in BOOLEAN
      BY <2>8, <3>3, UpdateStatusDoes DEF Sa5xTypeOK
    <3>5. clock_class' \in Classes
      BY <2>8, <3>2, UpdateStatusDoes DEF Classes
    <3>6. faults' \in 0 .. MaxFaults
      <4>1. Working \/ Failing
        BY <2>8, UpdateStatusDoes DEF Working
      <4> QED BY <1>c, <4>1
    <3> QED BY <2>8, <3>3, <3>4, <3>5, <3>6 DEF UpdateStatus, Sa5xTypeOK
  <2>9. CASE UNCHANGED sa5xVars
    BY <2>9 DEF sa5xVars, Sa5xTypeOK
  <2> QED BY <2>1, <2>2, <2>3, <2>4, <2>5, <2>6, <2>7, <2>8, <2>9 DEF Sa5xNext, Round
<1> QED BY <1>1, <1>2, PTL DEF Sa5xSpec

\* The TAU of the clock is the one of the driver's phase, or a command to set it
\* was lost, whatever the intervals and however many commands fail.
THEOREM Sa5xTauOfPhase == Sa5xSpec => []TauOfPhase
<1>1. Sa5xInit => TauOfPhase
  BY DEF Sa5xInit, TauOfPhase
<1>2. Sa5xTypeOK /\ TauOfPhase /\ [Sa5xNext]_sa5xVars => TauOfPhase'
  <2> SUFFICES ASSUME Sa5xTypeOK, TauOfPhase, [Sa5xNext]_sa5xVars PROVE TauOfPhase'
    OBVIOUS
  <2>1. CASE UpdateStatus
    <3>1. CASE NextState.adjust \/ Advances(NextState)
      BY <2>1, <3>1, UpdateStatusDoes DEF TauOfPhase
    <3>2. CASE ~(NextState.adjust \/ Advances(NextState))
      <4>1. disciplining_phase' = disciplining_phase
        BY <2>1, <3>2, UpdateStatusDoes, NextStateIs
      <4> QED BY <2>1, <3>2, <4>1, UpdateStatusDoes DEF TauOfPhase
    <3> QED BY <3>1, <3>2
  <2>2. CASE UNCHANGED <<tau, disciplining_phase, tauLost, holdover_ready>>
    BY <2>2 DEF TauOfPhase
  <2> QED BY <2>1, <2>2 DEF Sa5xNext, Round, Tick, PushGnssInfo, GetAttributes, Reenable, Decide,
             LatchOff, LatchCommand, sa5xVars, clock, driver
<1> QED BY <1>1, <1>2, Sa5xType, PTL DEF Sa5xSpec

\* In holdover TAU and the class stay, but for the end of a phase or a latch.
THEOREM Sa5xHoldoverKeepsTau == Sa5xSpec => HoldoverKeepsTau
<1> DEFINE Keeps == pc = "status" /\ Holdover =>
              \/ tau' = tau /\ clock_class' \in {"HOLDOVER", "UNCALIBRATED"}
              \/ disciplining_phase' = disciplining_phase + 1
              \/ latch
<1>1. Sa5xTypeOK /\ [Sa5xNext]_sa5xVars => [Keeps]_sa5xVars
  <2> SUFFICES ASSUME Sa5xTypeOK, Sa5xNext, pc = "status", Holdover, ~latch,
                      disciplining_phase' # disciplining_phase + 1
               PROVE  tau' = tau /\ clock_class' \in {"HOLDOVER", "UNCALIBRATED"}
    OBVIOUS
  <2>1. UpdateStatus
    BY DEF Sa5xNext, Round, Tick, PushGnssInfo, GetAttributes, Reenable, Decide, LatchOff,
       LatchCommand
  <2>2. NextState.phase = disciplining_phase /\ ~NextState.adjust
        /\ NextState.class \in {"HOLDOVER", "UNCALIBRATED"}
    BY NextStateIs
  <2>3. ~Advances(NextState)
    BY <2>1, <2>2, UpdateStatusDoes
  <2> QED BY <2>1, <2>2, <2>3, UpdateStatusDoes
<1> QED BY <1>1, Sa5xType, PTL DEF Sa5xSpec, HoldoverKeepsTau

=============================================================================
