----------------------------- MODULE Oscillatord -----------------------------
(***************************************************************************)
(* The control of the daemon in disciplining mode (src/oscillatord.c):     *)
(* start-up, the main loop, calibration and the orderly shutdown, together *)
(* with the threads the main thread waits for: the phasemeter, the GNSS    *)
(* thread and the EEPROM save thread.                                      *)
(*                                                                         *)
(* Phases are abstracted to one bit: a pulse is `old' once the PHC has     *)
(* been stepped by apply_phase_offset after its capture.  A pair with an   *)
(* old pulse measures a phase the card no longer has.  The arithmetic of   *)
(* the pairing is the subject of module Phasemeter.                        *)
(***************************************************************************)
EXTENDS Naturals, Sequences

CONSTANTS
  MaxQueue,   \* bound: timestamps the PHC holds for the phasemeter thread
  NbMeasures, \* calib_params: control points times nb_calibration
  Requests    \* the monitoring requests that clients make

ASSUME OscillatordAssumption ==
  /\ MaxQueue \in Nat \ {0}
  /\ NbMeasures \in Nat \ {0}
  /\ Requests \subseteq {"CALIBRATION", "SAVE_EEPROM"}

INT  == "INT"
GNSS == "GNSS"
Sources == {INT, GNSS}

\* PHASEMETER_INIT, BOTH_TIMESTAMPS, and either of the NO_..._TIMESTAMPS.
Status == {"INIT", "BOTH", "MISSING"}

VARIABLES
  loop,     \* the global flag that the signal handler clears
  exit,     \* how the process ended, "no" while it runs
  main,     \* where the main thread is: a blocking call or a stretch of code
  woken,    \* the condition variable that main waits on was signalled
  aligned,  \* the initial phase jump is done: second gnss_set_ptp_clock_time
  measure,  \* phasemeter_status and phase error main copied
  ignore,   \* ignore_next_irq
  missed,   \* history: since the last phase jump ignore_next_irq may have
            \* dropped the wrong input
  calib,    \* input.calibration_requested
  asked,    \* history: a calibration request main took and od has not seen
  left,     \* calibration measures still to take
  request,  \* monitoring->request
  fifo,     \* timestamps behind read_extts
  thr,      \* control point of phasemeter_thread
  ts1, ts2, \* its two timestamps
  outcome,  \* what the pair amounts to
  lstop,    \* its copy of stop
  stop,     \* phasemeter->stop
  status,   \* phasemeter->status, phasemeter->phase_error as one bit
  gstop,    \* gnss->stop
  gthr,     \* the GNSS thread: "run" or "exited"
  saver     \* the thread save_dsc_params_thread names: "none", "run", "done"

mainVars == <<main, woken>>
inVars   == <<aligned, measure, ignore, missed, calib, asked, left>>
pmVars   == <<fifo, thr, ts1, ts2, outcome, lstop>>
gnssVars == <<gstop, gthr>>
vars == <<loop, exit, main, woken, aligned, measure, ignore, missed, calib, asked,
          left, request, fifo, thr, ts1, ts2, outcome, lstop, stop, status, gstop,
          gthr, saver>>

\* The calls that block the main thread in pthread_cond_wait, by condition.
PhaseWaits == {"initial", "phase", "calib_phase"}       \* get_phase_error
DataWaits  == {"clock_unset", "clock_set", "check",
               "epoch", "calib_epoch"}                  \* gnss_get_epoch_data
TimeWaits  == {"settime", "checktime"}                  \* gnss_get_next_fix_tai_time
Waits == PhaseWaits \cup DataWaits \cup TimeWaits
Stretches == {"top", "read_ctrl", "process", "calib_next", "monitor", "shutdown",
              "join_gnss", "join_saver", "stop_pm", "join_pm"}

Pulse0   == [src |-> INT, old |-> FALSE]
Measure0 == [status |-> "INIT", old |-> FALSE]

\* main() after sleep(2), with the threads started; a phasemeter thread that
\* could not enable its timestamps has ended already.
Init ==
  /\ loop = TRUE /\ exit = "no" /\ main = "clock_unset" /\ woken = FALSE
  /\ aligned = FALSE /\ measure = Measure0 /\ ignore = FALSE
  /\ missed = FALSE /\ calib = FALSE /\ asked = FALSE /\ left = 0 /\ request = "NONE"
  /\ fifo = << >> /\ thr \in {"first", "exited"} /\ ts1 = Pulse0 /\ ts2 = Pulse0
  /\ outcome = "MISSING" /\ lstop = FALSE /\ stop = FALSE /\ status = Measure0
  /\ gstop = FALSE /\ gthr = "run" /\ saver = "none"

Running == exit = "no"

-----------------------------------------------------------------------------
(* Environment: signals, monitoring clients, pulses.                       *)

\* signal_handler: the first signal clears loop, the second ends the process.
SignalHandler ==
  /\ Running
  /\ loop' = FALSE
  /\ exit' = IF loop THEN exit ELSE "failure"
  /\ UNCHANGED <<mainVars, inVars, request, pmVars, stop, status, gnssVars, saver>>

\* The monitoring thread stores a client's request over any pending one.
MonitoringRequest ==
  /\ Running
  /\ request' \in Requests \ {request}
  /\ UNCHANGED <<loop, exit, mainVars, inVars, pmVars, stop, status, gnssVars, saver>>

Pulse(src) ==
  /\ Running /\ Len(fifo) < MaxQueue
  /\ fifo' = Append(fifo, [src |-> src, old |-> FALSE])
  /\ UNCHANGED <<loop, exit, mainVars, inVars, request, thr, ts1, ts2, outcome,
                 lstop, stop, status, gnssVars, saver>>

-----------------------------------------------------------------------------
(* phasemeter_thread, at the granularity of module Phasemeter.  Timestamps *)
(* the thread will not look at again are reset to Pulse0.                  *)

ReadFirst ==
  /\ Running /\ thr = "first" /\ fifo # << >>
  /\ fifo' = Tail(fifo)
  /\ ts1' = IF lstop THEN Pulse0 ELSE Head(fifo)
  /\ thr' = IF lstop THEN "exited" ELSE "second"
  /\ UNCHANGED <<loop, exit, mainVars, inVars, request, ts2, outcome, lstop, stop,
                 status, gnssVars, saver>>

\* The next timestamp completes a pair to publish.
ReadSecond ==
  /\ Running /\ thr = "second" /\ fifo # << >>
  /\ ts2' = Head(fifo)
  /\ fifo' = Tail(fifo)
  /\ outcome' = IF Head(fifo).src = ts1.src THEN "MISSING" ELSE "BOTH"
  /\ thr' = "publish"
  /\ UNCHANGED <<loop, exit, mainVars, inVars, request, ts1, lstop, stop, status,
                 gnssVars, saver>>

\* Pulses of both signals more than 500 ms apart.
ReadSecondTooFar ==
  /\ Running /\ thr = "second" /\ fifo # << >>
  /\ Head(fifo).src # ts1.src
  /\ ts1' = Head(fifo)
  /\ fifo' = Tail(fifo)
  /\ UNCHANGED <<loop, exit, mainVars, inVars, request, thr, ts2, outcome, lstop,
                 stop, status, gnssVars, saver>>

\* The critical section: publish, copy stop, pthread_cond_signal.  After
\* BOTH_TIMESTAMPS a fresh first timestamp is read before stop is tested.
Publish ==
  /\ Running /\ thr = "publish"
  /\ status' = [status |-> outcome,
                old |-> IF outcome = "BOTH" THEN ts1.old \/ ts2.old ELSE status.old]
  /\ lstop' = stop
  /\ woken' = (woken \/ main \in PhaseWaits)
  /\ thr' = CASE outcome = "BOTH" -> "first"
              [] outcome # "BOTH" /\ stop -> "exited"
              [] OTHER -> "second"
  /\ ts1' = IF thr' = "second" THEN ts2 ELSE Pulse0
  /\ ts2' = Pulse0 /\ outcome' = "MISSING"
  /\ UNCHANGED <<loop, exit, main, inVars, request, fifo, stop, gnssVars, saver>>

\* The FIFO is empty and nothing waits to be published.
Drained == fifo = << >> /\ thr # "publish"

\* pthread_cond_wait returns without a signal.  A phase read then may be from
\* before the last jump, and be the one input that is ignored.
SpuriousWakeup ==
  /\ Running
  /\ main \in Waits /\ ~woken
  /\ woken' = TRUE
  /\ missed' = (missed \/ main \in PhaseWaits)
  /\ UNCHANGED <<loop, exit, main, aligned, measure, ignore, calib, asked, left, request,
                 pmVars, stop, status, gnssVars, saver>>

-----------------------------------------------------------------------------
(* The GNSS thread.  An epoch, a timeout or an unpowered antenna signals   *)
(* cond_data; only an epoch with a known TAI time signals cond_time.       *)

GnssWakes(waits) ==
  /\ Running /\ gthr = "run"
  /\ main \in waits /\ ~woken
  /\ woken' = TRUE
  /\ UNCHANGED <<loop, exit, main, inVars, request, pmVars, stop, status, gnssVars, saver>>

GnssData == GnssWakes(DataWaits)
GnssTime == GnssWakes(TimeWaits)

GnssExit ==
  /\ Running /\ gthr = "run" /\ gstop
  /\ gthr' = "exited"
  /\ UNCHANGED <<loop, exit, mainVars, inVars, request, pmVars, stop, status, gstop, saver>>

\* The thread that saves the parameters returns.
SaverEnds ==
  /\ Running /\ saver = "run"
  /\ saver' = "done"
  /\ UNCHANGED <<loop, exit, mainVars, inVars, request, pmVars, stop, status, gnssVars>>

-----------------------------------------------------------------------------
(* The main thread.  Each action is one stretch between blocking calls.    *)

rest == <<loop, request, gnssVars>>   \* what few steps of main() disturb

At(point) == Running /\ main = point /\ (point \in Waits => woken)
GoTo(next) == main' = next /\ woken' = FALSE /\ UNCHANGED exit
ExitWith(how) == exit' = how /\ UNCHANGED mainVars

\* apply_phase_offset steps the PHC: every timestamp taken so far is old.
StepClock ==
  /\ fifo' = [i \in DOMAIN fifo |-> [fifo[i] EXCEPT !.old = TRUE]]
  /\ ts1' = [ts1 EXCEPT !.old = thr \in {"second", "publish"}]
  /\ ts2' = [ts2 EXCEPT !.old = thr = "publish"]
  /\ status' = [status EXCEPT !.old = TRUE]
  /\ UNCHANGED <<thr, outcome, lstop>>

\* sleep(SETTLING_TIME) after the initial jump outlasts the pulses before it.
Settled == \A p \in {fifo[i] : i \in DOMAIN fifo} \cup {ts1, ts2} : ~p.old

\* Where the tests of loop lead after gnss_set_ptp_clock_time returned 0.
AfterClock == IF ~loop THEN "shutdown" ELSE IF aligned THEN "top" ELSE "initial"

\* Another round of while(!clock_valid && loop).
ClockRound(next) == GoTo(IF loop THEN next ELSE "shutdown")

\* gnss_set_ptp_clock_time, epoch data valid or not: the clock is to be set.
ClockUnset ==
  /\ At("clock_unset")
  /\ GoTo("settime") \/ ClockRound("clock_unset")
  /\ UNCHANGED <<rest, inVars, pmVars, stop, status, saver>>

\* A TAI time came: set the clock, which may fail, as may reading it.
ClockSetTime ==
  /\ At("settime")
  /\ ClockRound("clock_set") \/ ClockRound("clock_unset") \/ ExitWith("failure")
  /\ UNCHANGED <<rest, inVars, pmVars, stop, status, saver>>

\* The clock is set: with valid data, check it.
ClockSet ==
  /\ At("clock_set")
  /\ GoTo("check") \/ ClockRound("clock_set")
  /\ UNCHANGED <<rest, inVars, pmVars, stop, status, saver>>

\* gnss_check_ptp_clock_time: valid data, then the next TAI time.
ClockCheck ==
  /\ At("check")
  /\ GoTo("checktime") \/ ClockRound("clock_unset")
  /\ UNCHANGED <<rest, inVars, pmVars, stop, status, saver>>

\* The two times agree, or the clock is set again.  The settling delay before
\* the second call is long over.
ClockChecked ==
  /\ At("checktime")
  /\ aligned => Settled
  /\ GoTo(AfterClock) \/ ClockRound("clock_unset")
  /\ UNCHANGED <<rest, inVars, pmVars, stop, status, saver>>

\* do get_phase_error while status is not BOTH_TIMESTAMPS: loop is not tested.
InitialRetry ==
  /\ At("initial")
  /\ status.status # "BOTH"
  /\ GoTo("initial")
  /\ UNCHANGED <<rest, inVars, pmVars, stop, status, saver>>

\* The initial phase jump; gnss_set_ptp_clock_time again.
InitialJump ==
  /\ At("initial")
  /\ status.status = "BOTH"
  /\ \/ StepClock /\ aligned' = TRUE /\ missed' = FALSE /\ ClockRound("clock_unset")
     \/ UNCHANGED <<aligned, missed, pmVars, status>> /\ ExitWith("failure")
  /\ UNCHANGED <<rest, measure, ignore, calib, asked, left, stop, saver>>

\* while(loop), then get_phase_error blocks.
LoopTop ==
  /\ At("top")
  /\ GoTo(IF loop THEN "phase" ELSE "shutdown")
  /\ UNCHANGED <<rest, inVars, pmVars, stop, status, saver>>

\* get_phase_error returns, gnss_get_epoch_data blocks.
GotPhaseError ==
  /\ At("phase")
  /\ measure' = status
  /\ GoTo("epoch")
  /\ UNCHANGED <<rest, aligned, ignore, missed, calib, asked, left, pmVars, stop, status, saver>>

GotEpoch ==
  /\ At("epoch")
  /\ GoTo("read_ctrl")
  /\ UNCHANGED <<rest, inVars, pmVars, stop, status, saver>>

\* Fault: the input structure is cleared on the way out of a failed read.
FaultReadCtrlFails ==
  /\ At("read_ctrl")
  /\ GoTo("top")
  /\ measure' = Measure0
  /\ calib' = FALSE
  /\ UNCHANGED <<rest, aligned, ignore, missed, asked, left, pmVars, stop, status, saver>>

\* oscillator_parse_attributes or oscillator_get_ctrl fails: continue.
ReadCtrlFails ==
  /\ At("read_ctrl")
  /\ GoTo("top")
  /\ measure' = Measure0
  /\ UNCHANGED <<rest, aligned, ignore, missed, calib, asked, left, pmVars, stop, status, saver>>

\* Fault: the input after a phase jump is not ignored.
FaultReadCtrl ==
  /\ At("read_ctrl")
  /\ GoTo("process")
  /\ ignore' = FALSE
  /\ UNCHANGED <<rest, aligned, measure, missed, calib, asked, left, pmVars, stop, status, saver>>

\* Both reads succeed; the first input after a phase jump is ignored.
ReadCtrl ==
  /\ At("read_ctrl")
  /\ GoTo(IF ignore THEN "top" ELSE "process")
  /\ ignore' = FALSE
  /\ measure' = IF ignore THEN Measure0 ELSE measure
  /\ UNCHANGED <<rest, aligned, missed, calib, asked, left, pmVars, stop, status, saver>>

\* od_process consumes the input, which is then reset.
FeedAlgorithm ==
  /\ At("process")
  /\ asked' = (asked /\ ~calib)
  /\ calib' = FALSE
  /\ measure' = Measure0
  /\ UNCHANGED aligned

\* After the action of an iteration: the periodic save may be due.
PeriodicSave == saver' \in {saver, "run"}

\* NO_OP, the ADJUST_ actions and SAVE_DISCIPLINING_PARAMETERS.
ProcessAdjust ==
  /\ FeedAlgorithm
  /\ GoTo("monitor")
  /\ PeriodicSave
  /\ UNCHANGED <<rest, ignore, missed, left, pmVars, stop, status>>

\* One input will be ignored: not enough if the phasemeter thread is behind the PHC.
ProcessPhaseJump ==
  /\ FeedAlgorithm
  /\ \/ /\ StepClock /\ ignore' = TRUE /\ missed' = ~Drained
        /\ GoTo("monitor") /\ PeriodicSave
     \/ UNCHANGED <<pmVars, status, ignore, missed, saver>> /\ ExitWith("failure")
  /\ UNCHANGED <<rest, left, stop>>

ProcessCalibrate ==
  /\ FeedAlgorithm
  /\ left' = NbMeasures
  /\ GoTo("calib_next")
  /\ UNCHANGED <<rest, ignore, missed, pmVars, stop, status, saver>>

\* od_process fails, or od_get_calibration_parameters returns NULL.
ProcessFails ==
  /\ FeedAlgorithm
  /\ ExitWith("failure")
  /\ UNCHANGED <<rest, ignore, missed, left, pmVars, stop, status, saver>>

\* oscillator_calibrate returned NULL: break on a signal, failure otherwise.
CalibrationAborted == IF loop THEN ExitWith("failure") ELSE GoTo("shutdown")

\* Between two measures of mRo50_oscillator_calibrate: the loop tests, and the
\* writing of the next control point, which may fail.
CalibrateNext ==
  /\ At("calib_next") /\ left > 0
  /\ \/ loop /\ GoTo("calib_phase")
     \/ CalibrationAborted
  /\ UNCHANGED <<rest, inVars, pmVars, stop, status, saver>>

\* A measure needs both pulses; then gnss_get_epoch_data blocks.
CalibrateMeasure ==
  /\ At("calib_phase")
  /\ IF status.status = "BOTH" THEN GoTo("calib_epoch") ELSE CalibrationAborted
  /\ UNCHANGED <<rest, inVars, pmVars, stop, status, saver>>

CalibrateEpoch ==
  /\ At("calib_epoch")
  /\ left' = left - 1
  /\ GoTo("calib_next")
  /\ UNCHANGED <<rest, aligned, measure, ignore, missed, calib, asked, pmVars, stop, status, saver>>

\* All measures taken: od_calibrate.
CalibrateDone ==
  /\ At("calib_next") /\ left = 0
  /\ GoTo("monitor")
  /\ PeriodicSave
  /\ UNCHANGED <<rest, inVars, pmVars, stop, status>>

\* The monitoring step: take the pending request, leave REQUEST_NONE, act.
MonitorStep ==
  /\ At("monitor")
  /\ request' = "NONE"
  /\ calib' = (calib \/ request = "CALIBRATION")
  /\ asked' = (asked \/ request = "CALIBRATION")
  /\ saver' = IF request = "SAVE_EEPROM" THEN "run" ELSE saver
  /\ GoTo("top")
  /\ UNCHANGED <<loop, gnssVars, aligned, measure, ignore, missed, left, pmVars, stop, status>>

-----------------------------------------------------------------------------
(* Shutdown.                                                               *)

StopGnss ==
  /\ At("shutdown")
  /\ gstop' = TRUE
  /\ GoTo("join_gnss")
  /\ UNCHANGED <<loop, request, gthr, inVars, pmVars, stop, status, saver>>

JoinGnss ==
  /\ At("join_gnss") /\ gthr = "exited"
  /\ GoTo("join_saver")
  /\ UNCHANGED <<rest, inVars, pmVars, stop, status, saver>>

\* pthread_join(save_dsc_params_thread).  If no such thread was ever created
\* the handle is 0: undefined behaviour, an error return or a crash.
JoinSaver ==
  /\ At("join_saver")
  /\ \/ saver \in {"done", "none"} /\ GoTo("stop_pm")
     \/ saver = "none" /\ ExitWith("crash")
  /\ UNCHANGED <<rest, inVars, pmVars, stop, status, saver>>

\* Fault: phasemeter_stop joins without raising stop.
FaultStopPhasemeter ==
  /\ At("stop_pm")
  /\ GoTo("join_pm")
  /\ UNCHANGED <<rest, inVars, pmVars, stop, status, saver>>

StopPhasemeter ==
  /\ At("stop_pm")
  /\ stop' = TRUE
  /\ GoTo("join_pm")
  /\ UNCHANGED <<rest, inVars, pmVars, status, saver>>

\* The thread has ended; the parameters are written and od is destroyed.
JoinPhasemeter ==
  /\ At("join_pm") /\ thr = "exited"
  /\ ExitWith("success")
  /\ UNCHANGED <<rest, inVars, pmVars, stop, status, saver>>

-----------------------------------------------------------------------------

Environment == SignalHandler \/ MonitoringRequest \/ \E s \in Sources : Pulse(s)
PhasemeterThread == ReadFirst \/ ReadSecond \/ ReadSecondTooFar \/ Publish
Others == SpuriousWakeup \/ GnssData \/ GnssTime \/ GnssExit \/ SaverEnds
Startup == \/ ClockUnset \/ ClockSetTime \/ ClockSet \/ ClockCheck \/ ClockChecked
           \/ InitialRetry \/ InitialJump
Iteration ==
  \/ LoopTop \/ GotPhaseError \/ GotEpoch \/ ReadCtrlFails \/ ReadCtrl
  \/ ProcessAdjust \/ ProcessPhaseJump \/ ProcessCalibrate \/ ProcessFails
  \/ CalibrateNext \/ CalibrateMeasure \/ CalibrateEpoch \/ CalibrateDone \/ MonitorStep
Shutdown == StopGnss \/ JoinGnss \/ JoinSaver \/ StopPhasemeter \/ JoinPhasemeter
Main == Startup \/ Iteration \/ Shutdown

Terminated == ~Running /\ UNCHANGED vars

Next == Environment \/ PhasemeterThread \/ Others \/ Main \/ Terminated

Spec == Init /\ [][Next]_vars

\* The internal PPS never stops, every thread is scheduled, pulses of both
\* signals cannot stay more than 500 ms apart for ever, the GNSS thread times
\* out at the latest (GNSS_TIMEOUT_MS), and the oscillator answers again and
\* again.  Nothing is assumed of the GNSS receiver's PPS, of its fix (hence of
\* GnssTime), of the clients or of the signals.  That the GNSS thread signals and
\* ends (GnssData, GnssExit) takes no RTCM client to block it: Blocked in Rtcm.
Fairness ==
  /\ WF_vars(Pulse(INT))
  /\ WF_vars(ReadFirst) /\ SF_vars(ReadSecond) /\ WF_vars(Publish)
  /\ WF_vars(GnssData) /\ WF_vars(GnssExit) /\ WF_vars(SaverEnds)
  /\ WF_vars(Main) /\ SF_vars(ReadCtrl)

FairSpec == Spec /\ Fairness

-----------------------------------------------------------------------------
(* Properties                                                              *)

Pulses == [src: Sources, old: BOOLEAN]

\* Types; in particular every publication is one of the phasemeter statuses
\* and every wake-up belongs to a wait.
TypeOK ==
  /\ loop \in BOOLEAN /\ exit \in {"no", "success", "failure", "crash"}
  /\ main \in Waits \cup Stretches
  /\ woken \in BOOLEAN /\ (woken => main \in Waits) /\ aligned \in BOOLEAN
  /\ measure \in [status: Status, old: BOOLEAN]
  /\ status \in [status: Status, old: BOOLEAN]
  /\ ignore \in BOOLEAN /\ missed \in BOOLEAN /\ calib \in BOOLEAN /\ asked \in BOOLEAN
  /\ left \in 0 .. NbMeasures /\ request \in Requests \cup {"NONE"}
  /\ fifo \in Seq(Pulses) /\ Len(fifo) <= MaxQueue
  /\ thr \in {"first", "second", "publish", "exited"}
  /\ ts1 \in Pulses /\ ts2 \in Pulses /\ outcome \in {"BOTH", "MISSING"}
  /\ lstop \in BOOLEAN /\ stop \in BOOLEAN /\ gstop \in BOOLEAN
  /\ gthr \in {"run", "exited"} /\ saver \in {"none", "run", "done"}

\* Neither the disciplining algorithm nor a calibration is given a phase error
\* that was measured, even in part, before the last phase jump: what
\* ignore_next_irq is for.  Excepted (missed) is what one ignored input cannot
\* cover: timestamps that the phasemeter thread had not read or published by the
\* jump, and a phase wait that has returned without a signal since.
FreshAfterJump ==
  ~missed =>
    /\ main = "process" /\ measure.status = "BOTH" => ~measure.old
    /\ main = "calib_phase" /\ woken /\ status.status = "BOTH" => ~status.old

\* A calibration request that the main thread has taken out of the monitoring
\* structure reaches od_process, through failed reads (continue) and ignored
\* inputs, unless the daemon ends first.
CalibrationReachesAlgorithm == asked ~> (~asked \/ ~Running)

\* A signal ends the daemon, wherever main is and whatever it waits for, as
\* long as it is neither in the initial phase measurement nor waiting for a
\* TAI time: nobody waits for ever in a condition variable or a join, if the GNSS
\* thread is not blocked in the RTCM send, which Fairness takes for granted.  A
\* crash in the join of a save thread that never was counts as an end.
SignalEndsDaemon ==
  (~loop /\ main \notin {"initial"} \cup TimeWaits) ~> (~Running \/ main \in TimeWaits)

=============================================================================
