-------------------------------- MODULE Gnss --------------------------------
(***************************************************************************)
(* What the GNSS thread learns from the receiver and hands to the main     *)
(* thread (src/gnss.c): fix and validity, the TAI time, the quantization   *)
(* error of the pulses, leap seconds and survey.  The main thread first    *)
(* sets the PTP clock (gnss_set_ptp_clock_time), then pairs, second after  *)
(* second, the phase of a pulse with its quantization error.               *)
(*                                                                         *)
(* Second n begins with pulse n.  The receiver then announces pulse n + 1  *)
(* in UBX-TIM-TP, and afterwards completes the epoch of second n; any      *)
(* message may be lost.  Handlers run under mutex_data, one step each; a   *)
(* wait returns in a step of its own, when main got the mutex again.       *)
(*                                                                         *)
(* All times are relative to the second in progress: a TAI time is 0 when  *)
(* it is that of this second, -1 for the last one; a quantization error    *)
(* and a phase are named by their pulse in the same way, 1 for the next.   *)
(* Values older than MaxAge are not told apart.                            *)
(***************************************************************************)
EXTENDS Integers

CONSTANTS
  MaxAge,     \* bound: seconds that ages are counted to
  PhcErrors,  \* errors of the PTP clock at start, in seconds
  Timebases   \* what the receiver announces pulses in: "GNSS", "UTC"

ASSUME GnssAssumption ==
  /\ MaxAge \in Nat \ {0} /\ PhcErrors \subseteq Int /\ Timebases \subseteq {"GNSS", "UTC"}

VARIABLES
  todo,                  \* which of Messages may still come in this second
  timebase,
  valid, fixOk,          \* session: navigation data; fixOk includes fix >= EPOCH_FIX_TIME
  tai_time, tai_time_set,
  qErr, qErr_last_epoch, \* pulses that these are the errors of
  lsset,                 \* context->lsset
  survey,                \* session->survey_completed
  phase,                 \* pulse of the phase that the phasemeter published last
  main, woken,           \* what main waits for, or does; it was signalled
  gnss_time,             \* the TAI time it got
  phc,                   \* error of the PTP clock
  input,                 \* the pulses of its phase and of its qErr, and valid
  announced,             \* history: TIM-TP was used in this and the last second
  prompt,                \* history: main read this second's phase in this second
  fresh                  \* history: TIM-TP was used since main got the time to set

nav     == <<valid, fixOk>>
session == <<valid, fixOk, tai_time, tai_time_set, qErr, qErr_last_epoch, lsset, survey>>
vars    == <<todo, timebase, valid, fixOk, tai_time, tai_time_set, qErr,
             qErr_last_epoch, lsset, survey, phase, main, woken, gnss_time, phc, input,
             announced, prompt, fresh>>

Messages == {"tim_tp", "epoch"}
DataWaits == {"clock_unset", "clock_set", "check", "epoch"}  \* gnss_get_epoch_data
TimeWaits == {"settime", "checktime"}                        \* gnss_get_next_fix_tai_time
Waits == DataWaits \cup TimeWaits \cup {"phase"}             \* and get_phase_error

NoInput == [phase |-> -MaxAge, qErr |-> -MaxAge, valid |-> FALSE]

\* gnss_init has reset the session, which main() cleared before.
Init ==
  /\ todo = Messages /\ timebase \in Timebases
  /\ valid = FALSE /\ fixOk = FALSE
  /\ tai_time = -MaxAge /\ tai_time_set = FALSE
  /\ qErr = -MaxAge /\ qErr_last_epoch = -MaxAge
  /\ lsset = FALSE /\ survey = FALSE /\ phase = -MaxAge
  /\ main = "clock_unset" /\ woken = FALSE /\ gnss_time = 0
  /\ phc \in PhcErrors /\ input = NoInput
  /\ announced = <<FALSE, FALSE>> /\ prompt = FALSE /\ fresh = FALSE

-----------------------------------------------------------------------------
(* Time                                                                    *)

Older(t) == IF t > -MaxAge THEN t - 1 ELSE t

\* The next second.  While the clock is being set, announcements are missing for
\* less than MaxAge seconds.
Tick ==
  /\ tai_time_set /\ main \notin {"phase", "epoch", "process"} => tai_time > -MaxAge
  /\ todo' = Messages
  /\ tai_time' = Older(tai_time) /\ phase' = Older(phase)
  /\ qErr' = Older(qErr) /\ qErr_last_epoch' = Older(qErr_last_epoch)
  /\ gnss_time' = IF main \in {"set", "compare"} THEN Older(gnss_time) ELSE 0
  /\ input' = [input EXCEPT !.phase = Older(@), !.qErr = Older(@)]
  /\ announced' = <<FALSE, announced[1]>>
  /\ prompt' = FALSE
  /\ UNCHANGED <<timebase, nav, tai_time_set, lsset, survey, main, woken, phc, fresh>>

\* phasemeter_thread publishes the phase of this second's pulses.
PublishPhase ==
  /\ phase < 0
  /\ phase' = 0
  /\ woken' = (woken \/ main = "phase")
  /\ UNCHANGED <<todo, timebase, session, main, gnss_time, phc, input, announced,
                 prompt, fresh>>

-----------------------------------------------------------------------------
(* gnss_thread, one message per round                                      *)

Signal(waits) == woken' = (woken \/ main \in waits)
Silent == UNCHANGED <<timebase, phase, main, woken, gnss_time, phc, input, prompt>>
Loud == UNCHANGED <<timebase, phase, main, gnss_time, phc, input, announced, prompt, fresh>>

\* gnss_parse_ubx_nav_timels: the leap seconds are known or not (any more).
Timels(known) ==
  /\ lsset' = known
  /\ Silent
  /\ UNCHANGED <<todo, nav, tai_time, tai_time_set, qErr, qErr_last_epoch, survey,
                 announced, fresh>>

\* Fault: the error of the announced pulse is handed out with the last one.
FaultTimTpUsed ==
  /\ tai_time' = 0 /\ tai_time_set' = TRUE
  /\ qErr_last_epoch' = 1 /\ qErr' = 1
  /\ announced' = <<TRUE, announced[2]>> /\ fresh' = TRUE

\* The announcement of the next pulse, taken back by one second.
TimTpUsed ==
  /\ tai_time' = 0 /\ tai_time_set' = TRUE
  /\ qErr_last_epoch' = qErr /\ qErr' = 1
  /\ announced' = <<TRUE, announced[2]>> /\ fresh' = TRUE

\* gnss_parse_ubx_tim_tp: a UTC time needs the leap seconds; a time reference
\* that the code does not handle is dropped.
TimTp ==
  /\ "tim_tp" \in todo /\ todo' = todo \ {"tim_tp"}
  /\ \/ (timebase = "UTC" => lsset) /\ TimTpUsed
     \/ UNCHANGED <<tai_time, tai_time_set, qErr, qErr_last_epoch, announced, fresh>>
  /\ Silent
  /\ UNCHANGED <<nav, lsset, survey>>

\* gnss_parse_ubx_tim_svin: completed, in progress or failed.
TimSvin(completed) ==
  /\ survey' = (survey \/ completed)
  /\ Silent
  /\ UNCHANGED <<todo, nav, tai_time, tai_time_set, qErr, qErr_last_epoch, lsset,
                 announced, fresh>>

\* UBX-TIM-TP does not come after the epoch it belongs to.
EpochEnds == "epoch" \in todo /\ todo' = {}
EpochSignals == Signal(DataWaits \cup IF tai_time_set THEN TimeWaits ELSE {})

\* An epoch with a fix, good enough or not: fix >= EPOCH_FIX_TIME, fixOk and
\* more than NUM_SAT_MIN satellites.
EpochFix(ok) ==
  /\ EpochEnds
  /\ fixOk' = ok /\ valid' = ok
  /\ EpochSignals
  /\ Loud
  /\ UNCHANGED <<tai_time, tai_time_set, qErr, qErr_last_epoch, lsset, survey>>

\* Without a fix: valid is left as it was.
EpochNoFix ==
  /\ EpochEnds
  /\ fixOk' = FALSE /\ valid' = valid
  /\ EpochSignals
  /\ Loud
  /\ UNCHANGED <<tai_time, tai_time_set, qErr, qErr_last_epoch, lsset, survey>>

\* gnss_reset_session_navigation_data
ResetData == fixOk' = FALSE /\ valid' = FALSE

\* UBX-MON-RF: the antenna is not powered.
AntennaOff ==
  /\ ResetData
  /\ Signal(DataWaits)
  /\ Loud
  /\ UNCHANGED <<todo, tai_time, tai_time_set, qErr, qErr_last_epoch, lsset, survey>>

\* GNSS_TIMEOUT_MS without a message: the serial link is opened again.
Timeout ==
  /\ todo = Messages
  /\ todo' = {}
  /\ ResetData
  /\ Signal(DataWaits)
  /\ Loud
  /\ UNCHANGED <<tai_time, tai_time_set, qErr, qErr_last_epoch, lsset, survey>>

GnssThread ==
  \/ \E b \in BOOLEAN : Timels(b) \/ TimSvin(b) \/ EpochFix(b)
  \/ TimTp
  \/ EpochNoFix \/ AntennaOff \/ Timeout

-----------------------------------------------------------------------------
(* The main thread                                                         *)

rest == <<todo, timebase, session, phase, announced>>

At(point) == main = point /\ (point \in Waits => woken)
GoTo(point) == main' = point /\ woken' = FALSE

\* gnss_set_ptp_clock_time: valid data start a wait for the next TAI time, to
\* set the clock or to check it; others another round.
ClockData ==
  /\ \/ At("clock_unset") /\ GoTo(IF valid THEN "settime" ELSE "clock_unset")
     \/ At("clock_set") /\ GoTo(IF valid THEN "check" ELSE "clock_set")
     \/ At("check") /\ GoTo(IF valid THEN "checktime" ELSE "clock_unset")
  /\ UNCHANGED <<rest, gnss_time, phc, input, prompt, fresh>>

\* gnss_get_next_fix_tai_time returns; the clock is looked at afterwards.
GotTime ==
  /\ \/ At("settime") /\ GoTo("set") /\ fresh' = FALSE
     \/ At("checktime") /\ GoTo("compare") /\ fresh' = fresh
  /\ gnss_time' = tai_time
  /\ UNCHANGED <<rest, phc, input, prompt>>

\* The seconds of the clock are set, nanoseconds kept; this may fail.
SetTime ==
  /\ At("set")
  /\ \/ phc' = gnss_time /\ GoTo("clock_set")
     \/ phc # gnss_time /\ phc' = phc /\ GoTo("clock_unset")
  /\ gnss_time' = 0
  /\ UNCHANGED <<rest, input, prompt, fresh>>

\* Fault: a clock that was just set is not compared.
FaultCompareTime ==
  /\ At("compare")
  /\ GoTo("phase")
  /\ gnss_time' = 0
  /\ UNCHANGED <<rest, phc, input, prompt, fresh>>

\* Two equal times end gnss_set_ptp_clock_time.
CompareTime ==
  /\ At("compare")
  /\ GoTo(IF phc = gnss_time THEN "phase" ELSE "clock_unset")
  /\ gnss_time' = 0
  /\ UNCHANGED <<rest, phc, input, prompt, fresh>>

\* The main loop: get_phase_error, then gnss_get_epoch_data.
GotPhase ==
  /\ At("phase")
  /\ input' = [NoInput EXCEPT !.phase = phase]
  /\ prompt' = (phase = 0)
  /\ GoTo("epoch")
  /\ UNCHANGED <<rest, gnss_time, phc, fresh>>

GotEpoch ==
  /\ At("epoch")
  /\ input' = [input EXCEPT !.qErr = qErr_last_epoch, !.valid = valid]
  /\ GoTo("process")
  /\ UNCHANGED <<rest, gnss_time, phc, prompt, fresh>>

\* od_process, and the rest of the round.
Process ==
  /\ At("process")
  /\ input' = NoInput
  /\ GoTo("phase")
  /\ UNCHANGED <<rest, gnss_time, phc, prompt, fresh>>

Main == \/ ClockData \/ GotTime \/ SetTime \/ CompareTime \/ GotPhase
        \/ GotEpoch \/ Process

Next == Tick \/ PublishPhase \/ GnssThread \/ Main

Spec == Init /\ [][Next]_vars

-----------------------------------------------------------------------------
(* Properties                                                              *)

Ages == -MaxAge .. 0

TypeOK ==
  /\ todo \subseteq Messages /\ timebase \in Timebases
  /\ {valid, fixOk, tai_time_set, lsset, survey, woken, prompt, fresh} \subseteq BOOLEAN
  /\ {tai_time, phase, gnss_time} \subseteq Ages
  /\ {qErr, qErr_last_epoch} \subseteq Ages \cup {1}
  /\ main \in Waits \cup {"set", "compare", "process"}
  /\ phc \in PhcErrors \cup Ages
  /\ input \in [phase: Ages, qErr: Ages \cup {1}, valid: BOOLEAN]
  /\ announced \in BOOLEAN \X BOOLEAN

\* The algorithm gets the phase of a pulse together with the quantization error
\* of the same pulse, if the announcements of this second and of the last were
\* used by then and main did both in the second of the pulse: qErr is kept for one
\* second in qErr_last_epoch.
QErrOfPhase ==
  [][main = "epoch" /\ main' = "process" /\ prompt /\ announced = <<TRUE, TRUE>>
       => input'.qErr = input'.phase]_vars

\* A TAI time that stands still, because the announcements stopped or lost their
\* leap seconds, never passes for a running clock: gnss_set_ptp_clock_time ends
\* with a wrong clock only if an announcement was used after main had read the
\* time that it set the clock to.
FrozenTimeCaught ==
  [][main = "compare" /\ main' = "phase" /\ phc # 0 => fresh]_vars

\* "valid Output Flags indicating GNSS data are valid (Fix >= 2D + FixOk)"
\* (gnss_get_epoch_data): what the algorithm is told.
ValidMeansFix == valid => fixOk

=============================================================================
