-------------------------------- MODULE Sa5x --------------------------------
(***************************************************************************)
(* The driver of the SA5x atomic clock (src/oscillators/sa5x_oscillator.c) *)
(* in the monitoring loop of src/oscillatord.c.  The clock disciplines     *)
(* itself to the PPS; the driver watches it, chooses its time constant TAU *)
(* in three phases, each longer than the last, derives the clock class,    *)
(* and brings a clock back whose tuning is at its limit (the latch         *)
(* sequence: disciplining off, latch, disciplining on again).              *)
(*                                                                         *)
(* Every command may fail; MaxFaults bounds how often.  A round is at one  *)
(* instant, time passes between rounds.  Times are ages, counted as far as *)
(* they are compared.  status.status goes with the class and is left out.  *)
(***************************************************************************)
EXTENDS Naturals, FiniteSets

CONSTANTS
  Interval0, Interval1,  \* tau_interval of the first two phases
  NoFixTimeout,          \* NO_GNSS_FIX_TIMEOUT
  Day,                   \* 24 h
  MaxFaults              \* bound: commands that fail

ASSUME Sa5xAssumption ==
  /\ {Interval0, Interval1, NoFixTimeout, Day, MaxFaults} \subseteq Nat
  /\ Interval0 < Interval1 /\ NoFixTimeout <= Day

Phases == 0 .. 2
Classes == {"UNCALIBRATED", "CALIBRATING", "HOLDOVER", "LOCK"}
Interval(p) == IF p = 0 THEN Interval0 ELSE Interval1

\* Readings of the clock that get_ctrl uses, in the order of the commands.
Readings == {"disciplinelocked", "ppsindetected", "digitaltuning", "lastcorrection",
             "alarms", "disciplining", "phase"}

VARIABLES
  disciplining, tau,   \* of the clock; tau is the phase it is meant for
  outOfRange,          \* its tuning is at the limit
  locked, pps,         \* DisciplineLocked, PpsInDetected
  phase0,              \* Phase is 0
  latch_fixed,         \* its firmware needs no latch
  clock_class, disciplining_phase, holdover_ready,
  gnss_fix_status,
  sinceStart, sinceFix, sinceLatch,  \* ages of disciplining_start, ...
  pc,                  \* control point of the round
  a,                   \* struct sa5x_attributes
  latch, retry,        \* get_ctrl decided to latch; tries left
  faults,
  tauLost              \* history: the last command to set TAU failed

clock  == <<disciplining, tau, outOfRange, locked, pps, phase0, latch_fixed>>
driver == <<clock_class, disciplining_phase, holdover_ready>>
ages   == <<sinceStart, sinceFix, sinceLatch>>
sa5xVars   == <<disciplining, tau, outOfRange, locked, pps, phase0, latch_fixed, clock_class,
              disciplining_phase, holdover_ready, gnss_fix_status, sinceStart, sinceFix,
              sinceLatch, pc, a, latch, retry, faults, tauLost>>

NoAttributes == [disciplinelocked |-> FALSE, pps |-> FALSE, atLimit |-> FALSE,
                 correction |-> FALSE, alarms |-> {}, disciplining |-> FALSE,
                 phase0 |-> FALSE]

\* sa5x_oscillator_new; the times are zero, which is the start of the machine.
\* The command that sets TAU may fail.
Sa5xInit ==
  /\ disciplining = TRUE /\ outOfRange \in BOOLEAN /\ locked = FALSE /\ pps \in BOOLEAN
  /\ phase0 = FALSE /\ latch_fixed \in BOOLEAN
  /\ clock_class = "CALIBRATING" /\ disciplining_phase = 0 /\ holdover_ready = FALSE
  /\ gnss_fix_status = FALSE
  /\ sinceStart = 0 /\ sinceFix \in {0, Day + 1} 
  /\ sinceLatch = IF sinceFix = 0 THEN 0 ELSE Interval0 + 1
  /\ pc = "push" /\ a = NoAttributes /\ latch = FALSE /\ retry = 0
  /\ \/ tau = 0 /\ faults = 0 /\ tauLost = FALSE
     \/ tau = 2 /\ faults = 1 /\ tauLost = TRUE /\ MaxFaults > 0

Older(t, last) == IF t > last THEN t ELSE t + 1

Failing == faults < MaxFaults /\ faults' = faults + 1
Working == UNCHANGED faults

-----------------------------------------------------------------------------
(* The clock                                                               *)

\* Time passes.  The tuning may drift to its limit, and back while the clock is
\* disciplined.  After a latch Phase stays 0 until disciplining is on again.
Tick ==
  /\ pc = "tick"
  /\ pps' \in BOOLEAN
  /\ outOfRange' \in IF disciplining THEN BOOLEAN ELSE {outOfRange}
  /\ locked' \in BOOLEAN /\ (locked' => disciplining /\ pps' /\ ~outOfRange')
  /\ phase0' = (phase0 /\ ~disciplining)
  /\ sinceStart' = Older(sinceStart, Interval1) /\ sinceFix' = Older(sinceFix, Day)
  /\ sinceLatch' = Older(sinceLatch, Interval0)
  /\ pc' = "push" /\ a' = NoAttributes /\ latch' = FALSE /\ retry' = 0
  /\ UNCHANGED <<disciplining, tau, latch_fixed, driver, gnss_fix_status, faults, tauLost>>

-----------------------------------------------------------------------------
(* One round of the main loop                                              *)

\* sa5x_oscillator_push_gnss_info
PushGnssInfo(fixOk) ==
  /\ pc = "push"
  /\ gnss_fix_status' = fixOk
  /\ sinceFix' = IF fixOk THEN 0 ELSE sinceFix
  /\ pc' = "attributes"
  /\ UNCHANGED <<clock, driver, sinceStart, sinceLatch, a, latch, retry, faults, tauLost>>

\* sa5x_oscillator_get_attributes: a reading that is lost stays 0.  Only alarms
\* may take what was read before them, TAU or a flag: no alarm of interest (bits 17
\* and 18), but perhaps not 0 either; and a Phase that is lost is anything.
Attributes(lost, p0, stale) ==
  [disciplinelocked |-> locked /\ "disciplinelocked" \notin lost,
   atLimit |-> outOfRange /\ "digitaltuning" \notin lost,
   correction |-> disciplining /\ ~outOfRange /\ "lastcorrection" \notin lost,
   pps |-> pps,
   alarms |-> IF "alarms" \in lost THEN stale
              ELSE {n \in {17, 18} : disciplining /\ (n = 17 => ~pps) /\ (n = 18 => outOfRange)},
   disciplining |-> disciplining /\ "disciplining" \notin lost,
   phase0 |-> IF "phase" \in lost THEN p0 ELSE phase0]

\* Without the state of the PPS get_ctrl does nothing; with an answer that is not
\* a number it goes on with all readings 0.
GetAttributes ==
  /\ pc = "attributes"
  /\ \E lost \in SUBSET Readings, p0 \in BOOLEAN, stale \in SUBSET {0} :
       /\ Cardinality(lost) <= MaxFaults - faults
       /\ faults' = faults + Cardinality(lost)
       /\ IF "ppsindetected" \in lost
          THEN (pc' = "tick" /\ UNCHANGED a) \/ (pc' = "decide" /\ a' = NoAttributes)
          ELSE pc' = "reenable" /\ a' = Attributes(lost, p0, stale)
  /\ UNCHANGED <<clock, driver, gnss_fix_status, ages, latch, retry, tauLost>>

\* A clock that does not report disciplining as on is switched on if Phase is 0.
Reenable ==
  /\ pc = "reenable"
  /\ IF ~a.disciplining /\ a.phase0
     THEN (disciplining' = TRUE /\ Working) \/ (UNCHANGED disciplining /\ Failing)
     ELSE UNCHANGED disciplining /\ Working
  /\ pc' = "decide"
  /\ UNCHANGED <<tau, outOfRange, locked, pps, phase0, latch_fixed, driver, gnss_fix_status,
                 ages, a, latch, retry, tauLost>>

\* Fault: a latch is made on an alarm only.
FaultLatchNeeded == ~a.correction /\ ~latch_fixed /\ 18 \in a.alarms

\* get_ctrl: is a latch needed?  One without an alarm waits for the last one.
LatchNeeded ==
  /\ ~a.correction /\ ~latch_fixed
  /\ \/ 18 \in a.alarms
     \/ a.alarms = {} /\ ~a.disciplinelocked /\ a.atLimit /\ sinceLatch > Interval0

Decide ==
  /\ pc = "decide"
  /\ latch' = LatchNeeded
  /\ retry' = 3
  /\ pc' = IF LatchNeeded THEN "latch" ELSE "status"
  /\ UNCHANGED <<clock, driver, gnss_fix_status, ages, a, faults, tauLost>>

\* sa5x_oscillator_latch, its loop: a command to switch disciplining off, which
\* the clock may not obey in time, and a look at the outcome; one of the two
\* commands may fail.
LatchOff ==
  /\ pc = "latch" /\ retry > 0 /\ a.disciplining
  /\ \/ /\ disciplining' = FALSE /\ Working
        /\ a' = [a EXCEPT !.disciplining = FALSE] /\ retry' = retry - 1 /\ UNCHANGED pc
     \/ /\ UNCHANGED <<disciplining, a>> /\ Failing
        /\ retry' = retry - 1 /\ UNCHANGED pc
     \/ /\ disciplining' \in {disciplining, FALSE} /\ Failing
        /\ pc' = "status" /\ UNCHANGED <<a, retry>>
  /\ locked' = (locked /\ disciplining')
  /\ UNCHANGED <<tau, outOfRange, pps, phase0, latch_fixed, driver, gnss_fix_status, ages,
                 latch, tauLost>>

\* Then the latch itself; it gives up when no try is left, though the last one
\* worked.
LatchCommand ==
  /\ pc = "latch" /\ (retry = 0 \/ ~a.disciplining)
  /\ \/ retry = 0 /\ Working /\ UNCHANGED <<outOfRange, phase0, sinceLatch>>
     \/ retry > 0 /\ Failing /\ UNCHANGED <<outOfRange, phase0, sinceLatch>>
     \/ retry > 0 /\ Working /\ outOfRange' = FALSE /\ phase0' = ~disciplining /\ sinceLatch' = 0
  /\ pc' = "status"
  /\ UNCHANGED <<disciplining, tau, locked, pps, latch_fixed, driver, gnss_fix_status,
                 sinceStart, sinceFix, a, retry, latch, tauLost>>

-----------------------------------------------------------------------------
(* get_ctrl, the state of the disciplining                                 *)

Holdover == (~gnss_fix_status /\ sinceFix >= NoFixTimeout) \/ ~a.pps \/ 17 \in a.alarms

\* The state before the phase is looked at: class, phase, age of the start, and
\* whether TAU is to be set.

\* Fault: the clock is not told its smaller TAU.
FaultRestarted == [class |-> "CALIBRATING", phase |-> 0, start |-> 0, adjust |-> FALSE]

\* Fault: TAU is set in every round.
FaultKept(class) ==
  [class |-> class, phase |-> disciplining_phase, start |-> sinceStart, adjust |-> TRUE]

Restarted == [class |-> "CALIBRATING", phase |-> 0, start |-> 0, adjust |-> TRUE]
Kept(class) == [class |-> class, phase |-> disciplining_phase, start |-> sinceStart, adjust |-> latch]

NextState ==
  CASE Holdover ->
         Kept(IF clock_class = "CALIBRATING" \/ sinceFix > Day THEN "UNCALIBRATED" ELSE "HOLDOVER")
    [] ~Holdover /\ latch -> Kept("UNCALIBRATED")
    [] ~Holdover /\ ~latch /\ clock_class \in {"HOLDOVER", "UNCALIBRATED"} -> Restarted
    [] ~Holdover /\ ~latch /\ clock_class = "LOCK" ->
         IF a.disciplinelocked THEN Kept(clock_class) ELSE Restarted
    [] OTHER -> [Kept(clock_class) EXCEPT !.start = IF a.disciplinelocked THEN @ ELSE 0]

\* A phase that lasted long enough ends.
Advances(s) == s.phase < 2 /\ s.start > Interval(s.phase)

UpdateStatus ==
  /\ pc = "status"
  /\ LET s     == NextState
         phase == IF Advances(s) THEN s.phase + 1 ELSE s.phase
     IN  /\ disciplining_phase' = phase /\ sinceStart' = s.start
         /\ IF s.adjust \/ Advances(s)
            THEN /\ (tau' = phase /\ tauLost' = FALSE /\ Working)
                      \/ (UNCHANGED tau /\ tauLost' = TRUE /\ Failing)
                 /\ clock_class' = IF phase = 0 THEN "CALIBRATING" ELSE "LOCK"
                 /\ holdover_ready' = (phase = 2)
            ELSE /\ clock_class' = s.class
                 /\ UNCHANGED <<tau, tauLost, holdover_ready, faults>>
  /\ pc' = "tick"
  /\ UNCHANGED <<disciplining, outOfRange, locked, pps, phase0, latch_fixed,
                 gnss_fix_status, sinceFix, sinceLatch, a, latch, retry>>

Round == \/ \E fixOk \in BOOLEAN : PushGnssInfo(fixOk)
         \/ GetAttributes \/ Reenable \/ Decide \/ LatchOff \/ LatchCommand \/ UpdateStatus
Sa5xNext == Round \/ Tick

\* The main loop goes on, and time passes.
Sa5xSpec == Sa5xInit /\ [][Sa5xNext]_sa5xVars /\ WF_sa5xVars(Round) /\ WF_sa5xVars(Tick)

-----------------------------------------------------------------------------
(* Properties                                                              *)

Attribute == [disciplinelocked: BOOLEAN, pps: BOOLEAN, atLimit: BOOLEAN, correction: BOOLEAN,
              alarms: SUBSET {0, 17, 18}, disciplining: BOOLEAN, phase0: BOOLEAN]

Sa5xTypeOK ==
  /\ {disciplining, outOfRange, locked, pps, phase0, latch_fixed, holdover_ready,
      gnss_fix_status, latch, tauLost} \subseteq BOOLEAN
  /\ tau \in Phases /\ clock_class \in Classes /\ disciplining_phase \in Phases
  /\ sinceStart \in 0 .. Interval1 + 1 /\ sinceFix \in 0 .. Day + 1
  /\ sinceLatch \in 0 .. Interval0 + 1
  /\ pc \in {"tick", "push", "attributes", "reenable", "decide", "latch", "status"}
  /\ a \in Attribute /\ retry \in 0 .. 3 /\ faults \in 0 .. MaxFaults

\* The clock has the TAU of the phase that the driver believes it in, unless the
\* last command to set it failed (it is not repeated); and it is called ready for
\* holdover in the last phase only.
TauOfPhase ==
  (tau = disciplining_phase \/ tauLost) /\ (holdover_ready <=> disciplining_phase = 2)

\* In holdover TAU is kept and the class is one of holdover ("keep TAU unchanged
\* to keep holdover performance"), but for two kinds of round: one in which the
\* phase happened to end, as its age is counted in holdover too, and one with a
\* latch.  Both call the clock locked, or calibrating.
HoldoverKeepsTau ==
  [][pc = "status" /\ Holdover =>
       \/ tau' = tau /\ clock_class' \in {"HOLDOVER", "UNCALIBRATED"}
       \/ disciplining_phase' = disciplining_phase + 1
       \/ latch]_sa5xVars

\* Disciplining that was switched off for a latch comes back, even if the latch
\* failed at any of its commands.
DiscipliningReturns == ~disciplining ~> disciplining

=============================================================================
