----------------------------- MODULE GnssProofs -----------------------------
(***************************************************************************)
(* What the main thread gets from the GNSS thread, for every set of time   *)
(* bases and every age that a time may reach: the quantization error that  *)
(* belongs to the phase, and a PTP clock that was set to a time that runs. *)
(* And the start of the receiver (module GnssConfig), for every set of     *)
(* configuration files and any number of faults, tries and changes by      *)
(* others: a running daemon's receiver is configured, and a restart leaves *)
(* it alone.                                                               *)
(***************************************************************************)
EXTENDS Gnss, GnssConfig, SequenceTheorems, TLAPS

Inputs == [phase: Ages, qErr: Ages \cup {1}, valid: BOOLEAN]

SessionType ==
  /\ todo \subseteq Messages /\ timebase \in Timebases
  /\ valid \in BOOLEAN /\ fixOk \in BOOLEAN /\ tai_time \in Ages /\ tai_time_set \in BOOLEAN
  /\ qErr \in Ages \cup {1} /\ qErr_last_epoch \in Ages \cup {1}
  /\ lsset \in BOOLEAN /\ survey \in BOOLEAN /\ announced \in BOOLEAN \X BOOLEAN
ReaderType ==
  /\ phase \in Ages /\ gnss_time \in Ages
  /\ main \in Waits \cup {"set", "compare", "process"} /\ woken \in BOOLEAN
  /\ phc \in PhcErrors \cup Ages /\ input \in Inputs
  /\ prompt \in BOOLEAN /\ fresh \in BOOLEAN

LEMMA GnssTypeUnfold == TypeOK <=> SessionType /\ ReaderType
BY DEF TypeOK, SessionType, ReaderType, Inputs

LEMMA OlderIs ==
  ASSUME NEW t \in Ages \cup {1}
  PROVE  /\ Older(t) \in Ages
         /\ t = 1 => Older(t) = 0
         /\ t > -MaxAge => Older(t) = t - 1
         /\ t <= -MaxAge => Older(t) = t
BY GnssAssumption DEF Ages, Older

LEMMA AgesAre ==
  /\ Ages \subseteq Int /\ 0 \in Ages /\ -MaxAge \in Ages /\ 1 \notin Ages
         /\ \A t \in Ages : t <= 0
         /\ NoInput \in Inputs
BY GnssAssumption DEF Ages, NoInput, Inputs

LEMMA GnssPoints ==
  /\ Waits = {"clock_unset", "clock_set", "check", "epoch", "settime", "checktime", "phase"}
  /\ DataWaits = {"clock_unset", "clock_set", "check", "epoch"}
  /\ TimeWaits = {"settime", "checktime"}
BY DEF Waits, DataWaits, TimeWaits

\* The session, the clock and the input keep their types.
THEOREM GnssType == Spec => []TypeOK
<1>1. ASSUME Init PROVE TypeOK
  <2>1. SessionType
    BY <1>1, AgesAre DEF Init, SessionType, Messages
  <2>2. ReaderType
    BY <1>1, AgesAre, GnssPoints DEF Init, ReaderType
  <2> QED
    BY <2>1, <2>2, GnssTypeUnfold
<1>2. ASSUME TypeOK, [Next]_vars PROVE TypeOK'
  <2>1. SessionType /\ ReaderType
    BY <1>2, GnssTypeUnfold
  <2>2. CASE Tick
    <3>1. SessionType'
      BY <2>1, <2>2, OlderIs DEF Tick, SessionType, nav
    <3>2. gnss_time' \in Ages
      BY <2>1, <2>2, OlderIs, AgesAre DEF Tick, ReaderType
    <3>3. input' \in Inputs
      BY <2>1, <2>2, OlderIs DEF Tick, ReaderType, Inputs
    <3>4. ReaderType'
      BY <2>1, <2>2, <3>2, <3>3, OlderIs DEF Tick, ReaderType
    <3> QED
      BY <3>1, <3>4 DEF TypeOK, SessionType, ReaderType, Inputs
  <2>3. CASE PublishPhase
    <3>1. SessionType'
      BY <2>1, <2>3 DEF PublishPhase, SessionType, session
    <3>2. woken' \in BOOLEAN
      BY <2>1, <2>3 DEF PublishPhase, ReaderType
    <3>3. ReaderType'
      BY <2>1, <2>3, <3>2, AgesAre DEF PublishPhase, ReaderType
    <3> QED
      BY <3>1, <3>3 DEF TypeOK, SessionType, ReaderType, Inputs
  <2>4. CASE GnssThread
    <3>1. SessionType'
      <4>1. ASSUME NEW b \in BOOLEAN, Timels(b) \/ TimSvin(b) \/ EpochFix(b)
            PROVE  SessionType'
        BY <2>1, <4>1 DEF Timels, TimSvin, EpochFix, EpochEnds, Silent, Loud, nav,
                          SessionType
      <4>2. CASE TimTp
        <5>1. /\ UNCHANGED <<timebase, valid, fixOk, lsset, survey>> /\ todo' \subseteq todo
              /\ \/ /\ tai_time' = 0 /\ tai_time_set' = TRUE /\ qErr_last_epoch' = qErr /\ qErr' = 1
                    /\ announced' = <<TRUE, announced[2]>>
                 \/ UNCHANGED <<tai_time, tai_time_set, qErr, qErr_last_epoch, announced>>
          BY <4>2 DEF TimTp, TimTpUsed, Silent, nav
        <5>2. announced[2] \in BOOLEAN
          BY <2>1 DEF SessionType
        <5>3. announced' \in BOOLEAN \X BOOLEAN
          <6>1. CASE announced' = <<TRUE, announced[2]>>
            BY <5>2, <6>1
          <6>2. CASE announced' = announced
            BY <2>1, <6>2 DEF SessionType
          <6> QED
            BY <5>1, <6>1, <6>2
        <5>4. tai_time' \in Ages /\ tai_time_set' \in BOOLEAN
          BY <2>1, <5>1, AgesAre DEF SessionType
        <5>5. qErr' \in Ages \cup {1} /\ qErr_last_epoch' \in Ages \cup {1}
          BY <2>1, <5>1 DEF SessionType
        <5> QED
          BY <2>1, <5>1, <5>3, <5>4, <5>5 DEF SessionType
      <4>3. CASE EpochNoFix \/ AntennaOff \/ Timeout
        BY <2>1, <4>3 DEF EpochNoFix, EpochEnds, AntennaOff, Timeout, ResetData, Loud,
                          SessionType
      <4> QED
        BY <2>4, <4>1, <4>2, <4>3 DEF GnssThread
    <3>2. /\ UNCHANGED <<phase, main, gnss_time, phc, input, prompt>>
          /\ woken' = woken \/ \E waits : woken' = (woken \/ main \in waits)
          /\ fresh' = fresh \/ fresh' = TRUE
      BY <2>4 DEF GnssThread, Timels, TimSvin, EpochFix, TimTp, TimTpUsed,
                  EpochNoFix, AntennaOff, Timeout, Silent, Loud, EpochSignals,
                  Signal
    <3>3. woken' \in BOOLEAN /\ fresh' \in BOOLEAN
      BY <2>1, <3>2 DEF ReaderType
    <3>4. ReaderType'
      BY <2>1, <3>2, <3>3 DEF ReaderType
    <3> QED
      BY <3>1, <3>4 DEF TypeOK, SessionType, ReaderType, Inputs
  <2>5. CASE Main
    <3>1. SessionType'
      BY <2>1, <2>5 DEF Main, ClockData, GotTime, SetTime, CompareTime, GotPhase,
                        GotEpoch, Process, rest, session, SessionType
    <3>2. ReaderType'
      <4>1. CASE ClockData
        BY <2>1, <4>1, GnssPoints DEF ClockData, GoTo, rest, ReaderType
      <4>2. CASE GotTime
        BY <2>1, <4>2, GnssPoints DEF GotTime, GoTo, rest, ReaderType, SessionType
      <4>3. CASE SetTime
        BY <2>1, <4>3, GnssPoints, AgesAre DEF SetTime, GoTo, rest, ReaderType
      <4>4. CASE CompareTime
        BY <2>1, <4>4, GnssPoints, AgesAre DEF CompareTime, GoTo, rest, ReaderType
      <4>5. CASE GotPhase
        <5>1. input' \in Inputs /\ prompt' \in BOOLEAN
          BY <2>1, <4>5, AgesAre DEF GotPhase, ReaderType, Inputs
        <5> QED
          BY <2>1, <4>5, <5>1, GnssPoints DEF GotPhase, GoTo, rest, ReaderType
      <4>6. CASE GotEpoch
        <5>1. input' \in Inputs
          BY <2>1, <4>6 DEF GotEpoch, ReaderType, SessionType, Inputs
        <5> QED
          BY <2>1, <4>6, <5>1 DEF GotEpoch, GoTo, rest, ReaderType
      <4>7. CASE Process
        BY <2>1, <4>7, GnssPoints, AgesAre DEF Process, GoTo, rest, ReaderType
      <4> QED
        BY <2>5, <4>1, <4>2, <4>3, <4>4, <4>5, <4>6, <4>7 DEF Main
    <3> QED
      BY <3>1, <3>2 DEF TypeOK, SessionType, ReaderType, Inputs
  <2>6. CASE UNCHANGED vars
    BY <1>2, <2>6 DEF vars, TypeOK
  <2> QED
    BY <1>2, <2>2, <2>3, <2>4, <2>5, <2>6 DEF Next
<1> QED
  BY <1>1, <1>2, PTL DEF Spec

\* Where the quantization errors of the last announcements are, and that a prompt
\* reader has the phase of this second.
QErrInv ==
  /\ announced[1] => qErr = 1 /\ "tim_tp" \notin todo
  /\ announced[2] /\ ~announced[1] => qErr = 0
  /\ announced = <<TRUE, TRUE>> => qErr_last_epoch = 0
  /\ main = "epoch" /\ prompt => input.phase = 0

\* Every step of the receiver and of main keeps it.
THEOREM GnssQErrInvariant == Spec => []QErrInv
<1>1. Init => QErrInv
  BY DEF Init, QErrInv
<1>2. ASSUME TypeOK, QErrInv, [Next]_vars PROVE QErrInv'
  <2>1. SessionType /\ ReaderType
    BY <1>2, GnssTypeUnfold
  <2>2. CASE Tick
    <3>1. /\ announced' = <<FALSE, announced[1]>> /\ prompt' = FALSE
          /\ announced[1] => qErr' = 0
      BY <1>2, <2>1, <2>2, OlderIs DEF Tick, QErrInv, SessionType
    <3> QED
      BY <3>1 DEF QErrInv
  <2>3. CASE PublishPhase
    BY <1>2, <2>3 DEF PublishPhase, session, QErrInv
  <2>4. CASE TimTp
    <3>1. "tim_tp" \in todo /\ "tim_tp" \notin todo' /\ ~announced[1]
          /\ UNCHANGED <<main, prompt, input>>
      BY <1>2, <2>4 DEF TimTp, Silent, QErrInv
    <3>2. CASE TimTpUsed
      <4>1. announced' = <<TRUE, announced[2]>> /\ qErr' = 1 /\ qErr_last_epoch' = qErr
        BY <3>2 DEF TimTpUsed
      <4> QED
        BY <1>2, <3>1, <4>1 DEF QErrInv
    <3>3. CASE UNCHANGED <<tai_time, tai_time_set, qErr, qErr_last_epoch, announced, fresh>>
      BY <1>2, <3>1, <3>3 DEF QErrInv
    <3> QED
      BY <2>4, <3>2, <3>3 DEF TimTp
  <2>5. CASE GnssThread /\ ~TimTp
    <3>1. UNCHANGED <<main, prompt, input, qErr, qErr_last_epoch, announced>> /\ todo' \subseteq todo
      BY <2>5 DEF GnssThread, Timels, TimSvin, EpochFix, EpochNoFix, EpochEnds,
                  AntennaOff, Timeout, Silent, Loud
    <3> QED
      BY <1>2, <3>1 DEF QErrInv
  <2>6. CASE GotPhase
    BY <1>2, <2>6 DEF GotPhase, rest, session, NoInput, QErrInv
  <2>7. CASE Main /\ ~GotPhase
    <3>1. UNCHANGED <<todo, qErr, qErr_last_epoch, announced>> /\ main' # "epoch"
      BY <2>7 DEF Main, ClockData, GotTime, SetTime, CompareTime, GotEpoch,
                  Process, GoTo, rest, session
    <3> QED
      BY <1>2, <3>1 DEF QErrInv
  <2>8. CASE UNCHANGED vars
    BY <1>2, <2>8 DEF vars, QErrInv
  <2> QED
    BY <1>2, <2>2, <2>3, <2>4, <2>5, <2>6, <2>7, <2>8 DEF Next
<1> QED
  BY <1>1, <1>2, GnssType, PTL DEF Spec

\* od_process gets a phase with the quantization error of the same pulse, whenever
\* the announcements came and main was prompt.
THEOREM GnssQErrOfPhase == Spec => QErrOfPhase
<1>1. ASSUME TypeOK, QErrInv, [Next]_vars
      PROVE  [main = "epoch" /\ main' = "process" /\ prompt /\ announced = <<TRUE, TRUE>>
                => input'.qErr = input'.phase]_vars
  <2> SUFFICES ASSUME main = "epoch", main' = "process", prompt, announced = <<TRUE, TRUE>>
               PROVE  input'.qErr = input'.phase
    OBVIOUS
  <2>1. GotEpoch
    BY <1>1 DEF Next, Tick, PublishPhase, GnssThread, Timels, TimSvin, EpochFix,
                TimTp, EpochNoFix, AntennaOff, Timeout, Silent, Loud, Main,
                ClockData, GotTime, SetTime, CompareTime, GotPhase, Process, At,
                vars
  <2>2. input \in Inputs
    BY <1>1, GnssTypeUnfold DEF ReaderType
  <2>3. input'.qErr = qErr_last_epoch /\ input'.phase = input.phase
    BY <2>1, <2>2 DEF GotEpoch, Inputs
  <2> QED
    BY <1>1, <2>3 DEF QErrInv
<1> QED
  BY <1>1, GnssType, GnssQErrInvariant, PTL DEF Spec, QErrOfPhase

\* While no announcement comes after the time that the clock is set to, each wait of
\* gnss_set_ptp_clock_time takes an epoch, of which a second has one: the time that
\* is read for the comparison is older than the clock.
FrozenInv ==
  /\ main = "settime" /\ woken => tai_time_set
  /\ ~fresh =>
       /\ main \in {"set", "clock_set", "check", "checktime"} => tai_time_set
       /\ main = "set" => gnss_time = tai_time
       /\ main \in {"clock_set", "check", "checktime"} => phc \in Int /\ tai_time <= phc
       /\ main = "clock_set" /\ woken /\ valid => "epoch" \notin todo \/ tai_time < phc
       /\ main \in {"check", "checktime"} => "epoch" \notin todo \/ tai_time < phc
       /\ main = "checktime" /\ woken => tai_time < phc
       /\ main = "compare" => phc \in Int /\ gnss_time < phc

\* Every step keeps it: the time only ages, and is woken for by an epoch.
THEOREM GnssFrozenInvariant == Spec => []FrozenInv
<1>1. Init => FrozenInv
  BY DEF Init, FrozenInv
<1>2. ASSUME TypeOK, FrozenInv, [Next]_vars PROVE FrozenInv'
  <2>1. SessionType /\ ReaderType
    BY <1>2, GnssTypeUnfold
  <2>2. /\ tai_time \in Int /\ tai_time <= 0 /\ gnss_time \in Int /\ MaxAge \in Nat
        /\ -MaxAge <= tai_time /\ -MaxAge <= gnss_time /\ gnss_time \in Ages /\ tai_time \in Ages
    BY <2>1, GnssAssumption DEF SessionType, ReaderType, Ages
  <2>3. CASE Tick
    <3>1. /\ main' = main /\ woken' = woken /\ phc' = phc /\ fresh' = fresh
          /\ tai_time_set' = tai_time_set /\ tai_time' = Older(tai_time)
          /\ main \in {"set", "compare"} => gnss_time' = Older(gnss_time)
          /\ tai_time_set /\ main \notin {"phase", "epoch", "process"} => tai_time > -MaxAge
      BY <2>3 DEF Tick
    <3>2. /\ tai_time > -MaxAge => tai_time' = tai_time - 1
          /\ Older(gnss_time) \in Int /\ Older(gnss_time) <= gnss_time
      BY <2>2, <3>1 DEF Older
    <3> QED
      BY <1>2, <2>2, <3>1, <3>2 DEF FrozenInv
  <2>4. CASE PublishPhase
    <3>1. UNCHANGED <<todo, valid, tai_time, tai_time_set, main, gnss_time, phc, fresh>>
          /\ (main # "phase" => woken' = woken)
      BY <2>1, <2>4 DEF PublishPhase, session, ReaderType
    <3> QED
      BY <1>2, <3>1 DEF FrozenInv
  <2>5. CASE TimTp
    <3>1. \/ fresh' /\ tai_time_set'
          \/ /\ UNCHANGED <<valid, tai_time, tai_time_set, main, woken, gnss_time, phc, fresh>>
             /\ todo' = todo \ {"tim_tp"}
      BY <2>5 DEF TimTp, TimTpUsed, Silent, nav
    <3> QED
      BY <1>2, <3>1 DEF FrozenInv
  <2>6. ASSUME NEW b \in BOOLEAN, Timels(b) \/ TimSvin(b) PROVE FrozenInv'
    <3>1. UNCHANGED <<todo, valid, tai_time, tai_time_set, main, woken, gnss_time, phc, fresh>>
      BY <2>6 DEF Timels, TimSvin, Silent, nav
    <3> QED
      BY <1>2, <3>1 DEF FrozenInv
  \* An epoch wakes main, once in a second.
  <2>7. CASE EpochNoFix \/ \E b \in BOOLEAN : EpochFix(b)
    <3>1. /\ UNCHANGED <<tai_time, tai_time_set, main, gnss_time, phc, fresh>>
          /\ "epoch" \in todo /\ todo' = {}
          /\ main = "settime" /\ woken' => woken \/ tai_time_set
      BY <2>1, <2>7 DEF EpochNoFix, EpochFix, EpochEnds, EpochSignals, Signal, Loud,
                        DataWaits, ReaderType
    <3> QED
      BY <1>2, <3>1 DEF FrozenInv
  \* What else signals cond_data leaves nothing valid.
  <2>8. CASE AntennaOff \/ Timeout
    <3>1. /\ UNCHANGED <<tai_time, tai_time_set, main, gnss_time, phc, fresh>>
          /\ ~valid' /\ todo' \subseteq todo
          /\ main \in {"settime", "checktime"} => woken' = woken
      BY <2>1, <2>8 DEF AntennaOff, Timeout, ResetData, Signal, Loud, DataWaits,
                        ReaderType
    <3> QED
      BY <1>2, <3>1 DEF FrozenInv
  <2>9. CASE ClockData
    <3>1. UNCHANGED <<todo, valid, tai_time, tai_time_set, gnss_time, phc, fresh>> /\ woken' = FALSE
      BY <2>9 DEF ClockData, GoTo, rest, session
    <3>2. \/ main' \in {"settime", "clock_unset"}
          \/ main = "clock_set" /\ main' = "clock_set"
          \/ main = "clock_set" /\ woken /\ valid /\ main' = "check"
          \/ main = "check" /\ main' = "checktime"
      BY <2>9, GnssPoints DEF ClockData, At, GoTo
    <3> QED
      BY <1>2, <3>1, <3>2 DEF FrozenInv
  <2>10. CASE GotTime
    <3>1. UNCHANGED <<todo, valid, tai_time, tai_time_set, phc>> /\ gnss_time' = tai_time
      BY <2>10 DEF GotTime, rest, session
    <3>2. \/ main = "settime" /\ woken /\ main' = "set" /\ ~fresh'
          \/ main = "checktime" /\ woken /\ main' = "compare" /\ fresh' = fresh
      BY <2>10, GnssPoints DEF GotTime, At, GoTo
    <3>3. CASE main = "settime"
      <4>1. tai_time_set
        BY <1>2, <3>2, <3>3 DEF FrozenInv
      <4> QED
        BY <1>2, <3>1, <3>2, <3>3, <4>1 DEF FrozenInv
    <3>4. CASE main = "checktime"
      BY <1>2, <2>2, <3>1, <3>2, <3>4 DEF FrozenInv
    <3> QED
      BY <3>2, <3>3, <3>4
  <2>11. CASE SetTime
    <3>1. /\ UNCHANGED <<todo, valid, tai_time, tai_time_set, fresh>> /\ main = "set" /\ ~woken'
          /\ (phc' = gnss_time /\ main' = "clock_set") \/ main' = "clock_unset"
      BY <2>11 DEF SetTime, At, GoTo, rest, session
    <3> QED
      BY <1>2, <2>2, <3>1 DEF FrozenInv
  <2>12. CASE CompareTime \/ GotPhase \/ GotEpoch \/ Process
    <3>1. main' \in {"phase", "clock_unset", "epoch", "process"}
      BY <2>12 DEF CompareTime, GotPhase, GotEpoch, Process, GoTo
    <3> QED
      BY <3>1 DEF FrozenInv
  <2>13. CASE UNCHANGED vars
    BY <1>2, <2>13 DEF vars, FrozenInv
  <2> QED
    BY <1>2, <2>3, <2>4, <2>5, <2>6, <2>7, <2>8, <2>9, <2>10, <2>11, <2>12, <2>13
    DEF Next, GnssThread, Main
<1> QED
  BY <1>1, <1>2, GnssType, PTL DEF Spec

\* A TAI time that stands still never passes for a running clock.
THEOREM GnssFrozenTimeCaught == Spec => FrozenTimeCaught
<1>1. ASSUME TypeOK, FrozenInv, [Next]_vars
      PROVE  [main = "compare" /\ main' = "phase" /\ phc # 0 => fresh]_vars
  <2> SUFFICES ASSUME main = "compare", main' = "phase", ~fresh
               PROVE  FALSE
    OBVIOUS
  <2>1. CompareTime
    BY <1>1 DEF Next, Tick, PublishPhase, GnssThread, Timels, TimSvin, EpochFix,
                TimTp, EpochNoFix, AntennaOff, Timeout, Silent, Loud, Main,
                ClockData, GotTime, SetTime, GotPhase, GotEpoch, Process, At, vars
  <2>2. phc = gnss_time /\ phc \in Int
    BY <1>1, <2>1 DEF CompareTime, GoTo, FrozenInv
  <2> QED
    BY <1>1, <2>2 DEF FrozenInv
<1> QED
  BY <1>1, GnssType, GnssFrozenInvariant, PTL DEF Spec, FrozenTimeCaught

-----------------------------------------------------------------------------
(* The default configurations (module GnssConfig)                          *)

\* A function that is defined as FlattenSeq defines its own, for eight lines of a
\* table: its last value.
LEMMA FlattenUnfolds ==
  ASSUME NEW s, NEW f, f = [i \in 1 .. 8 |-> IF i = 1 THEN s[i] ELSE f[i - 1] \o s[i]]
  PROVE  f[8] = s[1] \o s[2] \o s[3] \o s[4] \o s[5] \o s[6] \o s[7] \o s[8]
<1>1. \A i \in 1 .. 8 : f[i] = IF i = 1 THEN s[i] ELSE f[i - 1] \o s[i]
  BY Zenon
<1>2. \A i \in 2 .. 8 : i \in 1 .. 8 /\ i # 1
  OBVIOUS
<1>3. \A i \in 2 .. 8 : f[i] = f[i - 1] \o s[i]
  BY <1>1, <1>2, Zenon
<1>4. f[1] = s[1]
  <2>1. 1 \in 1 .. 8
    OBVIOUS
  <2> QED BY <1>1, <2>1, Zenon
<1>5. /\ \A i \in {2, 3, 4, 5, 6, 7, 8} : i \in 2 .. 8
      /\ 2 - 1 = 1 /\ 3 - 1 = 2 /\ 4 - 1 = 3 /\ 5 - 1 = 4 /\ 6 - 1 = 5 /\ 7 - 1 = 6 /\ 8 - 1 = 7
  OBVIOUS
<1>6. /\ f[2] = f[1] \o s[2] /\ f[3] = f[2] \o s[3] /\ f[4] = f[3] \o s[4]
      /\ f[5] = f[4] \o s[5] /\ f[6] = f[5] \o s[6] /\ f[7] = f[6] \o s[7]
      /\ f[8] = f[7] \o s[8]
  <2>1. /\ f[2] = f[2 - 1] \o s[2] /\ f[3] = f[3 - 1] \o s[3] /\ f[4] = f[4 - 1] \o s[4]
        /\ f[5] = f[5 - 1] \o s[5] /\ f[6] = f[6 - 1] \o s[6] /\ f[7] = f[7 - 1] \o s[7]
        /\ f[8] = f[8 - 1] \o s[8]
    BY <1>3, <1>5, Zenon
  <2> QED BY <2>1, <1>5, Zenon
<1>7. f[3] = s[1] \o s[2] \o s[3] BY <1>4, <1>6, Zenon
<1>8. f[5] = s[1] \o s[2] \o s[3] \o s[4] \o s[5] BY <1>7, <1>6, Zenon
<1>9. f[7] = s[1] \o s[2] \o s[3] \o s[4] \o s[5] \o s[6] \o s[7] BY <1>8, <1>6, Zenon
<1> QED BY <1>9, <1>6, Zenon

\* There is such a function.
LEMMA FlattenExists ==
  ASSUME NEW s
  PROVE  \E f : f = [i \in 1 .. 8 |-> IF i = 1 THEN s[i] ELSE f[i - 1] \o s[i]]
<1>1. PICK a : a = s[1] OBVIOUS
<1>2. PICK b : b = a \o s[2] OBVIOUS
<1>3. PICK c : c = b \o s[3] OBVIOUS
<1>4. PICK d : d = c \o s[4] OBVIOUS
<1>5. PICK e : e = d \o s[5] OBVIOUS
<1>6. PICK g : g = e \o s[6] OBVIOUS
<1>7. PICK h : h = g \o s[7] OBVIOUS
<1>8. PICK k : k = h \o s[8] OBVIOUS
<1> DEFINE G == [i \in 1 .. 8 |->
                   IF i = 1 THEN a ELSE IF i = 2 THEN b ELSE IF i = 3 THEN c
                   ELSE IF i = 4 THEN d ELSE IF i = 5 THEN e ELSE IF i = 6 THEN g
                   ELSE IF i = 7 THEN h ELSE k]
<1>9. /\ G[1] = a /\ G[2] = b /\ G[3] = c /\ G[4] = d
      /\ G[5] = e /\ G[6] = g /\ G[7] = h /\ G[8] = k
  OBVIOUS
<1>10. G = [i \in 1 .. 8 |-> G[i]]
  OBVIOUS
<1> HIDE DEF G
<1>11. ASSUME NEW i \in 1 .. 8
       PROVE  G[i] = IF i = 1 THEN s[i] ELSE G[i - 1] \o s[i]
  <2>1. \/ i = 1
        \/ i = 2 /\ i - 1 = 1
        \/ i = 3 /\ i - 1 = 2
        \/ i = 4 /\ i - 1 = 3
        \/ i = 5 /\ i - 1 = 4
        \/ i = 6 /\ i - 1 = 5
        \/ i = 7 /\ i - 1 = 6
        \/ i = 8 /\ i - 1 = 7
    OBVIOUS
  <2>2. 2 # 1 /\ 3 # 1 /\ 4 # 1 /\ 5 # 1 /\ 6 # 1 /\ 7 # 1 /\ 8 # 1
    OBVIOUS
  <2>3. CASE i = 1 BY <2>3, <1>1, <1>9, Zenon
  <2>4. CASE i = 2 /\ i - 1 = 1 BY <2>4, <2>2, <1>2, <1>9, Zenon
  <2>5. CASE i = 3 /\ i - 1 = 2 BY <2>5, <2>2, <1>3, <1>9, Zenon
  <2>6. CASE i = 4 /\ i - 1 = 3 BY <2>6, <2>2, <1>4, <1>9, Zenon
  <2>7. CASE i = 5 /\ i - 1 = 4 BY <2>7, <2>2, <1>5, <1>9, Zenon
  <2>8. CASE i = 6 /\ i - 1 = 5 BY <2>8, <2>2, <1>6, <1>9, Zenon
  <2>9. CASE i = 7 /\ i - 1 = 6 BY <2>9, <2>2, <1>7, <1>9, Zenon
  <2>10. CASE i = 8 /\ i - 1 = 7 BY <2>10, <2>2, <1>8, <1>9, Zenon
  <2> QED
    BY <2>1, <2>3, <2>4, <2>5, <2>6, <2>7, <2>8, <2>9, <2>10, Zenon
<1>12. G = [i \in 1 .. 8 |-> IF i = 1 THEN s[i] ELSE G[i - 1] \o s[i]]
  BY <1>10, <1>11, Zenon
<1> QED BY <1>12, Zenon

\* A table of eight lines is loaded as the concatenation of its lines.
LEMMA FlattenEight ==
  ASSUME NEW s, Len(s) = 8
  PROVE  FlattenSeq(s) = s[1] \o s[2] \o s[3] \o s[4] \o s[5] \o s[6] \o s[7] \o s[8]
<1> DEFINE F == CHOOSE f : f = [i \in 1 .. 8 |-> IF i = 1 THEN s[i] ELSE f[i - 1] \o s[i]]
<1>1. FlattenSeq(s) = F[8]
  BY DEF FlattenSeq
<1>2. F = [i \in 1 .. 8 |-> IF i = 1 THEN s[i] ELSE F[i - 1] \o s[i]]
  BY FlattenExists, Zenon
<1> HIDE DEF F
<1>3. F[8] = s[1] \o s[2] \o s[3] \o s[4] \o s[5] \o s[6] \o s[7] \o s[8]
  BY <1>2, FlattenUnfolds, Zenon
<1> QED BY <1>1, <1>3

\* What the default tables hold: values, protocols, and ids of which one is that
\* of one firmware version only.
Values == {"-", "0", "1", "50", "115200", "GPS", "2.01", "2.20"}
Protocols == {"UBX", "RTCM3"}
Pairs(S) == [id: S, val: Values]

\* Short tuples are sequences.
LEMMA ShortSeqs ==
  ASSUME NEW T
  PROVE  /\ << >> \in Seq(T)
         /\ \A x \in T : <<x>> \in Seq(T)
         /\ \A x, y \in T : <<x, y>> \in Seq(T)
OBVIOUS

\* Their lengths and elements.
LEMMA ShortLens ==
  ASSUME NEW x, NEW y
  PROVE  /\ Len(<<x>>) = 1 /\ <<x>>[1] = x
         /\ Len(<<x, y>>) = 2 /\ <<x, y>>[1] = x /\ <<x, y>>[2] = y
         /\ 1 .. 1 = {1} /\ 1 .. 2 = {1, 2}
OBVIOUS

\* A setting is a pair, and a line of its own.
LEMMA PairIs ==
  ASSUME NEW S, NEW id \in S, NEW val \in Values
  PROVE  Pair(id, val) \in Pairs(S) /\ <<Pair(id, val)>> \in Seq(Pairs(S))
<1>1. Pair(id, val) \in Pairs(S)
  BY DEF Pair, Pairs
<1> QED BY <1>1, ShortSeqs, Zenon

\* The settings of a line for a key.
LEMMA KeyIs ==
  ASSUME NEW S, NEW name, NEW val \in Values, <<"CFG", name>> \in S
  PROVE  Key(name, val) \in Seq(Pairs(S))
BY PairIs, Zenon DEF Key

\* The settings of a line for an output rate.
LEMMA RateIs ==
  ASSUME NEW S, NEW m, NEW r1 \in Values, NEW r2 \in Values,
         <<m, "UART1">> \in S, r2 = "-" \/ <<m, "UART2">> \in S
  PROVE  Rate(m, <<r1, r2>>) \in Seq(Pairs(S))
<1> DEFINE one == IF <<r1, r2>>[1] = "-" THEN << >> ELSE <<Pair(<<m, "UART1">>, <<r1, r2>>[1])>>
           two == IF <<r1, r2>>[2] = "-" THEN << >> ELSE <<Pair(<<m, "UART2">>, <<r1, r2>>[2])>>
<1>0. <<r1, r2>>[1] = r1 /\ <<r1, r2>>[2] = r2
  OBVIOUS
<1>1. one \in Seq(Pairs(S))
  <2>1. CASE r1 = "-" BY <2>1, <1>0, ShortSeqs, Zenon
  <2>2. CASE r1 # "-" BY <2>2, <1>0, PairIs, Zenon
  <2> QED BY <2>1, <2>2
<1>2. two \in Seq(Pairs(S))
  <2>1. CASE r2 = "-" BY <2>1, <1>0, ShortSeqs, Zenon
  <2>2. CASE r2 # "-" BY <2>2, <1>0, PairIs, Zenon
  <2> QED BY <2>1, <2>2
<1> HIDE DEF one, two
<1>3. one \o two \in Seq(Pairs(S))
  BY <1>1, <1>2, ConcatProperties
<1> QED BY <1>3, Zenon DEF Rate, one, two

\* The settings of a line for a port.
LEMMA PortIs ==
  ASSUME NEW S, NEW name, NEW baud \in Values, NEW inp \in Seq(Protocols), NEW outp \in Seq(Protocols),
         baud = "-" \/ <<name, "BAUDRATE">> \in S,
         \A i \in 1 .. Len(inp) : <<name, "INPROT", inp[i]>> \in S,
         \A i \in 1 .. Len(outp) : <<name, "OUTPROT", outp[i]>> \in S
  PROVE  Port(name, baud, inp, outp) \in Seq(Pairs(S))
<1> DEFINE B == IF baud = "-" THEN << >> ELSE <<Pair(<<name, "BAUDRATE">>, baud)>>
           I == [i \in DOMAIN inp |-> Pair(<<name, "INPROT", inp[i]>>, "1")]
           O == [i \in DOMAIN outp |-> Pair(<<name, "OUTPROT", outp[i]>>, "1")]
<1>1. B \in Seq(Pairs(S))
  <2>1. CASE baud = "-" BY <2>1, ShortSeqs, Zenon
  <2>2. CASE baud # "-" BY <2>2, PairIs, Zenon
  <2> QED BY <2>1, <2>2
<1>2. I \in Seq(Pairs(S))
  <2>0. "1" \in Values
    BY Zenon DEF Values
  <2>1. DOMAIN inp = 1 .. Len(inp) /\ Len(inp) \in Nat
    BY LenProperties, Zenon
  <2>2. ASSUME NEW i \in 1 .. Len(inp)
        PROVE  Pair(<<name, "INPROT", inp[i]>>, "1") \in Pairs(S)
    <3>1. <<name, "INPROT", inp[i]>> \in S
      BY Zenon
    <3> QED BY <2>0, <3>1, PairIs, Zenon
  <2>3. I = [i \in 1 .. Len(inp) |-> Pair(<<name, "INPROT", inp[i]>>, "1")]
    BY <2>1, Zenon
  <2> HIDE DEF I
  <2>4. I \in [1 .. Len(inp) -> Pairs(S)]
    BY <2>2, <2>3
  <2> QED BY <2>1, <2>4
<1>3. O \in Seq(Pairs(S))
  <2>0. "1" \in Values
    BY Zenon DEF Values
  <2>1. DOMAIN outp = 1 .. Len(outp) /\ Len(outp) \in Nat
    BY LenProperties, Zenon
  <2>2. ASSUME NEW i \in 1 .. Len(outp)
        PROVE  Pair(<<name, "OUTPROT", outp[i]>>, "1") \in Pairs(S)
    <3>1. <<name, "OUTPROT", outp[i]>> \in S
      BY Zenon
    <3> QED BY <2>0, <3>1, PairIs, Zenon
  <2>3. O = [i \in 1 .. Len(outp) |-> Pair(<<name, "OUTPROT", outp[i]>>, "1")]
    BY <2>1, Zenon
  <2> HIDE DEF O
  <2>4. O \in [1 .. Len(outp) -> Pairs(S)]
    BY <2>2, <2>3
  <2> QED BY <2>1, <2>4
<1> HIDE DEF B, I, O
<1>4. (B \o I) \o O \in Seq(Pairs(S))
  BY <1>1, <1>2, <1>3, ConcatProperties
<1> QED BY <1>4, Zenon DEF Port, B, I, O

\* The ids that all versions have, and the one that only the old ones or only
\* version 2.20 has.
OldIds == { <<"UART1", "BAUDRATE">>, <<"UART1", "INPROT", "UBX">>, <<"UART1", "OUTPROT", "UBX">>,
            <<"SPI", "INPROT", "UBX">>, <<"SPI", "INPROT", "RTCM3">>,
            <<"SPI", "OUTPROT", "UBX">>, <<"SPI", "OUTPROT", "RTCM3">>,
            <<"RTCM-3X", "UART1">>, <<"RTCM-3X", "UART2">>, <<"UBX-TIM-TP", "UART1">>,
            <<"CFG", "TP-ANT_CABLEDELAY">>, <<"CFG", "TP-TIMEGRID_TP1">>,
            <<"CFG", "NAVSPG-WKNROLLOVER">> }
Qzss == <<"CFG", "SIGNAL-QZSS_L1S_ENA">>
Lock == <<"CFG", "SEC-CFG_LOCK">>

\* All lines of both default tables.
LEMMA LinesAre ==
  ASSUME NEW S, NEW s \in {default_configuration, default_configuration_v220},
         OldIds \subseteq S,
         s = default_configuration => Qzss \in S,
         s = default_configuration_v220 => Lock \in S
  PROVE  Len(s) = 8 /\ \A i \in 1 .. 8 : s[i] \in Seq(Pairs(S))
<1>0. /\ <<"UART1", "BAUDRATE">> \in S
      /\ <<"UART1", "INPROT", "UBX">> \in S /\ <<"UART1", "OUTPROT", "UBX">> \in S
      /\ <<"SPI", "INPROT", "UBX">> \in S /\ <<"SPI", "INPROT", "RTCM3">> \in S
      /\ <<"SPI", "OUTPROT", "UBX">> \in S /\ <<"SPI", "OUTPROT", "RTCM3">> \in S
      /\ <<"RTCM-3X", "UART1">> \in S /\ <<"RTCM-3X", "UART2">> \in S
      /\ <<"UBX-TIM-TP", "UART1">> \in S /\ <<"CFG", "TP-ANT_CABLEDELAY">> \in S
      /\ <<"CFG", "TP-TIMEGRID_TP1">> \in S /\ <<"CFG", "NAVSPG-WKNROLLOVER">> \in S
  BY Zenon DEF OldIds
<1>a. /\ "UBX" \in Protocols /\ "RTCM3" \in Protocols
      /\ "-" \in Values /\ "0" \in Values /\ "1" \in Values /\ "50" \in Values
      /\ "115200" \in Values /\ "GPS" \in Values /\ "2.01" \in Values /\ "2.20" \in Values
  BY Zenon DEF Values, Protocols
<1>1. /\ <<"UBX">> \in Seq(Protocols) /\ Len(<<"UBX">>) = 1
      /\ <<"UBX", "RTCM3">> \in Seq(Protocols) /\ Len(<<"UBX", "RTCM3">>) = 2
      /\ <<"UBX">>[1] = "UBX" /\ <<"UBX", "RTCM3">>[1] = "UBX" /\ <<"UBX", "RTCM3">>[2] = "RTCM3"
      /\ 1 .. 1 = {1} /\ 1 .. 2 = {1, 2}
  BY <1>a, ShortSeqs, ShortLens, Zenon
<1>2. Port("UART1", "115200", <<"UBX">>, <<"UBX">>) \in Seq(Pairs(S))
  BY <1>0, <1>a, <1>1, PortIs, Zenon
<1>3. Port("SPI", "-", <<"UBX", "RTCM3">>, <<"UBX", "RTCM3">>) \in Seq(Pairs(S))
  BY <1>0, <1>a, <1>1, PortIs, Zenon
<1>4. /\ Rate("RTCM-3X", <<"0", "0">>) \in Seq(Pairs(S))
      /\ Rate("UBX-TIM-TP", <<"1", "-">>) \in Seq(Pairs(S))
  BY <1>0, <1>a, RateIs, Zenon
<1>5. /\ Key("TP-ANT_CABLEDELAY", "50") \in Seq(Pairs(S))
      /\ Key("TP-TIMEGRID_TP1", "GPS") \in Seq(Pairs(S))
      /\ Key("NAVSPG-WKNROLLOVER", "2.01") \in Seq(Pairs(S))
      /\ Key("NAVSPG-WKNROLLOVER", "2.20") \in Seq(Pairs(S))
  BY <1>0, <1>a, KeyIs, Zenon
<1>6. CASE s = default_configuration
  <2>1. Key("SIGNAL-QZSS_L1S_ENA", "0") \in Seq(Pairs(S))
    BY <1>6, <1>a, KeyIs, Zenon DEF Qzss
  <2> QED BY <1>6, <2>1, <1>2, <1>3, <1>4, <1>5 DEF default_configuration
<1>7. CASE s = default_configuration_v220
  <2>1. Key("SEC-CFG_LOCK", "0") \in Seq(Pairs(S))
    BY <1>7, <1>a, KeyIs, Zenon DEF Lock
  <2> QED BY <1>7, <2>1, <1>2, <1>3, <1>4, <1>5 DEF default_configuration_v220
<1> QED BY <1>6, <1>7

\* A concatenation of lists, and where a last line of one setting goes.
LEMMA CatIs ==
  ASSUME NEW T, NEW a \in Seq(T), NEW b \in Seq(T)
  PROVE  /\ a \o b \in Seq(T)
         /\ \A x : b = <<x>> => x \in Range(a \o b)
<1>1. a \o b \in Seq(T) /\ Len(a \o b) = Len(a) + Len(b) /\ Len(a) \in Nat
  BY ConcatProperties, LenProperties
<1>2. ASSUME NEW x, b = <<x>> PROVE x \in Range(a \o b)
  <2>1. Len(b) = 1 /\ b[1] = x
    BY <1>2, ShortLens, Zenon
  <2>2. Len(a) + 1 \in DOMAIN (a \o b)
    BY <1>1, <2>1, LenProperties
  <2>3. (a \o b)[Len(a) + 1] = x
    BY <1>1, <2>1, ConcatProperties
  <2> QED BY <2>2, <2>3, Zenon DEF Range
<1> QED BY <1>1, <1>2

\* A table of eight lines is a list of the settings of its lines.
LEMMA TablesOf ==
  ASSUME NEW T, NEW s, Len(s) = 8, \A i \in 1 .. 8 : s[i] \in Seq(T)
  PROVE  /\ FlattenSeq(s) \in Seq(T)
         /\ \A x : s[8] = <<x>> => x \in Range(FlattenSeq(s))
<1> DEFINE t2 == s[1] \o s[2]
           t3 == t2 \o s[3]
           t4 == t3 \o s[4]
           t5 == t4 \o s[5]
           t6 == t5 \o s[6]
           t7 == t6 \o s[7]
           t8 == t7 \o s[8]
<1>0. /\ s[1] \in Seq(T) /\ s[2] \in Seq(T) /\ s[3] \in Seq(T) /\ s[4] \in Seq(T)
      /\ s[5] \in Seq(T) /\ s[6] \in Seq(T) /\ s[7] \in Seq(T) /\ s[8] \in Seq(T)
  OBVIOUS
<1>1. FlattenSeq(s) = t8
  BY FlattenEight, Zenon
<1>2. t2 \in Seq(T) BY <1>0, CatIs, Zenon
<1> HIDE DEF t2
<1>3. t3 \in Seq(T) BY <1>0, <1>2, CatIs, Zenon
<1> HIDE DEF t3
<1>4. t4 \in Seq(T) BY <1>0, <1>3, CatIs, Zenon
<1> HIDE DEF t4
<1>5. t5 \in Seq(T) BY <1>0, <1>4, CatIs, Zenon
<1> HIDE DEF t5
<1>6. t6 \in Seq(T) BY <1>0, <1>5, CatIs, Zenon
<1> HIDE DEF t6
<1>7. t7 \in Seq(T) BY <1>0, <1>6, CatIs, Zenon
<1> HIDE DEF t7
<1>8. t8 \in Seq(T) /\ \A x : s[8] = <<x>> => x \in Range(t8)
  BY <1>0, <1>7, CatIs, Zenon
<1> QED BY <1>1, <1>8, Zenon

\* The default configurations of the firmware versions.
LEMMA Tables ==
  /\ GetDefaultValueFromConfig["none"] = GetDefaultValueFromConfig["2.01"]
  /\ GetDefaultValueFromConfig["2.01"] \in Seq(Pairs(OldIds \cup {Qzss}))
  /\ GetDefaultValueFromConfig["2.20"] \in Seq(Pairs(OldIds \cup {Lock}))
  /\ Pair(Qzss, "0") \in Range(GetDefaultValueFromConfig["2.01"])
  /\ Pair(Lock, "0") \in Range(GetDefaultValueFromConfig["2.20"])
<1>1. /\ GetDefaultValueFromConfig["none"] = FlattenSeq(default_configuration)
      /\ GetDefaultValueFromConfig["2.01"] = FlattenSeq(default_configuration)
      /\ GetDefaultValueFromConfig["2.20"] = FlattenSeq(default_configuration_v220)
  BY DEF GetDefaultValueFromConfig, Lines, Versions
<1>2. /\ default_configuration[8] = <<Pair(Qzss, "0")>>
      /\ default_configuration_v220[8] = <<Pair(Lock, "0")>>
  BY DEF default_configuration, default_configuration_v220, Qzss, Lock, Key
<1>3. default_configuration # default_configuration_v220
  BY <1>2 DEF Qzss, Lock, Pair
<1>4. /\ Len(default_configuration) = 8
      /\ \A i \in 1 .. 8 : default_configuration[i] \in Seq(Pairs(OldIds \cup {Qzss}))
  BY <1>3, LinesAre, Zenon
<1>5. /\ Len(default_configuration_v220) = 8
      /\ \A i \in 1 .. 8 : default_configuration_v220[i] \in Seq(Pairs(OldIds \cup {Lock}))
  BY <1>3, LinesAre, Zenon
<1> QED BY <1>1, <1>2, <1>4, <1>5, TablesOf, Zenon

\* What get_default_value_from_config is called with.
AnyVersion == Versions \cup {"none"}

\* No default table enables the RTCM protocol on UART1; each has an id of its own.
LEMMA IdsDiffer ==
  /\ RtcmSettings[1].id = <<"UART1", "OUTPROT", "RTCM3">>
  /\ RtcmSettings[2].id = <<"RTCM-3X", "UART1">>
  /\ RtcmSettings[1].id \notin OldIds \cup {Qzss, Lock}
  /\ Qzss \notin OldIds /\ Lock \notin OldIds /\ Qzss # Lock
  /\ Qzss # RtcmSettings[2].id /\ Lock # RtcmSettings[2].id
<1>1. /\ RtcmSettings[1].id = <<"UART1", "OUTPROT", "RTCM3">>
      /\ RtcmSettings[2].id = <<"RTCM-3X", "UART1">>
  BY DEF RtcmSettings, Pair
<1>2. <<"UART1", "OUTPROT", "RTCM3">> \notin OldIds \cup {Qzss, Lock}
  BY DEF OldIds, Qzss, Lock
<1>3. Qzss \notin OldIds /\ Lock \notin OldIds /\ Qzss # Lock
  BY DEF OldIds, Qzss, Lock
<1>4. Qzss # <<"RTCM-3X", "UART1">> /\ Lock # <<"RTCM-3X", "UART1">>
  BY DEF Qzss, Lock
<1> QED BY <1>1, <1>2, <1>3, <1>4

\* The elements of a sequence.
LEMMA RangeOf ==
  ASSUME NEW T, NEW s \in Seq(T)
  PROVE  Range(s) \subseteq T /\ \A i \in DOMAIN s : s[i] \in Range(s)
BY LenProperties DEF Range

\* Sequences over a set are sequences over a larger one.
LEMMA SeqGrows ==
  ASSUME NEW T, NEW U, T \subseteq U, NEW s \in Seq(T)
  PROVE  s \in Seq(U)
<1>1. Len(s) \in Nat /\ s \in [1 .. Len(s) -> T]
  BY LenProperties
<1>2. s \in [1 .. Len(s) -> U]
  BY <1>1
<1> QED BY <1>1, <1>2

\* Adapting a setting to the configuration file keeps its id.
LEMMA AdaptedIs ==
  ASSUME NEW S, NEW p \in Pairs(S), NEW c
  PROVE  Adapted(p, c).id = p.id
BY DEF Adapted, Pairs

\* What is wanted has the ids of the default table, each of them once (the tables
\* load), and never the RTCM protocol.
LEMMA WantedIs ==
  ASSUME NEW v \in AnyVersion, NEW c
  PROVE  /\ DOMAIN Wanted(v, c) = DOMAIN GetDefaultValueFromConfig[v]
         /\ \A i \in DOMAIN Wanted(v, c) :
              /\ Wanted(v, c)[i].id = GetDefaultValueFromConfig[v][i].id
              /\ Wanted(v, c)[i].id # RtcmSettings[1].id
         /\ \A i, j \in DOMAIN Wanted(v, c) : Wanted(v, c)[i].id = Wanted(v, c)[j].id => i = j
<1> DEFINE kv == GetDefaultValueFromConfig[v]
<1>1. PICK S : kv \in Seq(Pairs(S)) /\ RtcmSettings[1].id \notin S
  <2>1. CASE v = "2.20" BY <2>1, Tables, IdsDiffer, Zenon
  <2>2. CASE v # "2.20" BY <2>2, Tables, IdsDiffer, Zenon DEF AnyVersion, Versions
  <2> QED BY <2>1, <2>2
<1>2. DOMAIN kv = 1 .. Len(kv) /\ \A i \in DOMAIN kv : kv[i] \in Pairs(S)
  BY <1>1, LenProperties
<1>3. \A i \in DOMAIN kv : Adapted(kv[i], c).id = kv[i].id /\ kv[i].id # RtcmSettings[1].id
  <2>1. \A p \in Pairs(S) : p.id \in S
    BY DEF Pairs
  <2> QED BY <1>1, <1>2, <2>1, AdaptedIs, Zenon
<1>4. \A i, j \in DOMAIN kv : kv[i].id = kv[j].id => i = j
  BY DefaultsLoad, Zenon DEF CfgDbLoads, AnyVersion
<1>5. Wanted(v, c) = [i \in DOMAIN kv |-> Adapted(kv[i], c)]
  BY DEF Wanted
<1> HIDE DEF kv
<1>6. /\ DOMAIN Wanted(v, c) = DOMAIN kv
      /\ \A i \in DOMAIN kv : Wanted(v, c)[i].id = kv[i].id
  BY <1>3, <1>5, Zenon
<1>7. \A i, j \in DOMAIN kv : Wanted(v, c)[i].id = Wanted(v, c)[j].id => i = j
  BY <1>4, <1>6, Zenon
<1> QED BY <1>3, <1>6, <1>7, Zenon DEF kv

\* Two versions whose settings a receiver accepts want the same: a list with an id
\* that the firmware does not have is refused.
LEMMA AcceptedSame ==
  ASSUME NEW f \in Versions, NEW v \in AnyVersion, NEW w \in AnyVersion, NEW c, NEW layer,
         DOMAIN layer = Ids[f], Known(layer, Wanted(v, c)), Known(layer, Wanted(w, c))
  PROVE  Wanted(v, c) = Wanted(w, c)
<1>1. ASSUME NEW u \in AnyVersion, Known(layer, Wanted(u, c))
      PROVE  GetDefaultValueFromConfig[u] = GetDefaultValueFromConfig[f]
  <2>1. \A i \in DOMAIN GetDefaultValueFromConfig[u] : GetDefaultValueFromConfig[u][i].id \in Ids[f]
    <3>1. \A i \in DOMAIN Wanted(u, c) : Wanted(u, c)[i].id \in Ids[f]
      BY <1>1, Zenon DEF Known
    <3>2. /\ DOMAIN Wanted(u, c) = DOMAIN GetDefaultValueFromConfig[u]
          /\ \A i \in DOMAIN Wanted(u, c) :
               Wanted(u, c)[i].id = GetDefaultValueFromConfig[u][i].id
      BY WantedIs
    <3> QED BY <3>1, <3>2, Zenon
  <2>2. \A p \in Range(GetDefaultValueFromConfig[u]) : p.id \in Ids[f]
    BY <2>1, Zenon DEF Range
  <2>3. Ids[f] = {p.id : p \in Range(GetDefaultValueFromConfig[f] \o RtcmSettings)}
    BY DEF Ids
  <2>4. /\ RtcmSettings \in Seq(Pairs({RtcmSettings[1].id, RtcmSettings[2].id}))
    <3>1. RtcmSettings[1] \in Pairs({RtcmSettings[1].id, RtcmSettings[2].id})
      BY DEF RtcmSettings, Pair, Pairs, Values
    <3>2. RtcmSettings[2] \in Pairs({RtcmSettings[1].id, RtcmSettings[2].id})
      BY DEF RtcmSettings, Pair, Pairs, Values
    <3>3. RtcmSettings = <<RtcmSettings[1], RtcmSettings[2]>>
      BY ShortLens, Zenon DEF RtcmSettings
    <3> QED BY <3>1, <3>2, <3>3, ShortSeqs, Zenon
  <2>5. \A S : GetDefaultValueFromConfig[f] \in Seq(Pairs(S)) =>
             Ids[f] \subseteq S \cup {RtcmSettings[1].id, RtcmSettings[2].id}
    <3> SUFFICES ASSUME NEW S, GetDefaultValueFromConfig[f] \in Seq(Pairs(S))
                 PROVE  Ids[f] \subseteq S \cup {RtcmSettings[1].id, RtcmSettings[2].id}
      OBVIOUS
    <3> DEFINE U == S \cup {RtcmSettings[1].id, RtcmSettings[2].id}
    <3>1. Pairs(S) \subseteq Pairs(U) /\ Pairs({RtcmSettings[1].id, RtcmSettings[2].id}) \subseteq Pairs(U)
      BY DEF Pairs
    <3>2. /\ GetDefaultValueFromConfig[f] \in Seq(Pairs(U)) /\ RtcmSettings \in Seq(Pairs(U))
      BY <2>4, <3>1, SeqGrows, Zenon
    <3>3. GetDefaultValueFromConfig[f] \o RtcmSettings \in Seq(Pairs(U))
      BY <3>2, CatIs, Zenon
    <3>4. Range(GetDefaultValueFromConfig[f] \o RtcmSettings) \subseteq Pairs(U)
      BY <3>3, RangeOf, Zenon
    <3>5. \A p \in Pairs(U) : p.id \in U
      BY DEF Pairs
    <3> QED BY <2>3, <3>4, <3>5
  <2>6. Pair(Qzss, "0").id = Qzss /\ Pair(Lock, "0").id = Lock
    BY DEF Pair
  <2>7. CASE f = "2.20"
    <3>1. Qzss \notin Ids[f]
      <4>1. Ids[f] \subseteq (OldIds \cup {Lock}) \cup {RtcmSettings[1].id, RtcmSettings[2].id}
        BY <2>5, <2>7, Tables, Zenon
      <4> QED BY <4>1, IdsDiffer, Zenon
    <3>2. u = "2.20"
      BY <2>2, <2>6, <3>1, Tables, Zenon DEF AnyVersion, Versions
    <3> QED BY <2>7, <3>2
  <2>8. CASE f = "2.01"
    <3>1. Lock \notin Ids[f]
      <4>1. Ids[f] \subseteq (OldIds \cup {Qzss}) \cup {RtcmSettings[1].id, RtcmSettings[2].id}
        BY <2>5, <2>8, Tables, Zenon
      <4> QED BY <4>1, IdsDiffer, Zenon
    <3>2. u # "2.20"
      BY <2>2, <2>6, <3>1, Tables, Zenon DEF AnyVersion, Versions
    <3> QED BY <2>8, <3>2, Tables, Zenon DEF AnyVersion, Versions
  <2> QED BY <2>7, <2>8 DEF Versions
<1>2. GetDefaultValueFromConfig[v] = GetDefaultValueFromConfig[w]
  BY <1>1
<1> QED BY <1>2 DEF Wanted

\* A layer after rxSetConfig: the settings of the list, and the others as before.
LEMMA WriteIs ==
  ASSUME NEW layer, NEW kv, \A i, j \in DOMAIN kv : kv[i].id = kv[j].id => i = j
  PROVE  /\ DOMAIN Write(layer, kv) = DOMAIN layer
         /\ Same(Write(layer, kv), kv)
         /\ \A id \in DOMAIN layer :
              (\A i \in DOMAIN kv : kv[i].id # id) => Write(layer, kv)[id] = layer[id]
<1>1. DOMAIN Write(layer, kv) = DOMAIN layer
  BY DEF Write
<1>2. ASSUME NEW i \in DOMAIN kv, kv[i].id \in DOMAIN layer
      PROVE  Write(layer, kv)[kv[i].id] = kv[i].val
  <2>1. Write(layer, kv)[kv[i].id] = (CHOOSE p \in Range(kv) : p.id = kv[i].id).val
    BY <1>2 DEF Write
  <2>2. kv[i] \in Range(kv) /\ \A p \in Range(kv) : p.id = kv[i].id => p = kv[i]
    BY DEF Range
  <2>3. (CHOOSE p \in Range(kv) : p.id = kv[i].id) = kv[i]
    BY <2>2, Zenon
  <2> QED BY <2>1, <2>3
<1>3. ASSUME NEW id \in DOMAIN layer, \A i \in DOMAIN kv : kv[i].id # id
      PROVE  Write(layer, kv)[id] = layer[id]
  BY <1>3 DEF Write
<1> QED BY <1>1, <1>2, <1>3 DEF Same

-----------------------------------------------------------------------------
\* The bounds are numbers.
LEMMA Bounds == MaxTry \in Nat /\ MaxEdits \in Nat /\ MaxFaults \in Nat
BY GnssConfigAssumption, Zenon

\* Every step of gnss_init and of the others keeps the types.
LEMMA ConfigTypeStep ==
  ASSUME ConfigTypeOK, [ConfigNext]_configVars
  PROVE  ConfigTypeOK'
<1> USE Bounds
<1>1. CASE Start
  <2>1. unread' \in BOOLEAN /\ ramOnly' \in BOOLEAN
    BY <1>1, Zenon DEF Start
  <2>2. tries' \in 0 .. MaxTry /\ pc' = "version"
    BY <1>1 DEF Start
  <2> QED BY <1>1, <2>1, <2>2 DEF Start, ConfigTypeOK, receiver
<1>2. CASE GetVersion
  <2>1. faults' \in 0 .. MaxFaults
    BY <1>2 DEF GetVersion, Fault, NoFault, ConfigTypeOK
  <2>2. version' \in Versions \cup {"none"} /\ pc' \in {"check", "down"}
    BY <1>2 DEF GetVersion, ConfigTypeOK, Fails
  <2> QED BY <1>2, <2>1, <2>2 DEF GetVersion, ConfigTypeOK, receiver, history
<1>3. CASE CheckConfigInRam
  <2>1. faults' \in 0 .. MaxFaults
    BY <1>3 DEF CheckConfigInRam, Fault, NoFault, ConfigTypeOK
  <2>2. /\ pc' \in {"rtcm", "configure"} /\ unread' \in BOOLEAN /\ ramOnly' \in BOOLEAN
    BY <1>3 DEF CheckConfigInRam, ConfigTypeOK
  <2> QED BY <1>3, <2>1, <2>2 DEF CheckConfigInRam, ConfigTypeOK, receiver
<1>4. ASSUME NEW kv, Written(kv)
      PROVE  DOMAIN ram' = Ids[firmware'] /\ DOMAIN flash' = Ids[firmware'] /\ firmware' \in Versions
  BY <1>4 DEF Written, Write, ConfigTypeOK
<1>5. UNCHANGED receiver =>
        DOMAIN ram' = Ids[firmware'] /\ DOMAIN flash' = Ids[firmware'] /\ firmware' \in Versions
  BY DEF receiver, ConfigTypeOK
<1>6. CASE ConfigureFails
  <2>1. faults' \in 0 .. MaxFaults
    BY <1>6 DEF ConfigureFails, Fault, NoFault, ConfigTypeOK
  <2>2. tries' \in 0 .. MaxTry /\ pc' \in {"configure", "down"}
    BY <1>6 DEF ConfigureFails, ConfigTypeOK, Fails
  <2>3. UNCHANGED receiver \/ Written(wanted)
    BY <1>6 DEF ConfigureFails
  <2> QED BY <1>4, <1>5, <1>6, <2>1, <2>2, <2>3 DEF ConfigureFails, ConfigTypeOK, history
<1>7. CASE Configure
  <2>1. Written(wanted)
    BY <1>7 DEF Configure
  <2> QED BY <1>4, <1>7, <2>1 DEF Configure, ConfigTypeOK, history
<1>8. CASE Reset
  <2>1. faults' \in 0 .. MaxFaults
    BY <1>8 DEF Reset, Fault, NoFault, ConfigTypeOK
  <2>2. pc' \in {"rtcm", "down"} /\ ram' \in {ram, flash}
    BY <1>8 DEF Reset, Fails
  <2> QED BY <1>8, <2>1, <2>2 DEF Reset, ConfigTypeOK, history
<1>9. CASE SetRtcmConfig
  <2>1. faults' \in 0 .. MaxFaults
    BY <1>9 DEF SetRtcmConfig, Fault, NoFault, ConfigTypeOK
  <2>2. UNCHANGED receiver \/ Written(RtcmSettings)
    BY <1>9 DEF SetRtcmConfig
  <2> QED BY <1>4, <1>5, <1>9, <2>1, <2>2 DEF SetRtcmConfig, ConfigTypeOK, history
<1>10. CASE StartReceiver
  <2>1. faults' \in 0 .. MaxFaults
    BY <1>10 DEF StartReceiver, Fault, NoFault, ConfigTypeOK
  <2>2. pc' \in {"running", "down"}
    BY <1>10 DEF StartReceiver, Fails
  <2>3. settled' \in {settled, Nothing, <<version, conf>>}
    BY <1>10, Zenon DEF StartReceiver
  <2>4. settled' \in {Nothing} \cup ((Versions \cup {"none"}) \X Confs)
    BY <2>3 DEF ConfigTypeOK
  <2> QED BY <1>10, <2>1, <2>2, <2>4 DEF StartReceiver, ConfigTypeOK, receiver
<1>11. CASE ActionReset
  BY <1>11 DEF ActionReset, ConfigTypeOK, history
<1>12. CASE Stop
  BY <1>12 DEF Stop, Edit, ConfigTypeOK, receiver, history
<1>13. CASE EditConf
  BY <1>13 DEF EditConf, Edit, ConfigTypeOK, receiver
<1>14. CASE OtherTool
  <2>1. edits' \in 0 .. MaxEdits
    BY <1>14 DEF OtherTool, Edit, ConfigTypeOK
  <2>2. DOMAIN ram' = Ids[firmware'] /\ DOMAIN flash' = Ids[firmware']
    BY <1>14 DEF OtherTool, Write, ConfigTypeOK
  <2> QED BY <1>14, <2>1, <2>2 DEF OtherTool, ConfigTypeOK
<1>15. CASE UNCHANGED configVars
  BY <1>15 DEF configVars, ConfigTypeOK
<1> QED
  BY <1>1, <1>2, <1>3, <1>6, <1>7, <1>8, <1>9, <1>10, <1>11, <1>12, <1>13, <1>14, <1>15
     DEF ConfigNext, GnssInit

\* The receiver's layers have the settings of its firmware, whatever is written to
\* them, and gnss_init keeps its types.
THEOREM GnssConfigType == ConfigSpec => []ConfigTypeOK
<1>1. ConfigInit => ConfigTypeOK
  <2> SUFFICES ASSUME ConfigInit PROVE ConfigTypeOK
    OBVIOUS
  <2>1. unread \in BOOLEAN /\ ramOnly \in BOOLEAN
    BY Zenon DEF ConfigInit
  <2>2. tries \in 0 .. MaxTry /\ edits \in 0 .. MaxEdits /\ faults \in 0 .. MaxFaults
    BY Bounds DEF ConfigInit
  <2> QED BY <2>1, <2>2 DEF ConfigInit, ConfigTypeOK
<1> QED
  BY <1>1, ConfigTypeStep, PTL DEF ConfigSpec

\* A layer has the settings of a list, but for the RTCM rate if RTCM is enabled.
Holds(layer, kv, c) ==
  \A p \in Range(kv) :
    p.id \in DOMAIN layer => layer[p.id] = p.val \/ (c.rtcm /\ p.id = RtcmSettings[2].id)

\* A receiver that was written and reset has what is wanted in both layers.
KeptInv ==
  /\ pc = "reset" => Same(flash, wanted)
  /\ pc \in {"rtcm", "start", "running"} =>
       \/ Holds(ram, wanted, conf) /\ Holds(flash, wanted, conf)
       \/ unread \/ ramOnly

\* Without RTCM nothing is excepted.
LEMMA HoldsIs ==
  ASSUME NEW layer, NEW kv, NEW c
  PROVE  /\ Same(layer, kv) => Holds(layer, kv, c)
         /\ Holds(layer, kv, c) /\ ~c.rtcm => Same(layer, kv)
<1>1. ASSUME Same(layer, kv) PROVE Holds(layer, kv, c)
  BY <1>1, Zenon DEF Same, Holds, Range
<1>2. ASSUME Holds(layer, kv, c), ~c.rtcm PROVE Same(layer, kv)
  BY <1>2, Zenon DEF Same, Holds, Range
<1> QED BY <1>1, <1>2

\* After gnss_set_configuration wrote a layer, the layer is configured.
LEMMA WantedWritten ==
  ASSUME NEW v \in AnyVersion, NEW c, NEW layer
  PROVE  Same(Write(layer, Wanted(v, c)), Wanted(v, c))
BY WantedIs, WriteIs, Zenon

\* The two settings of gnss_set_rtcm_config.
LEMMA RtcmIs ==
  /\ DOMAIN RtcmSettings = {1, 2}
  /\ \A i, j \in DOMAIN RtcmSettings : RtcmSettings[i].id = RtcmSettings[j].id => i = j
<1>1. DOMAIN RtcmSettings = {1, 2}
  BY DEF RtcmSettings
<1>2. RtcmSettings[1].id # RtcmSettings[2].id
  BY DEF RtcmSettings, Pair
<1> QED BY <1>1, <1>2

\* gnss_set_rtcm_config changes no other setting that is wanted.
LEMMA RtcmKeeps ==
  ASSUME NEW v \in AnyVersion, NEW c, NEW layer, c.rtcm, Holds(layer, Wanted(v, c), c)
  PROVE  Holds(Write(layer, RtcmSettings), Wanted(v, c), c)
<1> DEFINE after == Write(layer, RtcmSettings)
<1>1. /\ DOMAIN after = DOMAIN layer
      /\ \A id \in DOMAIN layer :
           id # RtcmSettings[1].id /\ id # RtcmSettings[2].id => after[id] = layer[id]
  <2>1. /\ DOMAIN after = DOMAIN layer
        /\ \A id \in DOMAIN layer :
             (\A i \in DOMAIN RtcmSettings : RtcmSettings[i].id # id) => after[id] = layer[id]
    BY RtcmIs, WriteIs
  <2> HIDE DEF after
  <2> QED BY <2>1, RtcmIs
<1>2. \A p \in Range(Wanted(v, c)) : p.id # RtcmSettings[1].id
  <2>1. \A i \in DOMAIN Wanted(v, c) : Wanted(v, c)[i].id # RtcmSettings[1].id
    BY WantedIs
  <2> QED BY <2>1, Zenon DEF Range
<1> HIDE DEF after
<1>3. Holds(after, Wanted(v, c), c)
  BY <1>1, <1>2, Zenon DEF Holds
<1> QED BY <1>3 DEF after

\* Every step keeps it: what gnss_set_configuration writes goes to both layers, and
\* the reset loads the permanent one.
THEOREM GnssConfigKeptInvariant == ConfigSpec => []KeptInv
<1>1. ConfigInit => KeptInv
  BY DEF ConfigInit, KeptInv
<1>2. ASSUME ConfigTypeOK, KeptInv, [ConfigNext]_configVars PROVE KeptInv'
  <2>0. version \in AnyVersion
    BY <1>2 DEF ConfigTypeOK, AnyVersion
  <2>1. CASE pc' \notin {"reset", "rtcm", "start", "running"}
    BY <2>1 DEF KeptInv
  <2>2. CASE GetVersion \/ Start \/ ConfigureFails \/ Stop \/ EditConf \/ OtherTool
    BY <2>1, <2>2 DEF GetVersion, Start, ConfigureFails, Stop, EditConf, OtherTool, Fails
  <2>3. CASE CheckConfigInRam
    <3>1. /\ ram' = ram /\ flash' = flash /\ conf' = conf /\ wanted' = wanted
          /\ pc' \in {"rtcm", "configure"}
      BY <2>3 DEF CheckConfigInRam, receiver, wanted
    <3>2. pc' = "rtcm" => unread' \/ ramOnly' \/ (Same(ram, wanted) /\ Same(flash, wanted))
      BY <2>3 DEF CheckConfigInRam
    <3> QED BY <3>1, <3>2, HoldsIs DEF KeptInv
  <2>4. CASE Configure
    <3>1. flash' = Write(flash, wanted) /\ wanted' = wanted /\ pc' = "reset"
      BY <2>4 DEF Configure, Written, wanted
    <3>2. Same(flash', wanted)
      BY <2>0, <3>1, WantedWritten DEF wanted
    <3> QED BY <3>1, <3>2 DEF KeptInv
  <2>5. CASE Reset
    <3>1. /\ flash' = flash /\ conf' = conf /\ wanted' = wanted /\ pc = "reset"
          /\ pc' \in {"rtcm", "down"} /\ (pc' = "rtcm" => ram' = flash)
      BY <2>5 DEF Reset, Fails, wanted
    <3>2. Same(flash, wanted)
      BY <1>2, <3>1 DEF KeptInv
    <3> QED BY <3>1, <3>2, HoldsIs DEF KeptInv
  <2>6. CASE SetRtcmConfig
    <3>1. /\ conf' = conf /\ version' = version /\ unread' = unread /\ ramOnly' = ramOnly
          /\ wanted' = wanted /\ pc = "rtcm" /\ pc' = "start"
      BY <2>6 DEF SetRtcmConfig, history, wanted
    <3>2. \/ ram' = ram /\ flash' = flash
          \/ conf.rtcm /\ ram' = Write(ram, RtcmSettings) /\ flash' = Write(flash, RtcmSettings)
      BY <2>6 DEF SetRtcmConfig, receiver, Written
    <3>3. Holds(ram, wanted, conf) => Holds(ram', wanted, conf)
      BY <2>0, <3>2, RtcmKeeps DEF wanted
    <3>4. Holds(flash, wanted, conf) => Holds(flash', wanted, conf)
      BY <2>0, <3>2, RtcmKeeps DEF wanted
    <3> QED BY <1>2, <3>1, <3>3, <3>4 DEF KeptInv
  <2>7. CASE StartReceiver
    <3>1. /\ UNCHANGED <<ram, flash, conf, version, unread, ramOnly>> /\ pc = "start"
          /\ pc' \in {"running", "down"}
      BY <2>7 DEF StartReceiver, Fails, receiver
    <3> QED BY <1>2, <3>1 DEF KeptInv, wanted
  <2>8. CASE ActionReset
    <3>1. /\ UNCHANGED <<flash, conf, version, unread, ramOnly, pc>> /\ ram' = flash /\ pc = "running"
      BY <2>8 DEF ActionReset, history
    <3> QED BY <1>2, <3>1 DEF KeptInv, wanted
  <2>9. CASE UNCHANGED configVars
    BY <1>2, <2>9 DEF configVars, KeptInv, wanted
  <2> QED
    BY <1>2, <2>2, <2>3, <2>4, <2>5, <2>6, <2>7, <2>8, <2>9 DEF ConfigNext, GnssInit
<1> QED
  BY <1>1, <1>2, GnssConfigType, PTL DEF ConfigSpec

\* The receiver of a running daemon has its configuration, through resets too, but
\* after a RAM that could not be read or that others had set without the permanent
\* memory.
THEOREM GnssConfigRunsConfigured == ConfigSpec => []RunsConfigured
<1>1. KeptInv => RunsConfigured
  BY DEF KeptInv, RunsConfigured, Configured, Holds
<1> QED
  BY <1>1, GnssConfigKeptInvariant, PTL

\* The receiver knows all the settings that a version wants.
Accepts(v) == Known(ram, Wanted(v, conf))

\* A settled receiver keeps what it was left with, so that a start with the same
\* file and version finds nothing to configure.
SettledInv ==
  /\ settled # Nothing =>
       /\ settled[2] = conf /\ ~conf.rtcm
       /\ Accepts(settled[1]) =>
            /\ Same(ram, Wanted(settled[1], conf))
            /\ Same(flash, Wanted(settled[1], conf))
  /\ pc = "configure" /\ Accepts(version) => settled # <<version, conf>>
  /\ pc = "reset" => Accepts(version) /\ settled # <<version, conf>>

\* What settled remembers.
LEMMA SettledPair ==
  ASSUME ConfigTypeOK, settled # Nothing
  PROVE  settled[1] \in AnyVersion /\ settled[2] \in Confs
BY DEF ConfigTypeOK, AnyVersion

\* A file and a version are a pair, which is not Nothing.
LEMMA PairFields == \A v, c : <<v, c>>[1] = v /\ <<v, c>>[2] = c /\ <<v, c>> # Nothing
BY DEF Nothing

\* Writing what the receiver accepts leaves a settled one as it was.
LEMMA WrittenStays ==
  ASSUME ConfigTypeOK, Accepts(version), NEW v \in AnyVersion, Accepts(v), NEW layer
  PROVE  Same(Write(layer, wanted), Wanted(v, conf))
<1>1. firmware \in Versions /\ version \in AnyVersion /\ DOMAIN ram = Ids[firmware]
  BY DEF ConfigTypeOK, AnyVersion
<1>2. Wanted(v, conf) = Wanted(version, conf)
  BY <1>1, AcceptedSame DEF Accepts
<1> QED BY <1>1, <1>2, WantedWritten DEF wanted

\* Every step keeps it: another version of a start is refused by the receiver, or
\* wants the same.
LEMMA SettledStep ==
  ASSUME ConfigTypeOK, KeptInv, SettledInv, [ConfigNext]_configVars
  PROVE  SettledInv'
<1>0. version \in AnyVersion
  BY DEF ConfigTypeOK, AnyVersion
<1>1. ASSUME UNCHANGED <<ram, flash, conf, settled>>, pc' \notin {"configure", "reset"}
      PROVE  SettledInv'
  BY <1>1 DEF SettledInv, Accepts
<1>2. CASE Start \/ GetVersion \/ Stop
  BY <1>1, <1>2 DEF Start, GetVersion, Stop, Fails, receiver, history
<1>3. CASE CheckConfigInRam
  <2>1. /\ UNCHANGED <<ram, flash, conf, settled, version>>
        /\ pc' \in {"rtcm", "configure"} /\ (pc' = "configure" => ~Same(ram, wanted))
    BY <1>3 DEF CheckConfigInRam, receiver
  <2>2. ASSUME ~Same(ram, wanted), Accepts(version) PROVE settled # <<version, conf>>
    <3>1. settled = <<version, conf>> => settled # Nothing /\ settled[1] = version
      BY PairFields
    <3> QED BY <2>2, <3>1 DEF SettledInv, wanted
  <2> QED BY <2>1, <2>2 DEF SettledInv, Accepts
<1>4. ASSUME Written(wanted), Accepts(version), UNCHANGED <<conf, settled>>
      PROVE  /\ \A v : Accepts(v)' = Accepts(v)
             /\ settled' # Nothing =>
                  /\ settled'[2] = conf' /\ ~conf'.rtcm
                  /\ Accepts(settled[1]) => /\ Same(ram', Wanted(settled[1], conf))
                                            /\ Same(flash', Wanted(settled[1], conf))
  <2>1. DOMAIN ram' = DOMAIN ram /\ ram' = Write(ram, wanted) /\ flash' = Write(flash, wanted)
    BY <1>4 DEF Written, Write
  <2>2. \A v : Accepts(v)' = Accepts(v)
    BY <1>4, <2>1 DEF Accepts, Known
  <2>3. ASSUME settled # Nothing, Accepts(settled[1])
        PROVE  /\ Same(ram', Wanted(settled[1], conf))
               /\ Same(flash', Wanted(settled[1], conf))
    BY <1>4, <2>1, <2>3, SettledPair, WrittenStays
  <2> QED BY <1>4, <2>2, <2>3 DEF SettledInv
<1>5. CASE ConfigureFails
  <2>1. /\ UNCHANGED <<conf, version, settled>> /\ pc = "configure"
        /\ pc' \in {"configure", "down"}
        /\ UNCHANGED <<ram, flash>> \/ (Written(wanted) /\ Known(ram, wanted))
    BY <1>5 DEF ConfigureFails, Fails, history, receiver
  <2>2. CASE UNCHANGED <<ram, flash>>
    BY <2>1, <2>2 DEF SettledInv, Accepts
  <2>3. CASE Written(wanted) /\ Known(ram, wanted)
    <3>1. Accepts(version) /\ settled # <<version, conf>>
      BY <2>1, <2>3 DEF Accepts, wanted, SettledInv
    <3> QED BY <1>4, <2>1, <2>3, <3>1 DEF SettledInv
  <2> QED BY <2>1, <2>2, <2>3
<1>6. CASE Configure
  <2>1. /\ UNCHANGED <<conf, version, settled>> /\ pc = "configure" /\ pc' = "reset"
        /\ Written(wanted) /\ Known(ram, wanted)
    BY <1>6 DEF Configure, history
  <2>2. Accepts(version) /\ settled # <<version, conf>>
    BY <2>1 DEF Accepts, wanted, SettledInv
  <2> QED BY <1>4, <2>1, <2>2 DEF SettledInv
<1>7. ASSUME ram' = flash, UNCHANGED <<flash, conf, settled>>, pc' \notin {"configure", "reset"}
      PROVE  SettledInv'
  <2>1. \A v : Accepts(v)' = Accepts(v)
    BY <1>7 DEF Accepts, Known, ConfigTypeOK
  <2> QED BY <1>7, <2>1 DEF SettledInv
<1>8. CASE Reset \/ ActionReset
  BY <1>1, <1>7, <1>8 DEF Reset, ActionReset, Fails, history
<1>9. CASE SetRtcmConfig
  <2>1. /\ UNCHANGED <<conf, settled>> /\ pc' = "start"
        /\ UNCHANGED <<ram, flash>> \/ conf.rtcm
    BY <1>9 DEF SetRtcmConfig, history, receiver
  <2>2. CASE conf.rtcm
    <3>1. settled = Nothing
      BY <2>2 DEF SettledInv
    <3> QED BY <2>1, <3>1 DEF SettledInv
  <2> QED BY <1>1, <2>1, <2>2
<1>10. CASE StartReceiver
  <2>1. /\ UNCHANGED <<ram, flash, conf, version>> /\ pc = "start" /\ pc' \in {"running", "down"}
        /\ settled' = settled \/ settled' = Nothing
             \/ (settled' = <<version, conf>> /\ ~conf.rtcm /\ ~unread /\ ~ramOnly)
    BY <1>10 DEF StartReceiver, Fails, receiver
  <2>2. CASE settled' = settled
    BY <1>1, <2>1, <2>2
  <2>3. CASE settled' = Nothing
    BY <2>1, <2>3 DEF SettledInv
  <2>4. CASE settled' = <<version, conf>> /\ ~conf.rtcm /\ ~unread /\ ~ramOnly
    <3>1. Same(ram, wanted) /\ Same(flash, wanted)
      BY <2>1, <2>4, HoldsIs DEF KeptInv
    <3>2. settled'[1] = version /\ settled'[2] = conf
      BY <2>4, PairFields
    <3> QED BY <2>1, <2>4, <3>1, <3>2 DEF SettledInv, wanted
  <2> QED BY <2>1, <2>2, <2>3, <2>4
<1>11. CASE EditConf \/ OtherTool
  BY <1>11 DEF EditConf, OtherTool, SettledInv
<1>12. CASE UNCHANGED configVars
  BY <1>12 DEF configVars, SettledInv, Accepts
<1> QED
  BY <1>2, <1>3, <1>5, <1>6, <1>8, <1>9, <1>10, <1>11, <1>12 DEF ConfigNext, GnssInit

\* It is an invariant of every start after the settled one.
THEOREM GnssConfigSettledInvariant == ConfigSpec => []SettledInv
<1>1. ConfigInit => SettledInv
  BY DEF ConfigInit, SettledInv
<1> QED
  BY <1>1, SettledStep, GnssConfigType, GnssConfigKeptInvariant, PTL DEF ConfigSpec

\* A start does not reset a receiver that the last one left configured for the same
\* file and version.
THEOREM GnssConfigQuietRestart == ConfigSpec => QuietRestart
<1>1. SettledInv => (pc = "reset" => settled # <<version, conf>>)
  BY DEF SettledInv
<1>2. SettledInv /\ [ConfigNext]_configVars =>
        [pc = "reset" /\ ram' = flash /\ pc' # "down" => settled # <<version, conf>>]_configVars
  BY <1>1
<1> QED
  BY <1>2, GnssConfigSettledInvariant, PTL DEF ConfigSpec, QuietRestart

=============================================================================
