# A TLA+ model of oscillatord

oscillatord disciplines the oscillator of a time card (Orolia ART card and
others) against a GNSS receiver. This directory holds TLA+ modules translated
from its C sources, the TLC configurations that check them on small instances,
and TLAPS proofs of what matters most. Paths below are relative to the
repository.

## 1. The system

### Parts, their state and how they interact

| Part | State it keeps | Operations |
|---|---|---|
| main thread, `src/oscillatord.c` | `loop`, `ignore_next_irq`, the `od_input` it builds, `dsc_params`, the handle `save_dsc_params_thread` | start-up, one iteration per PPS (measure, feed the algorithm, apply its output, serve one monitoring request), calibration, shutdown |
| phasemeter, `src/phasemeter.c` | `status`, `phase_error`, `stop`, the thread's two timestamps | pair PPS timestamps of the PHC, publish, `get_phase_error`, `phasemeter_stop` |
| GNSS thread, `src/gnss.c` | the session (fix, `valid`, TAI time, qErr, survey), `action`, `stop`, RTCM client | collect epochs, signal `cond_data` and `cond_time`, perform an action, forward RTCM, set the PHC's time |
| monitoring socket, `src/monitoring.c` | `global_state[fd]`, `request`, copies of the data it publishes | epoll loop, receive and parse a request, store it for main, answer, stop |
| EEPROM storage, `common/eeprom_config.c` | two files: disciplining configuration, temperature table, each of version 0 or 1 | read both at start-up, write both (main, save threads, shutdown) |
| configuration file, `common/config.c` | key-value pairs, devices found in sysfs | parse, get, set, `config_save` |
| oscillators, `src/oscillators/*.c`, `src/oscillator*.c` | device handle, control values, SA5x disciplining state | control, attributes, calibrate, apply output |
| NTP shared memory and PPS, `src/ntpshm/*.c` | SysV segment with a count and a valid flag, last PPS edges | PPS edge thread, writer, reader |
| receiver configuration, `common/gnss-config.c` | configuration key-values | build, send, verify |
| disciplining algorithm, external `liboscillator-disciplining` | calibration and learned parameters | `od_process`, `od_get_disciplining_parameters`, `od_calibrate` |
| utilities, tests, production tests, logging | none shared with the daemon | one-shot programs, output |

Main waits on three condition variables: `phasemeter->cond` (in
`get_phase_error`), `gnss->cond_data` (`gnss_get_epoch_data`) and
`gnss->cond_time` (`gnss_get_next_fix_tai_time`). None of these waits tests a
predicate or has a timeout. The monitoring thread hands a request to main
through one slot, main hands GNSS actions to the GNSS thread through another,
and the GNSS thread writes into the monitoring structure. Save threads, created
hourly and on request, share `od` and the EEPROM files with main; only the last
one created can be joined.

### What is hard about it

* Pairing two pulse trains either of which may stop, in either order, and not
  using a pulse captured before the PHC was stepped.
* Stopping: a signal only clears `loop`; main must come out of whatever it
  waits for and get through three joins, each on a thread that waits for a device.
* Two files written one after the other, by several threads without a lock, with
  failing writes and crashes in between, and a start-up that refuses to run
  if only one file has a header.
* An event loop over a table indexed by reusable descriptors, fed by byte streams.

`PROJECT.json` lists the hazards at their lines, with the properties that
would catch each.

### What makes each part correct

* phasemeter: a measurement is the true phase of the card; no pulse is used twice.
* main: no stale phase reaches the algorithm; requests are not dropped once taken;
  a signal ends the daemon.
* EEPROM: the final parameters are stored; crashes do not make the card unusable;
  old parameters do not replace new ones; od is not used after it is destroyed.
* monitoring: each client gets the answers to its own requests, every request
  gets one, actions reach the thread that performs them, the structure outlives
  its users.
* GNSS thread: what main reads belongs together and is of the last epoch; the PHC
  is left on the receiver's second.
* RTCM socket: a descriptor is closed once and by its owner; the shutdown ends.
* receiver configuration: a running daemon has the receiver it asked for, and
  does not reset it without need.
* NTP shared memory and PPS: a reader never takes a torn sample, and a sample
  names the right second.
* oscillators: readings belong to their commands, control words stay in range,
  the SA5x state follows fix, PPS and lock.

## 2. Modules

| Module | Models | Checked by |
|---|---|---|
| `Phasemeter` (`MCPhasemeter`) | `phasemeter.c`, the PHC's timestamp FIFO as environment | TLC, `PhasemeterProofs` |
| `PhaseService` | abstract: what the phasemeter promises its callers | implemented by `Phasemeter` (TLC, `PhasemeterProofs`) |
| `Oscillatord` | control of main, with the phasemeter, GNSS and save threads reduced to what main waits for | TLC, `OscillatordProofs` |
| `Eeprom` (`MCEeprom`) | the two EEPROM files, `config_save`, all writers, crashes and restarts | TLC, `EepromProofs` |
| `Monitoring` | the socket server, the request slot, the GNSS action slot, the shutdown of both | TLC, `MonitoringProofs` |
| `Gnss` | the session that the GNSS thread fills and main reads, the setting of the PTP clock | TLC, `GnssProofs` |
| `GnssConfig` (`MCGnssConfig`) | `gnss_init` and the receiver's layers of settings, `gnss-config.c` | TLC, `GnssProofs` |
| `Rtcm` | RTCM accept thread, forwarding, `gnss_stop`, the descriptor table | TLC, `RtcmProofs` |
| `NtpShm` | one segment of the NTP shared memory, `ntp_write`, `ntp_read`, `ntpshm_alloc` | TLC, `NtpProofs` |
| `PpsThread` | `gpsd_ppsmonitor`, the latch of fixes, activation and deactivation | TLC, `NtpProofs` |
| `Sa5x` | the SA5x driver in the monitoring loop | TLC, `OscillatordProofs` |
| `MRo50` | the mRO50 driver in the disciplining loop | TLC, `MRo50Proofs` |

The modules meet where the components do. `Oscillatord` composes main, the
phasemeter, the GNSS thread and the save threads at the level of what main
waits for; `Phasemeter`, `Gnss`, `Eeprom` and `MRo50` are the detailed views of
those four. `Monitoring` ends in the request slot that `MonitorStep` of
`Oscillatord` empties, and in the action slot of the GNSS thread. `PpsThread`
ends in the `ntpshm_put` that `NtpShm` takes apart. Every module has a
type invariant. `NtpProofs`, `GnssProofs` and `OscillatordProofs` extend two
modules each; the common names of the second one have a prefix for that reason
(`ShmInit`, `ConfigInit`, `Sa5xInit` and so on).

### Phasemeter

The PHC stamps pulses of the two signals into a FIFO: in second `s` the internal
pulse carries `s * SEC`, the GNSS pulse `s * SEC + offset`. `offset` is the
true phase and moves at any time. Pulses are lost, other channels interleave.
`ThreadStart`, `SkipOther`, `ReadFirst`, `ReadSecond`, `PublishBoth` and
`PublishMissing` are the stretches of `phasemeter_thread` between a read and a
critical section; a critical section is one step. `GetPhaseErrorWait` and
`GetPhaseErrorReturn` are the two halves of `get_phase_error` around
`pthread_cond_wait`, which may return on its own. Each event carries, as history,
its number and the phase it was captured under; the code has neither, the
properties compare with them.

### Oscillatord

`main` is the control point of the main thread: one of the blocking calls
(`Waits`) or a stretch of code up to the next one. `woken` says that the
condition it waits for was signalled; a signal with nobody waiting is lost, as
in the code. Each action is such a stretch, with its early returns (`continue`
after a failed read, `break` after an interrupted calibration) and its exits. A
phase is one bit, whether it was captured before the last step of the PHC.
A step of the clock makes everything captured so far `old`, queued, held by the
thread or published. `ignore_next_irq` drops one input, which is enough if the
phasemeter thread has read and published everything by the step (`Drained`) and
no wait for a phase returns on its own since. The history variable `missed`
says that it was not so; `FreshAfterJump` promises nothing then, and an old phase
does reach the algorithm in the model.
Monitoring requests other than `CALIBRATION` and `SAVE_EEPROM` do not change
the state of this module; their way is in `Monitoring`.

### Eeprom

A file is its format and the generation of the parameters in it; `Garbage`
stands for a part of a file or for memory that was not initialised. `writer[w]`
is the progress of each writer through `od_get_disciplining_parameters` and the
two `write_file` calls. `WriteFile` writes all, nothing or a part, and the next
file is written whatever happened to the first. `Boot` is the version test of
`read_disciplining_parameters_from_eeprom`, unreadable files included. `Crash` ends the process between any two steps. `trouble`
records, for the properties, what went wrong; a start forgets most of it, but
keeps the one bit (`earlier`) that an earlier run had overlapping saves or an
unreadable file. `ok` of a writer says that none of its calls has failed,
`od_get_disciplining_parameters` included, without which the save writes what it
had before. `config_save` tests neither `fwrite` nor `fclose`, so that
`ConfigWrite` may leave the configuration lost; only `calibrate_first` of it is
modelled, not what the cut at 1024 bytes removes. A header of a version other than
1 leads to the same refusal as a missing one and is not modelled apart.

### Monitoring

A request is two parts, head (from the opening brace) and tail. A client sends
them together or apart, may send a second request before the first is answered,
closes or resets its connection. `Parsed` is the byte loop of
`on_peer_ready_recv` on such parts: bytes before a brace and bytes behind a
complete object are dropped. Events of the epoll loop are actions; an event that
changes nothing (the early return with bytes staged, the failed parse of a
cleared buffer) is a stuttering step, which is what makes a split request and
a failed send hang. `request` starts with any value, since `monitoring_init`
does not set it.

### PhaseService

The interface of `phasemeter.h` as a service: a publication, a waiting call
that returns what is published at its return, both fields of one publication, a
stop after which there is at most one more publication, and nothing freed before
the end. `Phasemeter` instantiates it (`Service`): `shown` is `Publication` of
the published fields, the call and the end are read off the control points.
`ServiceImplemented` is the refinement, checked as a property.

### Gnss

All times are relative to the second in progress, so that the state space is
finite without a last second: a TAI time or a pulse of age 0 belongs to this
second, values older than `MaxAge` are not told apart. The receiver announces
the next pulse (`TimTp`), then completes the epoch (`EpochFix`, `EpochNoFix`);
any message may be lost, leap seconds come and go, the antenna fails, the line
is silent. A handler is one step under `mutex_data`; a condition wait of main
returns in a step of its own. `announced`, `prompt` and `fresh` are history.
An aberrant quantization error, which the code replaces by 0, is not told apart.

### GnssConfig

A setting is an id and a value; a line of the default tables expands to one or
several settings (`Key`, `Rate`, `Port`) as `_cfgDbAdd` expands it, and
`DefaultsLoad` checks that the tables pass `_cfgDbAddKeyVal`. Of the several
hundred lines of `f9_defvalsets.c` the model keeps one or two of each kind, with
the differences of the two firmware versions. The receiver has a RAM and a
permanent layer; a request may fail before or after it took effect. The daemon is
started again when `gnss_init` ends it. `settled`, what `QuietRestart` starts
from, is the configuration that a run left in both layers: what was written to
the RAM alone is gone at the next power-up, and a restart has to write it again.

### Rtcm

`owner` maps descriptors to connections: a closed number is given to the next
connection, of a client or of another part of the daemon. The critical sections
are steps, and so is every use of a descriptor outside them. The accept thread
starts before the mutex is initialised, and `struct gnss` is freed before its
last uses: what is found there then is intact, changed, or a crash.

### NtpShm and PpsThread

`NtpShm` makes a step of each access to the segment that another process can
see; fields hold the number of the sample they come from. The barriers of the
code are taken to work, so that accesses happen in program order, those of
`memcpy` in any. `PpsThread` counts milliseconds, because every threshold of the
code is one, and lets edges, fixes, the thread, a step of the system clock and
the shutdown interleave. `Classify` is stages two to four of the code. Both
keep, as history, the truth that a sample is compared with.

### Sa5x and MRo50

`Sa5x` is a round of the monitoring loop against a clock that disciplines
itself; the commands of the driver may fail, each of them. Times are ages as far
as the code compares them. `MRo50` is about the line: an answer is the command
it answers and the part of it that came; `pending` is what will be heard in the
next exchange. `Width` stands for 2^32, so that the wrap-around happens.

## 3. Runs

| Run | Bounds | Shows |
|---|---|---|
| `phasemeter` | half a second = 2 ticks, phases -1 and 2, 3 seconds of pulses, 2 queued | measurements are true, pulses used once, the inductive invariant holds, `PhaseService` is implemented |
| `oscillatord` | 1 queued pulse, 2 calibration measures, both requests, spurious wake-ups | no stale phase after a jump; a taken calibration request reaches the algorithm; a signal ends the daemon |
| `eeprom` | 2 save threads, 2 generations, 2 starts | writers and joins (`EepromInv`); what the stored files may hold, when the daemon refuses to start, when the calibration is stored |
| `monitoring` | 2 clients on 1 descriptor, 2 requests in all | answers, requests taken once, freeing, answers and shutdown eventually |
| `ntpshm` | 1 consuming reader, 3 samples, 1 restart | when a torn sample is accepted; a consumer never goes back, and takes a sample twice only if it took it early |
| `pps` | pulses of one or two visible edges, 4 seconds, 1 step of the clock | the right second, a good pulse is reported, the thread ends |
| `gnss` | ages to 3 s, PTP clock right or 2 s off, both time bases | quantization error of the same pulse; a frozen time is caught |
| `gnss_config` | 4 files, 3 changes by others, 3 failing requests, 2 tries | configured when running, no needless reset, eventually running |
| `rtcm` | 3 clients, 2 descriptors | descriptors closed once and by their owner, the shutdown ends |
| `sa5x` | phases of 1 and 3 rounds, a day of 3, 2 failing commands | TAU of the phase, kept in holdover, disciplining comes back |
| `mro50` | 4 coarse values, 4 faults, 3 moves | readings of their own command, moves by one, inputs go on |
| `gnss_valid` | ages to 2 s | **violated**: `ValidMeansFix` |

The bounds let the interesting cases happen. Phases of either sign and the edge
of half a second, where pulses of neighbouring seconds pair, need two ticks and
three seconds. Two
save threads are what it takes to overwrite a handle, and two starts to read
back what a crash left. One descriptor and two clients force its reuse, and two
requests on a connection the second round of the buffer. Three samples are one
that was read, one that is being read and one that overwrites it. Four seconds are
what the PPS thread needs to lock on (two), to lose an edge or a fix and to go
on; its shapes are the two that a kernel PPS device delivers (`Waves`; the
inverted, square and 0.5 Hz ones of `EdgesOf` would make the run too long, and
the proofs cover them). A clock set to a frozen time shows a difference at an age of
two at the latest. Three clients are one that is replaced, one that replaces it
and one that gets its number. Two faults of the SA5x are a lost reading and a
failed command in the same latch.

Deadlock is checked in `oscillatord`, where a finished process stutters
explicitly, and in `sa5x`, which never rests. In `oscillatord` it says little: a
signal or a request of a client can always come, so that there is a next step
even when every thread is blocked. That the threads do not block is what
`SignalEndsDaemon` and `CalibrationReachesAlgorithm` say, under fairness and with
their exceptions. The check is off where the environment is
bounded (`phasemeter`, `pps`, `ntpshm`: pulses or samples end; `mro50`) or where
the system may come to rest (`eeprom`: no more starts; `monitoring`, `rtcm`: the
structure is freed; `gnss_config`: the daemon runs; `gnss`).

### Fairness

`Oscillatord`: the internal PPS is the card's own and never stops; threads are
scheduled; `ReadSecond` is strongly fair because two signals of 1 Hz do not stay
more than 500 ms from each other in every pair; the GNSS thread signals
`cond_data` at the latest after `GNSS_TIMEOUT_MS`; reading the oscillator
succeeds again and again (`ReadCtrl` strongly fair). Nothing is assumed of the
receiver's PPS or fix, of clients or of signals. There are three places where the code cannot be stopped. `SignalEndsDaemon`
excludes two of them by name: the initial measurement and the wait for a TAI time.
The third is excluded by the fairness: that `cond_data` is signalled (`GnssData`)
and that the GNSS thread ends (`GnssExit`) is true only while no RTCM client
blocks its send. `Rtcm` has that case (`Blocked`), and `StopEnds` excepts it.

`Monitoring`: every round of the epoll loop handles all that is ready and
then tests `stop`; the GNSS thread and the joins make progress, which for
`ShutdownCompletes`, too, supposes that the RTCM send does not block. Nothing is
assumed of the clients of the monitoring socket. `RequestAnswered` excludes connections on which the request was split
or pipelined, closed, or whose answer could not be sent, and a monitoring
thread that returned after an accept error.

`PpsThread`: the thread is scheduled, and `time_pps_fetch` returns after three
seconds at the latest; nothing of edges or fixes. `Rtcm`: the three threads run;
nothing of clients, so that one that does not read blocks the GNSS thread.
`GnssConfig`: the daemon is started again and its requests have timeouts; that
they succeed in the end is the bound on faults. `Sa5x`: rounds and time go on.
`MRo50`: every exchange ends with the silence of the line.

### Findings

`gnss_valid`: an epoch without a fix leaves `valid` as it was
(`src/gnss.c:1092`); the comment at `src/gnss.c:851` promises "Fix >= 2D +
FixOk".

Other places where the code does less than its documents or logs say. The models
take them, and the properties name them as exceptions. A property with an exception
says that nothing else leads to the failure; where a hazard of `PROJECT.json`
has such a case, its note says so, and the failing case itself is the code's
behaviour, not something a run would catch:

* The start-up loop (`src/oscillatord.c:343`) and the wait for a TAI time do not
  test `loop`, so that a signal does not end the daemon there; README.md:71 says
  it "can be terminated with a SIGINT (Ctrl+C) or a SIGTERM". Exception of
  `SignalEndsDaemon`.
* A phase jump with a timestamp still unread or a publication outstanding, or a
  wait for a phase that returns on its own after it, hands a phase from before the
  jump to the algorithm (`src/oscillatord.c:416`). Exception `missed` of
  `FreshAfterJump`.
* When `od_get_disciplining_parameters` fails in the save after a calibration,
  the old parameters are written and `calibrate_first` is cleared all the same
  (`src/oscillatord.c:502-521`): the calibration is lost. Exception
  (`writer[MAIN].ok`) of `CalibrationSavedFirst`; so are failed writes.
* Saves that overlap or are cut short leave the files of two saves, both with a
  valid header, and the next start takes them. Exceptions of `OneGeneration`.
* `config_save` tests no result of its writes (`common/config.c:210`); a
  configuration that is lost stops the next start. Exception of
  `RefusalExplained`.
* The shutdown joins `save_dsc_params_thread` even if no save thread was ever
  created (`src/oscillatord.c:684`); a crash in `JoinSaver` of `Oscillatord`.
* `write_disciplining_parameters_in_eeprom` returns 0 after failed writes, and its
  callers log that the parameters were saved. Exceptions of
  `FinalParametersStored` and `RefusalExplained`.
* The rest of a request that arrives in two pieces is never read
  (`src/monitoring.c:217`). Exception of `RequestAnswered`.
* `gnss_set_action` refuses the serial reset that main forwards and a client was
  told of (`src/gnss.c:1271`); `GnssSetAction` of `Monitoring`.
* `monitoring->request` is not initialised (`src/monitoring.c:707`).
* The comment at `src/gnss.c:635` says that frames are written "without blocking";
  the send blocks, and with it the data of main, the join of the GNSS thread and so
  the shutdown by a signal. Exception `Blocked` of `StopEnds`, and excluded by the
  fairness of `SignalEndsDaemon` and `ShutdownCompletes`.
* A failed reopening leaves a closed number in `serial_fd`
  (`src/oscillators/mRo50_oscillator.c:179`). `CleanSerial` takes commands to it as
  not sent; that another thread's new descriptor may have the number, get the
  commands and be closed next time is not modelled.
* The RTCM settings contradict the default ones, so that with RTCM every start
  configures and resets the receiver; `QuietRestart` is without RTCM.
* A fix that is two to three seconds old passes the test at
  `src/ntpshm/ppsthread.c:1196` and names the wrong second. Exception of
  `SecondRight`.
* The SA5x driver advances its phase in holdover and, after a latch, calls the clock
  locked or calibrating, in spite of "keep TAU unchanged". Exceptions of
  `HoldoverKeepsTau`.

## 4. Proofs

Eight modules hold the proofs. Each theorem is about `Spec` (`ShmSpec`,
`Sa5xSpec`, `ConfigSpec`), without fairness and for all values of the constants
that the module's `ASSUME` admits; a run that checks `FairSpec` checks fewer
behaviours. Every proof has the same shape: the types, an inductive invariant, one
case per action, and the property from the invariant. The invariants were
checked by TLC on the configurations of section 3 before they were proved.

### Phasemeter, `PhasemeterProofs`

For every length of a second, set of phases, number of pulses and size of the FIFO.

* `PhasemeterType`: `[]TypeOK`; a published phase error is at most half a second.
* `PhasemeterInvariant`: `[]PhasemeterInv`. `MeasurementTrue` is about what the
  caller holds and is not inductive. The invariant adds that every pulse in the
  FIFO and in the thread carries the PHC's stamp (`Stamped`, `Held`), that the
  pulses from the last published one to the end of the FIFO are numbered in
  order (`QueueOrdered`) and that the published pair is true (`PublishedTrue`).
  The arithmetic is in `DifferenceIsPhase` and `BothMeasuresPhase`: a difference
  of at most half a second between pulses of a whole number of seconds apart,
  under one phase, is that phase, or its opposite at the edge.
* `PhasemeterMeasurementTrue`, `PhasemeterPulseUsedOnce` follow from it.
* `PhasemeterImplementsService`: `Phasemeter` implements `PhaseService`, each step
  mapped to a step of the service or a stutter. The mapping needs
  `StopDiscipline`: `stop` is set exactly when the caller is in `phasemeter_stop`,
  the thread's copy of it is never ahead, and a thread that looks for a second
  pulse has not seen it. That is why at most one publication follows a stop.

### EEPROM, `EepromProofs`

For every number of save threads, generations and starts.

* `EepromType`; `EepromInvariant`: as long as no handle was overwritten the handle
  names the only save thread (`OneSaver`), none is left after the join
  (`QuietAfterJoin`), and none has run on past it (`LateSaverEscaped`).
* `EepromRefusalExplained` from `UpgradeInv` (`EepromUpgradeInvariant`): the second file of an upgrade is
  written after the first, so their formats differ only while a save is at the
  second, or after one that was cut short or failed.
* `EepromFinalParametersStored` from `FinalInv`: the last save as far as it has
  got, file by file.
* `EepromNeverOlder`, `EepromCalibrationSavedFirst` from `SaveInv`
  (`EepromSaveInvariant`): without an overlap one writer writes, what it writes od
  has passed, and is not older than what the files hold. `CalibrationInv` follows
  the save after a calibration: unless one of its calls failed, it writes what
  od has, and what od has is in the files it is past.
* `EepromOneGeneration` from `GenerationInv`: od and every writer have parameters
  of one generation, and a writer at the second file has just written the first.

### Main and the SA5x, `OscillatordProofs`

* `OscillatordFreshAfterJump`, for any size of the queue and number of calibration
  measures, from `FreshInv`: in the loop at most the first timestamp of a pair
  is from before the jump, and only until main is woken for a phase (`PulsesInv`); a
  phase measured across the jump comes with `ignore_next_irq` (`MeasuresInv`).
  Property and invariant hold as long as the jump was not `missed`.
* `Sa5xTauOfPhase`, `Sa5xHoldoverKeepsTau`, for any duration of the phases and
  number of failing commands; with the types they are inductive.

### GNSS, `GnssProofs`

* `GnssQErrOfPhase`, for any `MaxAge`, from `QErrInv`: in which of the two places
  the errors of the last two announcements are.
* `GnssFrozenTimeCaught` from `FrozenInv`: while no announcement comes, each wait
  takes an epoch, of which a second has one, so that the time read for the
  comparison is older than the clock.
* `GnssConfigRunsConfigured` and `GnssConfigQuietRestart`, for any configuration
  files, number of attempts, of foreign changes and of failures, from `KeptInv`
  (a receiver that was written and reset has what is wanted in both layers) and
  `SettledInv` (a settled one keeps it). What goes to the receiver is a
  sequence of settings of which a later one wins; that it agrees with what is
  compared afterwards rests on an id appearing once, which is the assumption
  `DefaultsLoad` on the tables of the code that TLC evaluates. The proof showed a
  restart that is not quiet: after a start that could write the RAM alone. The
  model excludes it from `settled` now, and a configuration file of the run makes
  it happen.

### NTP, `NtpProofs`

* `NtpShmTornExplained`, `NtpShmConsumedOnce`, for any number of readers, samples and
  restarts. `SegmentInv` relates the parity of the count to the progress of the
  writer; `ReaderInv` says that as long as the count is the even one that a reader
  took, what it has copied is what the segment holds. `ConsumedOnce` needs that
  a consumer has invalidated what it took.
* `PpsSecondRight`, for the five shapes of the signal, any width of the pulse, delay of
  the fixes and step of the clock, from `SecondInv`: what is still to come in a
  second (`DueInv`), what the kernel, the thread and its current edge have of
  this second and the one before (`KernelInv`, `PulseInv`, `CurInv`), that a fix is
  stamped in its own second (`FixInv`), and the sample about to be reported.
* `PpsGoodPulseReported`, for the same constants, from `GoodInv`. It says, by how
  many seconds in a row the thread kept up with (`Depth`), which stamps the
  kernel has (`KnownInv`), that the thread has the same ones and that its last
  edge is the kernel's (`FollowInv`), and when the sample is out (`ToldInv`). The
  preparation corrected the property: TLC refuted the invariant for an inverted
  pulse of 446 to 449 ms, whose opening edge the code takes for that of a
  square wave of the other direction (`ppsthread.c:1057`).

### mRO50, `MRo50Proofs`

`MRo50ReadingsAreOwn`, `MRo50CoarseByOne`, for every width of the registers and
number of faults. `LineInv`: before a command the rest of a status answer is
discarded, a whole status heard alone therefore answers the status command, and
leaves the line empty until both controls are read. `ControlInv`: the driver
knows the coarse value unless the algorithm moves it.

### RTCM, `RtcmProofs`

`RtcmNoneLeftOpen`, `RtcmOthersLeftAlone`, `RtcmHealthyClientKept`, for any number of
clients and descriptors. `HolderInv`: a descriptor of a client has exactly one
holder among the shared variable, the accept thread and the GNSS thread.
`ShutdownInv`: how far the threads are when `gnss_stop` gets on. `CopyInv`: until
the accept thread replaces the client, the GNSS thread's copy stands for it.

### Monitoring, `MonitoringProofs`

`MonitoringTakenOnce`, `MonitoringAnswersAreYours`, `MonitoringFreedUnused`, for any
number of clients, descriptors and messages. `RequestInv`: each open connection
has its own descriptor (`Connections`), and the requests of a client, in its
stream, in the buffer of its descriptor, in main's slot and in its answers, are
its own and in order. `ShutdownInv`: main frees after both threads are gone.

### Only model-checked

Liveness is out of the prover's reach: `SignalEndsDaemon`,
`CalibrationReachesAlgorithm`, `RequestAnswered`, `ShutdownCompletes`, `StopEnds`,
`ThreadEnds`, `EventuallyRuns`, `InputsGoOn`, `DiscipliningReturns`.

## 5. What is not modelled

* Option and configuration parsing, sysfs discovery, logging, the JSON text of
  answers: input and output without state that a property tells apart.
* Monitoring-only mode beyond its round with the SA5x.
* `get_edge_tiocmiwait`: the daemon never gives the PPS thread a serial port.
* SA3x, sim and dummy oscillators, the factory: one exchange or one formula per
  operation, no state of their own.
* The utilities and test programs: one-shot sequential programs.
* The inside of the external libraries (`liboscillator-disciplining`, ubloxcfg,
  json-c) and of the kernel; their outcomes are nondeterministic.
* Infinite loops inside one exchange with the mRO50 (a full answer buffer, a
  hang-up of the line): `Heard` takes every exchange to end.

## 6. Plan

Modelling is complete up to section 5, and every safety and action property that a
run checks is proved. Candidates for more proofs:

1. The safety halves of the liveness properties: a calibration request that main
   took is pending or being served until the algorithm has it, and a thread that
   was told to stop has no way back to its loop.
2. An abstract segment for `NtpShm`, which a reader takes in one step, implemented
   for readers whose segment was not cleared and whose count was even.
