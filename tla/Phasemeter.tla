----------------------------- MODULE Phasemeter -----------------------------
(***************************************************************************)
(* The phasemeter of oscillatord (src/phasemeter.c): a thread pairs        *)
(* the timestamps of two pulse-per-second signals, the ART card's internal *)
(* PPS and the GNSS receiver's PPS, and publishes their difference under a *)
(* mutex.  get_phase_error waits on a condition variable for the next      *)
(* publication and copies it.                                              *)
(*                                                                         *)
(* Environment: the PTP hardware clock (PHC) timestamps every pulse into a *)
(* FIFO.  Within second s the internal pulse carries s * SEC and the GNSS  *)
(* pulse s * SEC + offset, where `offset' is the true phase of the card.   *)
(* Pulses may be lost, other timestamping channels may interleave, and     *)
(* offset changes whenever the daemon or the oscillator moves the phase.   *)
(***************************************************************************)
EXTENDS Integers, Sequences

CONSTANTS
  HALF,      \* MILLISECONDS_500, in clock ticks; a second is twice that
  Offsets,   \* the phases the card may be at, each at most half a second
  MaxSec,    \* bound: seconds of pulses
  MaxQueue   \* bound: timestamps the PHC holds for the reader

ASSUME PhasemeterAssumption ==
  /\ HALF \in Nat \ {0}
  /\ Offsets \subseteq -HALF .. HALF
  /\ Offsets # {}
  /\ MaxSec \in Nat
  /\ MaxQueue \in Nat \ {0}

SEC == 2 * HALF

\* Indices of the external timestamp channels (EXTTS_INDEX_*); OTHER_INDEX is any
\* index that the thread did not enable, or a failed read (index < 0).
ART_INTERNAL == "ART_INTERNAL_PPS"
GNSS  == "GNSS_PPS"
OTHER_INDEX == "OTHER"
Sources == {ART_INTERNAL, GNSS}

\* enum PHASEMETER_STATUS, and the silent outcome of the 500 ms test.
BOTH == "BOTH_TIMESTAMPS"
NO_GNSS == "NO_GNSS_TIMESTAMPS"
NO_ART == "NO_ART_INTERNAL_TIMESTAMPS"
INIT == "INIT"
TOO_FAR == "TOO_FAR"
Status == {INIT, BOTH, NO_GNSS, NO_ART}

VARIABLES
  sec,          \* PHC second in progress
  due,          \* pulses of this second still to come
  offset,       \* true phase: GNSS pulse time minus internal pulse time
  emitted,      \* number of pulses so far; numbers each pulse
  extts,        \* FIFO of timestamps behind read_extts
  status,       \* phasemeter->status
  phase_error,  \* phasemeter->phase_error
  stop,         \* phasemeter->stop
  pc,           \* control point of phasemeter_thread
  lstop,        \* the thread's local copy of stop
  ts1, ts2,     \* the thread's two timestamps
  main,         \* control point of the calling (main) thread
  got,          \* what the last get_phase_error returned
  pair          \* history: the pulses of the last measurement, in reading order

env    == <<sec, due, offset, emitted>>
shared == <<status, phase_error, stop, pair>>
thread == <<pc, lstop, ts1, ts2>>
caller == <<main, got>>
vars   == <<sec, due, offset, emitted, extts, status, phase_error, stop,
            pc, lstop, ts1, ts2, main, got, pair>>

\* A timestamp event.  `n' numbers the pulse and `phase' records the offset
\* in force when it was captured; both are history, the code has neither.
Stamp(index, s, phase) == s * SEC + (IF index = GNSS THEN phase ELSE 0)

Event == [index: Sources \cup {OTHER_INDEX}, timestamp: Int, n: Nat,
          second: Nat, phase: Offsets]

NoEvent == [index |-> OTHER_INDEX, timestamp |-> 0, n |-> 0, second |-> 0,
            phase |-> CHOOSE o \in Offsets : TRUE]
NoPair  == <<NoEvent, NoEvent>>

\* phase_error is malloc'ed and never initialised: any value, never a result
\* unless status says so.  Uninit stands for it.
Uninit == SEC

Init ==
  /\ sec = 0 /\ due = Sources /\ offset \in Offsets /\ emitted = 0
  /\ extts = << >>
  /\ status = INIT /\ phase_error = Uninit /\ stop = FALSE
  /\ pc = "start" /\ lstop = FALSE /\ ts1 = NoEvent /\ ts2 = NoEvent
  /\ main = "run" /\ got = [status |-> INIT, phase_error |-> Uninit, pair |-> NoPair]
  /\ pair = NoPair

-----------------------------------------------------------------------------
(* The environment: the PHC and its pulses.                                *)

NewEvent(index, n) ==
  [index |-> index, timestamp |-> Stamp(index, sec, offset), n |-> n,
   second |-> sec, phase |-> offset]

\* The next pulse of this second, in the order of their instants, is captured
\* or lost (receiver PPS output off, FIFO full).
Pulse(index) ==
  /\ sec < MaxSec
  /\ index \in due
  /\ \A i \in due : Stamp(index, sec, offset) <= Stamp(i, sec, offset)
  /\ due' = IF due = {index} THEN Sources ELSE due \ {index}
  /\ sec' = IF due = {index} THEN sec + 1 ELSE sec
  /\ emitted' = emitted + 1
  /\ \/ Len(extts) < MaxQueue /\ extts' = Append(extts, NewEvent(index, emitted + 1))
     \/ UNCHANGED extts
  /\ UNCHANGED <<offset, shared, thread, caller>>

\* read_extts gets an event of another channel, or fails.
OtherEvent ==
  /\ Len(extts) < MaxQueue
  /\ sec < MaxSec
  /\ extts' = Append(extts, NewEvent(OTHER_INDEX, emitted))
  /\ UNCHANGED <<env, shared, thread, caller>>

\* The phase moves: drift, or apply_phase_offset on the PHC.
PhaseMoves ==
  /\ offset' \in Offsets
  /\ UNCHANGED <<sec, due, emitted, extts, shared, thread, caller>>

-----------------------------------------------------------------------------
(* phasemeter_thread                                                       *)

\* Entry: copy stop, enable both channels; a failed ioctl ends the thread.
ThreadStart ==
  /\ pc = "start"
  /\ lstop' = stop
  /\ pc' \in {"first", "exited"}
  /\ UNCHANGED <<env, extts, shared, ts1, ts2, caller>>

\* do ... while: an event of neither channel is read and dropped.
SkipOther ==
  /\ pc \in {"first", "second"}
  /\ extts # << >>
  /\ Head(extts).index \notin Sources
  /\ extts' = Tail(extts)
  /\ UNCHANGED <<env, shared, thread, caller>>

\* "Get first timestamp", then the test of while(!stop).
ReadFirst ==
  /\ pc = "first"
  /\ extts # << >>
  /\ Head(extts).index \in Sources
  /\ ts1' = Head(extts)
  /\ extts' = Tail(extts)
  /\ pc' = IF lstop THEN "exited" ELSE "second"
  /\ UNCHANGED <<env, shared, lstop, ts2, caller>>

\* Fault: the sign is not flipped when the GNSS pulse came first.
FaultTimestampDiff(a, b) == b.timestamp - a.timestamp

\* GNSS time minus internal time, whichever was read first.
TimestampDiff(a, b) ==
  IF a.index = GNSS THEN -(b.timestamp - a.timestamp)
                    ELSE b.timestamp - a.timestamp

\* Fault: the 500 ms test forgets negative differences.
FaultOutcome(a, b) ==
  IF a.index = b.index
  THEN IF a.index = ART_INTERNAL THEN NO_GNSS ELSE NO_ART
  ELSE IF TimestampDiff(a, b) <= HALF THEN BOTH ELSE TOO_FAR

\* What the pair (a, b) of successive timestamps amounts to.
Outcome(a, b) ==
  IF a.index = b.index
  THEN IF a.index = ART_INTERNAL THEN NO_GNSS ELSE NO_ART
  ELSE IF TimestampDiff(a, b) \in -HALF .. HALF THEN BOTH ELSE TOO_FAR

\* Fault: events of other channels are not skipped.
FaultReadSecond ==
  /\ pc = "second"
  /\ extts # << >>
  /\ extts' = Tail(extts)
  /\ ts2' = Head(extts)
  /\ pc' = "publish"
  /\ UNCHANGED <<env, shared, lstop, ts1, caller>>

\* "Get Second timestamp".  More than 500 ms apart: the second becomes the
\* first and the loop continues without taking the mutex (stop is not read).
ReadSecond ==
  /\ pc = "second"
  /\ extts # << >>
  /\ Head(extts).index \in Sources
  /\ extts' = Tail(extts)
  /\ IF Outcome(ts1, Head(extts)) = TOO_FAR
     THEN /\ ts1' = Head(extts)
          /\ UNCHANGED <<pc, ts2>>
     ELSE /\ ts2' = Head(extts)
          /\ pc' = "publish"
          /\ UNCHANGED ts1
  /\ UNCHANGED <<env, shared, lstop, caller>>

\* pthread_cond_signal: wakes the caller if it waits, otherwise is lost.
Signal == main' = IF main = "waiting" THEN "woken" ELSE main

\* Fault: the second timestamp of a measurement becomes the first of the next.
FaultPublishBoth ==
  /\ pc = "publish"
  /\ Outcome(ts1, ts2) = BOTH
  /\ status' = BOTH
  /\ phase_error' = TimestampDiff(ts1, ts2)
  /\ pair' = <<ts1, ts2>>
  /\ lstop' = stop
  /\ Signal
  /\ ts1' = ts2
  /\ pc' = "second"
  /\ UNCHANGED <<env, extts, stop, ts2, got>>

\* The critical section of a pair with both pulses; a fresh first timestamp
\* is read next, before stop is looked at.
PublishBoth ==
  /\ pc = "publish"
  /\ Outcome(ts1, ts2) = BOTH
  /\ status' = BOTH
  /\ phase_error' = TimestampDiff(ts1, ts2)
  /\ pair' = <<ts1, ts2>>
  /\ lstop' = stop
  /\ Signal
  /\ pc' = "first"
  /\ UNCHANGED <<env, extts, stop, ts1, ts2, got>>

\* Fault: the branches of a missing pulse do not copy stop.
FaultPublishMissing ==
  /\ pc = "publish"
  /\ Outcome(ts1, ts2) \in {NO_GNSS, NO_ART}
  /\ status' = Outcome(ts1, ts2)
  /\ Signal
  /\ ts1' = ts2
  /\ pc' = IF lstop THEN "exited" ELSE "second"
  /\ UNCHANGED <<env, extts, phase_error, stop, pair, lstop, ts2, got>>

\* The critical sections of a missing pulse: phase_error keeps its old value
\* and the second timestamp becomes the first.
PublishMissing ==
  /\ pc = "publish"
  /\ Outcome(ts1, ts2) \in {NO_GNSS, NO_ART}
  /\ status' = Outcome(ts1, ts2)
  /\ lstop' = stop
  /\ Signal
  /\ ts1' = ts2
  /\ pc' = IF stop THEN "exited" ELSE "second"
  /\ UNCHANGED <<env, extts, phase_error, stop, pair, ts2, got>>

-----------------------------------------------------------------------------
(* The calling thread: get_phase_error and phasemeter_stop.                *)

\* Lock and wait, releasing the mutex: no predicate is tested.
GetPhaseErrorWait ==
  /\ main = "run"
  /\ main' = "waiting"
  /\ UNCHANGED <<env, extts, shared, thread, got>>

\* pthread_cond_wait may return without a signal.
SpuriousWakeup ==
  /\ main = "waiting"
  /\ main' = "woken"
  /\ UNCHANGED <<env, extts, shared, thread, got>>

\* The mutex is held again: copy both fields and return.
GetPhaseErrorReturn ==
  /\ main = "woken"
  /\ got' = [status |-> status, phase_error |-> phase_error, pair |-> pair]
  /\ main' = "run"
  /\ UNCHANGED <<env, extts, shared, thread>>

StopRequest ==
  /\ main = "run"
  /\ stop' = TRUE
  /\ main' = "joining"
  /\ UNCHANGED <<env, extts, status, phase_error, pair, thread, got>>

\* pthread_join returns, the structure is freed.
StopJoined ==
  /\ main = "joining"
  /\ pc = "exited"
  /\ main' = "freed"
  /\ UNCHANGED <<env, extts, shared, thread, got>>

Environment == (\E i \in Sources : Pulse(i)) \/ OtherEvent \/ PhaseMoves
Thread == \/ ThreadStart \/ SkipOther \/ ReadFirst \/ ReadSecond
          \/ PublishBoth \/ PublishMissing
Caller == \/ GetPhaseErrorWait \/ SpuriousWakeup \/ GetPhaseErrorReturn
          \/ StopRequest \/ StopJoined

Next == Environment \/ Thread \/ Caller

Spec == Init /\ [][Next]_vars

-----------------------------------------------------------------------------
(* Properties                                                              *)

\* Types; phase_error is an int32_t assigned from an int64_t difference, and
\* never holds more than half a second.
TypeOK ==
  /\ sec \in Nat /\ emitted \in Nat /\ offset \in Offsets
  /\ due \in SUBSET Sources /\ due # {}
  /\ extts \in Seq(Event)
  /\ status \in Status /\ phase_error \in -HALF .. HALF \cup {Uninit} /\ stop \in BOOLEAN
  /\ pc \in {"start", "first", "second", "publish", "exited"}
  /\ lstop \in BOOLEAN /\ ts1 \in Event /\ ts2 \in Event
  /\ main \in {"run", "waiting", "woken", "joining", "freed"}
  /\ got \in [status: Status, phase_error: Int, pair: Event \X Event]
  /\ pair \in Event \X Event

\* v is the phase of the card that the two pulses of p were captured under:
\* exactly, or one second away at the very edge of half a second.  Nothing is
\* asked of a pair that straddles a phase move.
IsPhaseOf(v, p) ==
  p[1].phase = p[2].phase =>
    \/ v = p[1].phase /\ p[1].second = p[2].second
    \/ p[1].phase \in {HALF, -HALF} /\ v = -p[1].phase

\* A phase error handed out with BOTH_TIMESTAMPS is the true phase of the
\* card, however many pulses of either signal were lost, whatever other
\* channel interleaved and whichever signal came first, and lies within half
\* a second: the comparison of indices, the sign flip and the 500 ms test of
\* phasemeter_thread, and get_phase_error copying both fields under the mutex.
MeasurementTrue ==
  got.status = BOTH =>
    /\ got.phase_error \in -HALF .. HALF
    /\ {got.pair[1].index, got.pair[2].index} = Sources
    /\ IsPhaseOf(got.phase_error, got.pair)

\* A pulse serves in at most one measurement, and measurements follow the
\* order of the pulses: after BOTH_TIMESTAMPS a fresh first timestamp is read.
PulseUsedOnce == [][pair' # pair => pair'[1].n > pair[2].n /\ pair'[1].n < pair'[2].n]_vars

\* The inductive invariant behind both: every queued pulse carries the PHC's
\* stamp and the pulses from the one before ts1 to the end of the FIFO are in
\* the order of their emission.
Stamped == {e \in Event : e.index \in Sources =>
                            e.timestamp = Stamp(e.index, e.second, e.phase)}

PublishedTrue ==
  status = BOTH =>
    /\ phase_error \in -HALF .. HALF
    /\ {pair[1].index, pair[2].index} = Sources
    /\ IsPhaseOf(phase_error, pair)

\* The pulses the thread holds or has just published.
Held == /\ pc \in {"second", "publish"} =>
             ts1 \in Stamped /\ ts1.index \in Sources /\ ts1.n > pair[2].n
        /\ pc = "publish" => /\ ts2 \in Stamped /\ ts2.index \in Sources
                             /\ ts2.n > ts1.n
                             /\ Outcome(ts1, ts2) # TOO_FAR

\* The number of the last pulse the thread took from the FIFO.
LastRead == CASE pc = "publish" -> ts2.n
              [] pc = "second"  -> ts1.n
              [] OTHER          -> pair[2].n

QueueOrdered ==
  /\ LastRead <= emitted
  /\ \A i \in 1 .. Len(extts) :
       /\ extts[i].n <= emitted
       /\ extts[i].index \in Sources => extts[i].n > LastRead
       /\ \A j \in 1 .. i - 1 :
            extts[i].index \in Sources /\ extts[j].index \in Sources
              => extts[j].n < extts[i].n

PhasemeterInv ==
  /\ extts \in Seq(Stamped)
  /\ Held
  /\ QueueOrdered
  /\ PublishedTrue

-----------------------------------------------------------------------------
(* What the phasemeter promises, and that it keeps it                      *)

\* A status and a phase error as the callers of get_phase_error see them.
Publication(s, v) ==
  [status |-> IF s \in {NO_GNSS, NO_ART} THEN "MISSING" ELSE IF s = BOTH THEN "BOTH" ELSE "INIT",
   phase_error |-> v]

Service == INSTANCE PhaseService WITH
  shown <- Publication(status, phase_error),
  got   <- Publication(got.status, got.phase_error),
  call  <- IF main \in {"waiting", "woken"} THEN main ELSE "none",
  stop  <- stop,
  spent <- lstop,
  over  <- pc = "exited",
  freed <- main = "freed"

\* The thread, its pulses and its mutex implement the service: every call gets
\* one publication whole, a missing pulse keeps the last phase error, at most
\* one publication follows phasemeter_stop, and phasemeter_stop frees nothing
\* that the thread still uses.
ServiceImplemented == Service!Spec

=============================================================================
