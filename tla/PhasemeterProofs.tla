-------------------------- MODULE PhasemeterProofs --------------------------
(***************************************************************************)
(* Safety of the phasemeter for every half second, every set of phases and *)
(* every bound: type correctness, the truth of the measurements handed out *)
(* the single use of each pulse, and that the thread and its caller        *)
(* implement the service of PhaseService.                                  *)
(***************************************************************************)
EXTENDS Phasemeter, TLAPS

\* A non-zero number of whole seconds is at least a second either way: what
\* makes the 500 ms test of phasemeter_thread select pulses of one second.
LEMMA WholeSeconds ==
  ASSUME NEW k \in Int, NEW S \in Nat
  PROVE  /\ k >= 1 => k * S >= S
         /\ k <= -1 => k * S <= -S
         /\ k = 0 => k * S = 0
<1>1. k >= 1 => k * S >= S
  <2> SUFFICES ASSUME k >= 1 PROVE k * S >= S
    OBVIOUS
  <2>1. (k - 1) * S >= 0 OBVIOUS
  <2>2. (k - 1) * S = k * S - S OBVIOUS
  <2> QED BY <2>1, <2>2
<1>2. k <= -1 => k * S <= -S
  <2> SUFFICES ASSUME k <= -1 PROVE k * S <= -S
    OBVIOUS
  <2>1. (-1 - k) * S >= 0 OBVIOUS
  <2>2. (-1 - k) * S = -S - k * S OBVIOUS
  <2> QED BY <2>1, <2>2
<1> QED BY <1>1, <1>2

\* The difference of a GNSS pulse g and an internal pulse i captured under
\* one phase, when it is within half a second, is that phase.
LEMMA DifferenceIsPhase ==
  ASSUME NEW g \in Stamped, NEW i \in Stamped,
         g.index = GNSS, i.index = ART_INTERNAL,
         g.phase = i.phase,
         g.timestamp - i.timestamp \in -HALF .. HALF
  PROVE  \/ g.timestamp - i.timestamp = g.phase /\ g.second = i.second
         \/ g.phase \in {HALF, -HALF} /\ g.timestamp - i.timestamp = -g.phase
<1> DEFINE k == g.second - i.second
           o == g.phase
<1>1. HALF \in Nat /\ HALF > 0 /\ SEC \in Nat /\ SEC = 2 * HALF
  BY PhasemeterAssumption DEF SEC
<1>2. g.second \in Nat /\ i.second \in Nat /\ o \in -HALF .. HALF
  BY PhasemeterAssumption DEF Stamped, Event
<1>3. g.timestamp = g.second * SEC + o /\ i.timestamp = i.second * SEC
  BY <1>1, <1>2 DEF Stamped, Stamp, Sources, GNSS, ART_INTERNAL
<1>4. g.timestamp - i.timestamp = k * SEC + o
  <2>1. g.second * SEC - i.second * SEC = k * SEC
    BY <1>1, <1>2
  <2>2. g.second * SEC \in Int /\ i.second * SEC \in Int
    BY <1>1, <1>2
  <2> QED BY <1>1, <1>2, <1>3, <2>1, <2>2
<1>5. /\ k >= 1 => k * SEC >= SEC
      /\ k <= -1 => k * SEC <= -SEC
      /\ k = 0 => k * SEC = 0
  BY <1>1, <1>2, WholeSeconds
<1>6. k * SEC \in Int BY <1>1, <1>2
<1> HIDE DEF k, o
<1>7. k \in Int BY <1>2 DEF k
<1>8. CASE k = 0
  <2>1. k * SEC = 0 /\ g.second = i.second
    BY <1>2, <1>5, <1>8 DEF k
  <2> QED BY <1>2, <1>4, <2>1 DEF o
<1>9. CASE k >= 1
  BY <1>1, <1>2, <1>4, <1>5, <1>6, <1>9 DEF o
<1>10. CASE k <= -1
  BY <1>1, <1>2, <1>4, <1>5, <1>6, <1>10 DEF o
<1> QED BY <1>7, <1>8, <1>9, <1>10

\* A pair that phasemeter_thread classifies as BOTH_TIMESTAMPS measures the
\* true phase, whichever of the two pulses was read first.
LEMMA BothMeasuresPhase ==
  ASSUME NEW a \in Stamped, NEW b \in Stamped,
         a.index \in Sources, b.index \in Sources,
         Outcome(a, b) = BOTH
  PROVE  /\ TimestampDiff(a, b) \in -HALF .. HALF
         /\ {a.index, b.index} = Sources
         /\ IsPhaseOf(TimestampDiff(a, b), <<a, b>>)
<1>1. a.index # b.index /\ TimestampDiff(a, b) \in -HALF .. HALF
  BY DEF Outcome, BOTH, NO_GNSS, NO_ART, TOO_FAR
<1>2. a.timestamp \in Int /\ b.timestamp \in Int
  BY DEF Stamped, Event
<1>3. CASE a.index = GNSS
  <2>1. b.index = ART_INTERNAL
    BY <1>1, <1>3 DEF Sources
  <2>2. TimestampDiff(a, b) = a.timestamp - b.timestamp
    BY <1>2, <1>3 DEF TimestampDiff
  <2>3. IsPhaseOf(TimestampDiff(a, b), <<a, b>>)
    BY <1>1, <1>3, <2>1, <2>2, DifferenceIsPhase DEF IsPhaseOf
  <2> QED BY <1>1, <1>3, <2>1, <2>3 DEF Sources
<1>4. CASE b.index = GNSS
  <2>1. a.index = ART_INTERNAL
    BY <1>1, <1>4 DEF Sources
  <2>2. TimestampDiff(a, b) = b.timestamp - a.timestamp
    BY <1>2, <2>1 DEF TimestampDiff, GNSS, ART_INTERNAL
  <2>3. IsPhaseOf(TimestampDiff(a, b), <<a, b>>)
    BY <1>1, <1>4, <2>1, <2>2, DifferenceIsPhase DEF IsPhaseOf
  <2> QED BY <1>1, <1>4, <2>1, <2>3 DEF Sources
<1> QED BY <1>1, <1>3, <1>4 DEF Sources

-----------------------------------------------------------------------------

\* The placeholder event that the thread's timestamps start with is well formed.
LEMMA NoEventType == NoEvent \in Stamped /\ NoEvent \in Event /\ NoEvent.n = 0
  BY PhasemeterAssumption DEF NoEvent, Stamped, Event, Sources, OTHER_INDEX, GNSS, ART_INTERNAL

\* What the PHC puts in the FIFO carries the stamp of its second and phase.
LEMMA NewEventType ==
  ASSUME TypeOK, NEW index \in Sources \cup {OTHER_INDEX}, NEW n \in Nat
  PROVE  /\ NewEvent(index, n) \in Stamped
         /\ NewEvent(index, n) \in Event
         /\ NewEvent(index, n).n = n
         /\ NewEvent(index, n).index = index
<1>1. HALF \in Nat /\ SEC \in Nat
  BY PhasemeterAssumption DEF SEC
<1>2. offset \in Int /\ sec * SEC \in Int
  BY <1>1, PhasemeterAssumption DEF TypeOK
<1>3. Stamp(index, sec, offset) \in Int
  BY <1>1, <1>2 DEF Stamp
<1> QED BY <1>3 DEF NewEvent, Stamped, Event, TypeOK

\* Type correctness of the phasemeter's structure, thread and caller.
THEOREM PhasemeterType == Spec => []TypeOK
<1>1. Init => TypeOK
  <2>1. Uninit \in Int /\ NoPair \in Event \X Event /\ Sources # {}
    BY NoEventType, PhasemeterAssumption DEF Uninit, SEC, NoPair, Sources
  <2>2. << >> \in Seq(Event)
    OBVIOUS
  <2>3. INIT \in Status
    BY DEF Status
  <2> SUFFICES ASSUME Init PROVE TypeOK
    OBVIOUS
  <2>4. got \in [status: Status, phase_error: Int, pair: Event \X Event]
    BY <2>1, <2>3 DEF Init
  <2>5. sec \in Nat /\ emitted \in Nat /\ offset \in Offsets
    BY DEF Init
  <2>6. due \in SUBSET Sources /\ due # {} /\ extts \in Seq(Event) /\ status \in Status
    BY <2>1, <2>2, <2>3 DEF Init
  <2> QED BY <2>1, <2>4, <2>5, <2>6, NoEventType DEF Init, TypeOK
<1>2. TypeOK /\ [Next]_vars => TypeOK'
  <2> SUFFICES ASSUME TypeOK, [Next]_vars PROVE TypeOK'
    OBVIOUS
  <2>1. ASSUME NEW i \in Sources, Pulse(i) PROVE TypeOK'
    <3>1. NewEvent(i, emitted + 1) \in Event
      BY NewEventType DEF TypeOK
    <3>2. extts' \in Seq(Event)
      <4>1. extts \in Seq(Event) BY DEF TypeOK
      <4> QED BY <2>1, <3>1, <4>1 DEF Pulse
    <3>3. due' \in SUBSET Sources /\ due' # {}
      BY <2>1 DEF Pulse, TypeOK, Sources
    <3> QED BY <2>1, <3>2, <3>3 DEF Pulse, TypeOK, shared, thread, caller
  <2>2. CASE OtherEvent
    <3>1. NewEvent(OTHER_INDEX, emitted) \in Event
      BY NewEventType DEF TypeOK
    <3>2. extts' \in Seq(Event)
      BY <2>2, <3>1 DEF OtherEvent, TypeOK
    <3> QED BY <2>2, <3>2 DEF OtherEvent, TypeOK, env, shared, thread, caller
  <2>3. CASE PhaseMoves
    BY <2>3 DEF PhaseMoves, TypeOK, shared, thread, caller
  <2>4. CASE ThreadStart
    BY <2>4 DEF ThreadStart, TypeOK, env, shared, caller
  <2>5. CASE SkipOther
    BY <2>5 DEF SkipOther, TypeOK, env, shared, thread, caller
  <2>6. CASE ReadFirst
    BY <2>6 DEF ReadFirst, TypeOK, env, shared, caller
  <2>7. CASE ReadSecond
    BY <2>7 DEF ReadSecond, TypeOK, env, shared, caller
  <2>8. CASE PublishBoth
    <3>1. TimestampDiff(ts1, ts2) \in -HALF .. HALF
      BY <2>8 DEF PublishBoth, Outcome, BOTH, NO_GNSS, NO_ART, TOO_FAR
    <3> QED BY <2>8, <3>1 DEF PublishBoth, TypeOK, env, Signal, Status
  <2>9. CASE PublishMissing
    BY <2>9 DEF PublishMissing, TypeOK, env, Signal, Status
  <2>10. CASE GetPhaseErrorWait \/ SpuriousWakeup \/ StopJoined
    BY <2>10 DEF GetPhaseErrorWait, SpuriousWakeup, StopJoined, TypeOK, env, shared, thread
  <2>11. CASE GetPhaseErrorReturn
    <3>1. phase_error \in Int
      BY PhasemeterAssumption DEF TypeOK, Uninit, SEC
    <3> QED BY <2>11, <3>1 DEF GetPhaseErrorReturn, TypeOK, env, shared, thread
  <2>12. CASE StopRequest
    BY <2>12 DEF StopRequest, TypeOK, env, thread
  <2>13. CASE UNCHANGED vars
    BY <2>13 DEF vars, TypeOK
  <2> QED BY <2>1, <2>2, <2>3, <2>4, <2>5, <2>6, <2>7, <2>8, <2>9, <2>10, <2>11,
             <2>12, <2>13 DEF Next, Environment, Thread, Caller
<1> QED BY <1>1, <1>2, PTL DEF Spec

-----------------------------------------------------------------------------
(* The inductive invariant, conjunct by conjunct.                          *)

\* What a step of the thread or the FIFO leaves in the FIFO.
LEMMA QueueStamped ==
  ASSUME TypeOK, extts \in Seq(Stamped), [Next]_vars
  PROVE  extts' \in Seq(Stamped)
<1>1. ASSUME NEW i \in Sources, Pulse(i) PROVE extts' \in Seq(Stamped)
  <2>1. NewEvent(i, emitted + 1) \in Stamped
    BY NewEventType DEF TypeOK
  <2> QED BY <1>1, <2>1 DEF Pulse
<1>2. CASE OtherEvent
  <2>1. NewEvent(OTHER_INDEX, emitted) \in Stamped
    BY NewEventType DEF TypeOK
  <2> QED BY <1>2, <2>1 DEF OtherEvent
<1>3. CASE SkipOther \/ ReadFirst \/ ReadSecond
  BY <1>3 DEF SkipOther, ReadFirst, ReadSecond
<1>4. CASE UNCHANGED extts
  BY <1>4
<1> QED
  BY <1>1, <1>2, <1>3, <1>4 DEF Next, Environment, Thread, Caller, vars, PhaseMoves,
     ThreadStart, PublishBoth, PublishMissing, GetPhaseErrorWait, SpuriousWakeup,
     GetPhaseErrorReturn, StopRequest, StopJoined

\* The head of the FIFO, when it is a pulse, is newer than anything the thread
\* holds, and older than the rest of the FIFO.
LEMMA HeadIsNext ==
  ASSUME TypeOK, QueueOrdered, extts \in Seq(Stamped), extts # << >>
  PROVE  /\ Head(extts) \in Stamped
         /\ Head(extts).index \in Sources => Head(extts).n > LastRead
         /\ Head(extts).n <= emitted
         /\ Len(Tail(extts)) = Len(extts) - 1
         /\ \A i \in 1 .. Len(Tail(extts)) :
              /\ Tail(extts)[i] = extts[i + 1]
              /\ i + 1 \in 1 .. Len(extts)
              /\ Tail(extts)[i].index \in Sources /\ Head(extts).index \in Sources
                   => Head(extts).n < Tail(extts)[i].n
<1>1. Len(extts) \in Nat /\ Len(extts) >= 1 /\ Head(extts) = extts[1] /\ Head(extts) \in Stamped
  BY DEF TypeOK
<1>2. Len(Tail(extts)) = Len(extts) - 1
  BY <1>1
<1>3. \A i \in 1 .. Len(Tail(extts)) : Tail(extts)[i] = extts[i + 1] /\ i + 1 \in 1 .. Len(extts)
  BY <1>1, <1>2
<1>4. 1 \in 1 .. Len(extts)
  BY <1>1
<1>5. ASSUME NEW i \in 1 .. Len(Tail(extts)),
             Tail(extts)[i].index \in Sources, Head(extts).index \in Sources
      PROVE  Head(extts).n < Tail(extts)[i].n
  <2>1. 1 \in 1 .. (i + 1) - 1
    OBVIOUS
  <2> QED BY <1>1, <1>3, <1>5, <2>1 DEF QueueOrdered
<1> QED BY <1>1, <1>2, <1>3, <1>4, <1>5 DEF QueueOrdered

\* Taking the head leaves an ordered FIFO, provided the thread's last pulse is
\* now the head, or what it was if the head was of another channel.
LEMMA DequeueOrdered ==
  ASSUME TypeOK, QueueOrdered, extts \in Seq(Stamped), extts # << >>,
         extts' = Tail(extts), emitted' = emitted,
         \/ Head(extts).index \in Sources /\ LastRead' = Head(extts).n
         \/ LastRead' = LastRead
  PROVE  QueueOrdered'
<1>1. LastRead' <= emitted'
  BY HeadIsNext DEF QueueOrdered
<1>2. ASSUME NEW i \in 1 .. Len(Tail(extts))
      PROVE  /\ Tail(extts)[i].n <= emitted
             /\ Tail(extts)[i].index \in Sources => Tail(extts)[i].n > LastRead'
             /\ \A j \in 1 .. i - 1 :
                  Tail(extts)[i].index \in Sources /\ Tail(extts)[j].index \in Sources
                    => Tail(extts)[j].n < Tail(extts)[i].n
  <2>1. Tail(extts)[i] = extts[i + 1] /\ i + 1 \in 1 .. Len(extts)
    BY HeadIsNext
  <2>2. Tail(extts)[i].n <= emitted
    BY <2>1 DEF QueueOrdered
  <2>3. Tail(extts)[i].index \in Sources => Tail(extts)[i].n > LastRead'
    BY <2>1, HeadIsNext DEF QueueOrdered
  <2>4. ASSUME NEW j \in 1 .. i - 1,
               Tail(extts)[i].index \in Sources, Tail(extts)[j].index \in Sources
        PROVE  Tail(extts)[j].n < Tail(extts)[i].n
    <3>1. j \in 1 .. Len(Tail(extts)) /\ j + 1 \in 1 .. (i + 1) - 1
      BY HeadIsNext DEF TypeOK
    <3>2. Tail(extts)[j] = extts[j + 1]
      BY <3>1, HeadIsNext
    <3> QED BY <2>1, <2>4, <3>1, <3>2 DEF QueueOrdered
  <2> QED BY <2>2, <2>3, <2>4
<1> QED BY <1>1, <1>2 DEF QueueOrdered

\* Every step, of the PHC, the thread or the caller, keeps the pulses in the
\* FIFO in the order of their emission and newer than what the thread read.
LEMMA QueueStaysOrdered ==
  ASSUME TypeOK, extts \in Seq(Stamped), Held, QueueOrdered, [Next]_vars
  PROVE  QueueOrdered'
<1>a. LastRead \in Nat /\ LastRead <= emitted /\ emitted \in Nat
  BY DEF LastRead, TypeOK, Event, QueueOrdered
<1>b. \A j \in 1 .. Len(extts) : extts[j].n \in Nat
  <2>1. extts \in Seq(Event)
    BY DEF TypeOK
  <2>2. \A j \in 1 .. Len(extts) : extts[j] \in Event
    BY <2>1
  <2>3. \A e \in Event : e.n \in Nat
    BY DEF Event
  <2> QED BY <2>2, <2>3
<1>1. ASSUME NEW i \in Sources, Pulse(i) PROVE QueueOrdered'
  <2>1. LastRead' = LastRead /\ emitted' = emitted + 1
    BY <1>1 DEF Pulse, LastRead, thread, shared
  <2>2. CASE extts' = extts
    BY <1>a, <1>b, <2>1, <2>2 DEF QueueOrdered
  <2>3. CASE extts' = Append(extts, NewEvent(i, emitted + 1))
    <3> DEFINE e == NewEvent(i, emitted + 1)
    <3>1. e.n = emitted + 1 /\ e \in Event
      BY NewEventType DEF TypeOK
    <3> HIDE DEF e
    <3>2. extts \in Seq(Event) /\ Len(extts) \in Nat
      BY DEF TypeOK
    <3>3. Len(extts') = Len(extts) + 1 /\ extts'[Len(extts) + 1] = e
      BY <2>3, <3>1, <3>2 DEF e
    <3>4. \A j \in 1 .. Len(extts) : extts'[j] = extts[j] /\ extts[j].n \in Nat
      BY <1>b, <2>3, <3>1, <3>2 DEF e
    <3>5. ASSUME NEW j \in 1 .. Len(extts) + 1
          PROVE  /\ extts'[j].n <= emitted + 1
                 /\ extts'[j].index \in Sources => extts'[j].n > LastRead
                 /\ \A k \in 1 .. j - 1 :
                      extts'[j].index \in Sources /\ extts'[k].index \in Sources
                        => extts'[k].n < extts'[j].n
      <4>1. CASE j = Len(extts) + 1
        BY <1>a, <3>1, <3>2, <3>3, <3>4, <4>1 DEF QueueOrdered
      <4>2. CASE j \in 1 .. Len(extts)
        <5>1. extts'[j] = extts[j] /\ extts[j].n \in Nat
          BY <3>4, <4>2
        <5>2. \A k \in 1 .. j - 1 : extts'[k] = extts[k]
          BY <3>2, <3>4, <4>2
        <5>3. /\ extts[j].n <= emitted
              /\ extts[j].index \in Sources => extts[j].n > LastRead
              /\ \A k \in 1 .. j - 1 :
                   extts[j].index \in Sources /\ extts[k].index \in Sources
                     => extts[k].n < extts[j].n
          BY <4>2 DEF QueueOrdered
        <5>4. extts'[j].n <= emitted + 1
          BY <1>a, <5>1, <5>3
        <5> QED BY <5>1, <5>2, <5>3, <5>4
      <4> QED BY <3>2, <4>1, <4>2
    <3> QED BY <1>a, <2>1, <3>3, <3>5 DEF QueueOrdered
  <2> QED BY <1>1, <2>2, <2>3 DEF Pulse
<1>2. CASE OtherEvent
  <2> DEFINE e == NewEvent(OTHER_INDEX, emitted)
  <2>1. LastRead' = LastRead /\ emitted' = emitted /\ extts' = Append(extts, e)
    BY <1>2 DEF OtherEvent, LastRead, thread, shared, env
  <2>2. e.n = emitted /\ e \in Event /\ e.index \notin Sources
    BY NewEventType DEF TypeOK, OTHER_INDEX, Sources, GNSS, ART_INTERNAL
  <2> HIDE DEF e
  <2>3. extts \in Seq(Event) /\ Len(extts) \in Nat
    BY DEF TypeOK
  <2>4. Len(extts') = Len(extts) + 1 /\ extts'[Len(extts) + 1] = e
    BY <2>1, <2>2, <2>3
  <2>5. \A j \in 1 .. Len(extts) : extts'[j] = extts[j]
    BY <2>1, <2>2, <2>3
  <2>6. ASSUME NEW j \in 1 .. Len(extts) + 1
        PROVE  /\ extts'[j].n <= emitted
               /\ extts'[j].index \in Sources => extts'[j].n > LastRead
               /\ \A k \in 1 .. j - 1 :
                    extts'[j].index \in Sources /\ extts'[k].index \in Sources
                      => extts'[k].n < extts'[j].n
    <3>1. CASE j = Len(extts) + 1
      BY <1>a, <2>2, <2>4, <3>1
    <3>2. CASE j \in 1 .. Len(extts)
      <4>1. extts'[j] = extts[j] /\ \A k \in 1 .. j - 1 : extts'[k] = extts[k]
        BY <2>3, <2>5, <3>2
      <4>2. /\ extts[j].n <= emitted
            /\ extts[j].index \in Sources => extts[j].n > LastRead
            /\ \A k \in 1 .. j - 1 :
                 extts[j].index \in Sources /\ extts[k].index \in Sources
                   => extts[k].n < extts[j].n
        BY <3>2 DEF QueueOrdered
      <4> QED BY <4>1, <4>2
    <3> QED BY <2>3, <3>1, <3>2
  <2> QED BY <1>a, <2>1, <2>4, <2>6 DEF QueueOrdered
<1>3. CASE SkipOther
  <2>1. LastRead' = LastRead
    BY <1>3 DEF SkipOther, LastRead, thread, shared
  <2> QED BY <1>3, <2>1, DequeueOrdered DEF SkipOther, env
<1>4. CASE ReadFirst
  <2>1. LastRead' \in {Head(extts).n, LastRead}
    BY <1>4 DEF ReadFirst, LastRead, shared
  <2> QED BY <1>4, <2>1, DequeueOrdered DEF ReadFirst, env
<1>5. CASE ReadSecond
  <2>1. LastRead' = Head(extts).n
    BY <1>5 DEF ReadSecond, LastRead
  <2> QED BY <1>5, <2>1, DequeueOrdered DEF ReadSecond, env
<1>6. CASE PublishBoth
  <2>1. LastRead' = LastRead
    BY <1>6 DEF PublishBoth, LastRead
  <2> QED BY <1>6, <2>1 DEF PublishBoth, env, QueueOrdered
<1>7. CASE PublishMissing
  <2>1. LastRead = ts2.n /\ LastRead' \in {ts2.n, pair[2].n}
    BY <1>7 DEF PublishMissing, LastRead
  <2>2. pair[2].n <= ts2.n /\ pair[2].n \in Nat /\ ts2.n \in Nat
    <3>1. pair[2] \in Event /\ ts1 \in Event /\ ts2 \in Event
      BY DEF TypeOK
    <3>2. pair[2].n \in Nat /\ ts1.n \in Nat /\ ts2.n \in Nat
      BY <3>1 DEF Event
    <3> QED BY <1>7, <3>2 DEF PublishMissing, Held
  <2>3. LastRead' <= LastRead /\ LastRead' \in Nat
    BY <2>1, <2>2
  <2> QED BY <1>7, <1>a, <1>b, <2>3 DEF PublishMissing, env, QueueOrdered
<1>8. CASE UNCHANGED <<extts, emitted, LastRead>>
  BY <1>8 DEF QueueOrdered
<1>9. CASE ThreadStart
  BY <1>8, <1>9 DEF ThreadStart, LastRead, env, shared
<1>10. CASE PhaseMoves \/ Caller \/ UNCHANGED vars
  BY <1>8, <1>10 DEF PhaseMoves, Caller, vars, LastRead, env, shared, thread,
     GetPhaseErrorWait, SpuriousWakeup, GetPhaseErrorReturn, StopRequest, StopJoined
<1> QED BY <1>1, <1>2, <1>3, <1>4, <1>5, <1>6, <1>7, <1>9, <1>10
        DEF Next, Environment, Thread

\* The timestamps the thread holds between two reads stay genuine pulses, in
\* order, and newer than the last measurement.
LEMMA HeldPreserved ==
  ASSUME TypeOK, extts \in Seq(Stamped), Held, QueueOrdered, [Next]_vars
  PROVE  Held'
<1>1. CASE Environment \/ Caller \/ UNCHANGED vars \/ ThreadStart \/ SkipOther
  BY <1>1 DEF Environment, Pulse, OtherEvent, PhaseMoves, Caller, vars, env, shared, thread,
     GetPhaseErrorWait, SpuriousWakeup, GetPhaseErrorReturn, StopRequest, StopJoined,
     ThreadStart, SkipOther, Held
<1>2. CASE ReadFirst
  <2>1. Head(extts).n > pair[2].n /\ Head(extts) \in Stamped
    BY <1>2, HeadIsNext DEF ReadFirst, LastRead
  <2> QED BY <1>2, <2>1 DEF ReadFirst, Held, shared
<1>3. CASE ReadSecond
  <2>1. Head(extts).n > ts1.n /\ Head(extts) \in Stamped
    BY <1>3, HeadIsNext DEF ReadSecond, LastRead
  <2>2. Head(extts).n \in Nat /\ ts1.n \in Nat /\ pair[2].n \in Nat
    BY <2>1 DEF TypeOK, Stamped, Event
  <2> QED BY <1>3, <2>1, <2>2 DEF ReadSecond, Held, shared
<1>4. CASE PublishBoth
  BY <1>4 DEF PublishBoth, Held
<1>5. CASE PublishMissing
  <2>1. ts1.n \in Nat /\ ts2.n \in Nat /\ pair[2].n \in Nat
    BY DEF TypeOK, Event
  <2> QED BY <1>5, <2>1 DEF PublishMissing, Held
<1> QED BY <1>1, <1>2, <1>3, <1>4, <1>5 DEF Next, Thread

\* Every critical section of phasemeter_thread publishes a true measurement,
\* or a status that leaves phase_error without meaning.
LEMMA PublishedStaysTrue ==
  ASSUME TypeOK, Held, PublishedTrue, [Next]_vars
  PROVE  PublishedTrue'
<1>1. CASE PublishBoth
  <2>1. /\ ts1 \in Stamped /\ ts2 \in Stamped
        /\ ts1.index \in Sources /\ ts2.index \in Sources /\ Outcome(ts1, ts2) = BOTH
    BY <1>1 DEF PublishBoth, Held
  <2>2. /\ TimestampDiff(ts1, ts2) \in -HALF .. HALF
        /\ {ts1.index, ts2.index} = Sources
        /\ IsPhaseOf(TimestampDiff(ts1, ts2), <<ts1, ts2>>)
    BY <2>1, BothMeasuresPhase
  <2> QED BY <1>1, <2>2 DEF PublishBoth, PublishedTrue, IsPhaseOf
<1>2. CASE PublishMissing
  BY <1>2 DEF PublishMissing, PublishedTrue, BOTH, NO_GNSS, NO_ART
<1>3. CASE UNCHANGED <<status, phase_error, pair>>
  BY <1>3 DEF PublishedTrue, IsPhaseOf
<1> QED
  BY <1>1, <1>2, <1>3 DEF Next, Environment, Thread, Caller, vars, Pulse, OtherEvent,
     PhaseMoves, ThreadStart, SkipOther, ReadFirst, ReadSecond, GetPhaseErrorWait,
     SpuriousWakeup, GetPhaseErrorReturn, StopRequest, StopJoined, shared

\* The strengthening that the two results below rest on: stamps in the FIFO
\* are the PHC's, pulses leave it in order, and what is published is true.
THEOREM PhasemeterInvariant == Spec => []PhasemeterInv
<1>1. Init => PhasemeterInv
  <2> SUFFICES ASSUME Init PROVE PhasemeterInv
    OBVIOUS
  <2>1. extts \in Seq(Stamped) /\ Len(extts) = 0
    BY DEF Init
  <2>2. pair[2].n = 0
    BY NoEventType DEF Init, NoPair
  <2>3. Held /\ LastRead = 0
    BY <2>2 DEF Init, Held, LastRead
  <2>4. QueueOrdered
    BY <2>1, <2>3 DEF Init, QueueOrdered
  <2>5. PublishedTrue
    BY DEF Init, PublishedTrue, INIT, BOTH
  <2> QED BY <2>1, <2>3, <2>4, <2>5 DEF PhasemeterInv
<1>2. TypeOK /\ PhasemeterInv /\ [Next]_vars => PhasemeterInv'
  BY QueueStamped, HeldPreserved, QueueStaysOrdered, PublishedStaysTrue DEF PhasemeterInv
<1> QED BY <1>1, <1>2, PhasemeterType, PTL DEF Spec

\* get_phase_error never returns BOTH_TIMESTAMPS with anything but the true
\* phase of the card, whatever pulses were lost and however late it woke up.
THEOREM PhasemeterMeasurementTrue == Spec => []MeasurementTrue
<1>1. Init => MeasurementTrue
  BY DEF Init, MeasurementTrue, INIT, BOTH
<1>2. PhasemeterInv /\ MeasurementTrue /\ [Next]_vars => MeasurementTrue'
  <2> SUFFICES ASSUME PhasemeterInv, MeasurementTrue, [Next]_vars PROVE MeasurementTrue'
    OBVIOUS
  <2>1. CASE GetPhaseErrorReturn
    BY <2>1 DEF GetPhaseErrorReturn, MeasurementTrue, PhasemeterInv, PublishedTrue, IsPhaseOf
  <2>2. CASE UNCHANGED got
    BY <2>2 DEF MeasurementTrue, IsPhaseOf
  <2> QED
    BY <2>1, <2>2 DEF Next, Environment, Thread, Caller, vars, Pulse, OtherEvent, PhaseMoves,
       ThreadStart, SkipOther, ReadFirst, ReadSecond, PublishBoth, PublishMissing,
       GetPhaseErrorWait, SpuriousWakeup, StopRequest, StopJoined, caller
<1> QED BY <1>1, <1>2, PhasemeterInvariant, PTL DEF Spec

\* No pulse serves in two measurements, and measurements come in order.
THEOREM PhasemeterPulseUsedOnce == Spec => PulseUsedOnce
<1>1. PhasemeterInv /\ [Next]_vars =>
        [pair' # pair => pair'[1].n > pair[2].n /\ pair'[1].n < pair'[2].n]_vars
  <2> SUFFICES ASSUME PhasemeterInv, [Next]_vars
               PROVE  pair' # pair => pair'[1].n > pair[2].n /\ pair'[1].n < pair'[2].n
    OBVIOUS
  <2>1. CASE PublishBoth
    BY <2>1 DEF PublishBoth, PhasemeterInv, Held
  <2>2. CASE UNCHANGED pair
    BY <2>2
  <2> QED
    BY <2>1, <2>2 DEF Next, Environment, Thread, Caller, vars, Pulse, OtherEvent, PhaseMoves,
       ThreadStart, SkipOther, ReadFirst, ReadSecond, PublishMissing, GetPhaseErrorWait,
       SpuriousWakeup, GetPhaseErrorReturn, StopRequest, StopJoined, shared
<1> QED BY <1>1, PhasemeterInvariant, PTL DEF Spec, PulseUsedOnce

-----------------------------------------------------------------------------
(* The phasemeter implements its service                                   *)

\* What the refinement rests on: stop is set exactly once the caller is in
\* phasemeter_stop, the thread's copy of it is never ahead of it, and a thread
\* that looks for a second pulse or is about to publish has not seen it.
StopDiscipline ==
  /\ stop <=> main \in {"joining", "freed"}
  /\ lstop => stop
  /\ pc \in {"second", "publish"} => ~lstop
  /\ pc = "start" => status = INIT

\* StopDiscipline holds at every control point of the thread and of the caller.
THEOREM PhasemeterStopDiscipline == Spec => []StopDiscipline
<1>1. Init => StopDiscipline
  BY DEF Init, StopDiscipline
<1>2. TypeOK /\ StopDiscipline /\ [Next]_vars => StopDiscipline'
  <2> SUFFICES ASSUME TypeOK, StopDiscipline, [Next]_vars PROVE StopDiscipline'
    OBVIOUS
  <2>1. CASE Environment \/ SkipOther \/ UNCHANGED vars
    BY <2>1 DEF Environment, Pulse, OtherEvent, PhaseMoves, SkipOther, vars, shared, thread,
       caller, StopDiscipline
  <2>2. CASE ThreadStart
    BY <2>2 DEF ThreadStart, StopDiscipline, shared, caller, TypeOK
  <2>3. CASE ReadFirst
    BY <2>3 DEF ReadFirst, StopDiscipline, shared, caller
  <2>4. CASE ReadSecond
    BY <2>4 DEF ReadSecond, StopDiscipline, shared, caller
  <2>5. CASE PublishBoth
    BY <2>5 DEF PublishBoth, StopDiscipline, Signal, TypeOK
  <2>6. CASE PublishMissing
    BY <2>6 DEF PublishMissing, StopDiscipline, Signal, TypeOK
  <2>7. CASE Caller
    BY <2>7 DEF Caller, GetPhaseErrorWait, SpuriousWakeup, GetPhaseErrorReturn, StopRequest,
       StopJoined, StopDiscipline, shared, thread
  <2> QED BY <2>1, <2>2, <2>3, <2>4, <2>5, <2>6, <2>7 DEF Next, Thread
<1> QED BY <1>1, <1>2, PhasemeterType, PTL DEF Spec

\* A status and a phase error of the structure are a publication.
LEMMA PublicationType ==
  ASSUME NEW s, NEW v \in Int
  PROVE  /\ Publication(s, v) \in Service!Publications
         /\ Publication(s, v).phase_error = v
         /\ s = BOTH => Publication(s, v).status = "BOTH"
         /\ s \in {NO_GNSS, NO_ART} => Publication(s, v).status = "MISSING"
         /\ s = INIT => Publication(s, v).status = "INIT"
  BY DEF Publication, Service!Publications, BOTH, NO_GNSS, NO_ART, INIT

\* phasemeter_thread, get_phase_error and phasemeter_stop implement the
\* service: every step is one of its steps, or invisible.
THEOREM PhasemeterImplementsService == Spec => ServiceImplemented
<1>1. Init => Service!Init
  <2> SUFFICES ASSUME Init PROVE Service!Init
    OBVIOUS
  <2>1. Uninit \in Int
    BY PhasemeterAssumption DEF Uninit, SEC
  <2>2. /\ Publication(status, phase_error) \in Service!Publications
        /\ Publication(status, phase_error).status = "INIT"
    BY <2>1, PublicationType DEF Init
  <2>3. Publication(got.status, got.phase_error) = Publication(status, phase_error)
    BY DEF Init
  <2> QED BY <2>2, <2>3 DEF Init, Service!Init
<1>2. TypeOK /\ StopDiscipline /\ [Next]_vars => [Service!Next]_(Service!vars)
  <2> SUFFICES ASSUME TypeOK, StopDiscipline, [Next]_vars
               PROVE  Service!Next \/ UNCHANGED Service!vars
    OBVIOUS
  <2>a. phase_error \in Int
    BY PhasemeterAssumption DEF TypeOK, Uninit, SEC
  <2>1. CASE Environment \/ SkipOther \/ ReadSecond \/ UNCHANGED vars
    BY <2>1 DEF Environment, Pulse, OtherEvent, PhaseMoves, SkipOther, ReadSecond, vars,
       shared, thread, caller, Service!vars
  <2>2. CASE ThreadStart
    <3>1. Publication(status, phase_error).status = "INIT"
      BY <2>2, <2>a, PublicationType DEF ThreadStart, StopDiscipline
    <3>2. Service!Start
      BY <2>2, <3>1 DEF ThreadStart, Service!Start, shared, caller
    <3> QED BY <3>2 DEF Service!Next
  <2>3. CASE ReadFirst
    <3>1. CASE lstop
      <4>1. Service!End
        BY <2>3, <3>1 DEF ReadFirst, Service!End, shared, caller
      <4> QED BY <4>1 DEF Service!Next
    <3>2. CASE ~lstop
      BY <2>3, <3>2 DEF ReadFirst, Service!vars, shared, caller
    <3> QED BY <3>1, <3>2
  <2>4. CASE PublishBoth
    <3>1. phase_error' \in Int
      <4>1. TimestampDiff(ts1, ts2) \in -HALF .. HALF
        BY <2>4 DEF PublishBoth, Outcome, BOTH, NO_GNSS, NO_ART, TOO_FAR
      <4> QED BY <2>4, <4>1, PhasemeterAssumption DEF PublishBoth
    <3>2. /\ Publication(status, phase_error)' \in Service!Publications
          /\ Publication(status, phase_error)'.status = "BOTH"
      BY <2>4, <3>1, PublicationType DEF PublishBoth
    <3>3. Service!Publish
      BY <2>4, <3>2 DEF PublishBoth, Signal, StopDiscipline, Service!Publish
    <3> QED BY <3>3 DEF Service!Next
  <2>5. CASE PublishMissing
    <3>1. /\ Publication(status, phase_error)' \in Service!Publications
          /\ Publication(status, phase_error)'.status = "MISSING"
          /\ Publication(status, phase_error)'.phase_error = Publication(status, phase_error).phase_error
      BY <2>5, <2>a, PublicationType DEF PublishMissing
    <3>2. (pc' = "exited") \in {FALSE, stop}
      BY <2>5 DEF PublishMissing, TypeOK
    <3>3. Service!Publish
      BY <2>5, <3>1, <3>2 DEF PublishMissing, Signal, StopDiscipline, Service!Publish
    <3> QED BY <3>3 DEF Service!Next
  <2>6. CASE GetPhaseErrorWait
    <3>1. Service!Call
      BY <2>6 DEF GetPhaseErrorWait, StopDiscipline, Service!Call, shared, thread
    <3> QED BY <3>1 DEF Service!Next
  <2>7. CASE SpuriousWakeup
    <3>1. Service!Wake
      BY <2>7 DEF SpuriousWakeup, Service!Wake, shared, thread
    <3> QED BY <3>1 DEF Service!Next
  <2>8. CASE GetPhaseErrorReturn
    <3>1. Publication(got.status, got.phase_error)' = Publication(status, phase_error)
      BY <2>8 DEF GetPhaseErrorReturn
    <3>2. Service!Return
      BY <2>8, <3>1 DEF GetPhaseErrorReturn, Service!Return, shared, thread
    <3> QED BY <3>2 DEF Service!Next
  <2>9. CASE StopRequest
    <3>1. Service!Stop
      BY <2>9 DEF StopRequest, StopDiscipline, Service!Stop, thread
    <3> QED BY <3>1 DEF Service!Next
  <2>10. CASE StopJoined
    <3>1. Service!Free
      BY <2>10 DEF StopJoined, StopDiscipline, Service!Free, shared, thread
    <3> QED BY <3>1 DEF Service!Next
  <2> QED BY <2>1, <2>2, <2>3, <2>4, <2>5, <2>6, <2>7, <2>8, <2>9, <2>10
          DEF Next, Thread, Caller
<1> QED BY <1>1, <1>2, PhasemeterType, PhasemeterStopDiscipline, PTL
        DEF Spec, ServiceImplemented, Service!Spec

=============================================================================
