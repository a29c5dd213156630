----------------------------- MODULE NtpProofs ------------------------------
(***************************************************************************)
(* What NTP is told, from both halves of src/ntpshm.  The shared memory    *)
(* protocol, for every set of readers, every number of samples and every   *)
(* number of restarts of the daemon: when ntp_read accepts a torn sample,  *)
(* and when a consumer gets one twice.  The PPS thread, for every shape    *)
(* and width of the pulse, delay of the fixes and step of the clock,       *)
(* however edges, fixes and its own steps interleave and whichever of them *)
(* are lost: the second that it names is the right one, and after two good *)
(* seconds a pulse is reported.                                            *)
(***************************************************************************)
EXTENDS NtpShm, PpsThread, FiniteSetTheorems, TLAPS

-----------------------------------------------------------------------------
(* The segment                                                             *)

\* The control points of ntp_write between its two increments of the count.
Updating == Fields \cup {"recount"}

\* The segment and its writer: the count is odd exactly in the middle of an
\* update (or after a crash there), a segment with an even count is whole, and
\* it is valid only between two updates.
SegmentInv ==
  /\ wpc \in Updating => count % 2 = 1
  /\ wpc \in {"mode", "idle", "count", "valid"} => count % 2 = 0
  /\ count % 2 = 0 => Whole(data)
  /\ wpc \in {"receive", "leap", "recount", "valid"} => data["clock"] = sample
  /\ wpc \in {"leap", "recount"} => data["receive"] = sample
  /\ wpc = "recount" => data["leap"] = sample
  /\ data["clock"] <= sample
  /\ wpc \in {"count", "clock"} => data["clock"] < sample
  /\ wpc \in {"idle", "count", "valid"} \cup Updating => mode = 1
  /\ valid => mode = 1 /\ wpc \in {"idle", "alloc"}

\* A reader in ntp_read whose segment was not cleared: it reads in mode 1, and
\* as long as the count is the even one that it took, what it copied is what
\* the segment holds.
ReaderInv(r) ==
  /\ rpc[r] = "compare" => copied[r] = Fields \cup {"mode"}
  /\ rpc[r] # "idle" /\ ~cleared[r] => mode = 1
  /\ rpc[r] \in {"copy", "compare"} /\ ~cleared[r] =>
       /\ "mode" \in copied[r] => cmode[r] = 1
       /\ cnt[r] <= count
       /\ cnt[r] % 2 = 0 /\ cnt[r] = count =>
            \A f \in Fields : f \in copied[r] => copy[r][f] = data[f]

ShmInv == ShmTypeOK /\ SegmentInv /\ \A r \in Readers : ReaderInv(r)

\* What the segment has for a consumer is newer than what it took last, or the
\* same if it took it early.
Fresh(r) ==
  \/ got[r].contents["clock"] < data["clock"]
  \/ got[r].early /\ got[r].contents["clock"] = data["clock"]

\* A consumer: a valid segment, or one that it already reads, is fresh, and what
\* it is about to accept has not been declared valid after it cleared the flag,
\* unless it was early.
ConsumerInv(r) ==
  /\ rpc[r] = "compare" /\ ~cleared[r] /\ cnt[r] % 2 = 0 /\ cnt[r] = count
       /\ (valid \/ wpc = "valid") => early[r]
  /\ Clean(got[r]) =>
       /\ got[r].contents["clock"] <= sample
       /\ wpc \in {"count"} \cup Updating => got[r].contents["clock"] < sample
       /\ wpc = "valid" /\ got[r].contents["clock"] = sample => got[r].early
       /\ valid \/ (rpc[r] # "idle" /\ ~cleared[r]) => Fresh(r)

-----------------------------------------------------------------------------
(* Lemmas about the operators                                              *)

\* What the two increments of the count do to its parity.
LEMMA Parity ==
  ASSUME NEW n \in Nat
  PROVE  /\ n % 2 \in {0, 1}
         /\ n % 2 = 0 => (n + 1) % 2 = 1
         /\ n % 2 = 1 => (n + 1) % 2 = 0
  OBVIOUS

\* Type correctness of the segment, its writer and its readers.
THEOREM NtpShmType == ShmSpec => []ShmTypeOK
<1>1. ShmInit => ShmTypeOK
  <2> SUFFICES ASSUME ShmInit PROVE ShmTypeOK
    OBVIOUS
  <2>1. Zeros \in Contents
    BY DEF Zeros, Contents
  <2>2. NoSample \in Readings
    BY <2>1 DEF NoSample, Readings
  <2>3. sample \in 0 .. MaxSamples /\ restarts \in 0 .. MaxRestarts
    BY NtpShmAssumption DEF ShmInit
  <2> QED BY <2>1, <2>2, <2>3 DEF ShmInit, ShmTypeOK, ReaderPoints
<1>2. ShmTypeOK /\ [ShmNext]_shmVars => ShmTypeOK'
  <2> SUFFICES ASSUME ShmTypeOK, [ShmNext]_shmVars PROVE ShmTypeOK'
    OBVIOUS
  <2>1. CASE AllocClear
    BY <2>1 DEF AllocClear, ShmTypeOK, Zeros, Contents, reader
  <2>2. CASE AllocMode
    BY <2>2 DEF AllocMode, ShmTypeOK, reader
  <2>3. CASE WriteInvalidate
    <3>1. sample' \in 0 .. MaxSamples
      BY <2>3, NtpShmAssumption DEF WriteInvalidate, ShmTypeOK
    <3> QED BY <2>3, <3>1 DEF WriteInvalidate, ShmTypeOK, reader
  <2>4. CASE WriteCount
    BY <2>4 DEF WriteCount, ShmTypeOK, reader, Fields
  <2>5. CASE WriteField
    <3>1. data' \in Contents
      BY <2>5, NtpShmAssumption DEF WriteField, ShmTypeOK, Contents
    <3>2. wpc' \in Fields \cup {"recount"}
      BY <2>5 DEF WriteField, FieldAfter, Fields
    <3> QED BY <2>5, <3>1, <3>2 DEF WriteField, ShmTypeOK, reader
  <2>6. CASE WriteRecount
    BY <2>6 DEF WriteRecount, ShmTypeOK, reader
  <2>7. CASE WriteValid
    BY <2>7 DEF WriteValid, ShmTypeOK, reader
  <2>8. CASE Restart
    BY <2>8, NtpShmAssumption DEF Restart, ShmTypeOK, segment, reader
  <2>9. ASSUME NEW r \in Readers, ReadValid(r) PROVE ShmTypeOK'
    BY <2>9 DEF ReadValid, ShmTypeOK, segment, writer, ReaderPoints
  <2>10. ASSUME NEW r \in Readers, ReadCount(r) PROVE ShmTypeOK'
    BY <2>10 DEF ReadCount, ShmTypeOK, segment, writer, ReaderPoints
  <2>11. ASSUME NEW r \in Readers, NEW f \in Fields \cup {"mode"}, ReadCopy(r, f) PROVE ShmTypeOK'
    <3>1. copied' \in [Readers -> SUBSET (Fields \cup {"mode"})]
      BY <2>11 DEF ReadCopy, ShmTypeOK
    <3>2. copy' \in [Readers -> Contents]
      BY <2>11 DEF ReadCopy, ShmTypeOK, Contents
    <3>3. cmode' \in [Readers -> {0, 1}]
      BY <2>11 DEF ReadCopy, ShmTypeOK
    <3> QED BY <2>11, <3>1, <3>2, <3>3 DEF ReadCopy, ShmTypeOK, segment, writer
  <2>12. ASSUME NEW r \in Readers, ReadConsume(r) PROVE ShmTypeOK'
    BY <2>12 DEF ReadConsume, ShmTypeOK, writer, ReaderPoints
  <2>13. ASSUME NEW r \in Readers, ReadCompare(r) PROVE ShmTypeOK'
    <3>1. Reading(r) \in Readings
      BY DEF Reading, Readings, ShmTypeOK
    <3> QED BY <2>13, <3>1 DEF ReadCompare, ShmTypeOK, segment, writer, ReaderPoints
  <2>14. CASE UNCHANGED shmVars
    BY <2>14 DEF shmVars, ShmTypeOK
  <2> QED BY <2>1, <2>2, <2>3, <2>4, <2>5, <2>6, <2>7, <2>8, <2>9, <2>10, <2>11, <2>12,
             <2>13, <2>14 DEF ShmNext, Daemon, Read
<1> QED BY <1>1, <1>2, PTL DEF ShmSpec

-----------------------------------------------------------------------------
(* The segment and its readers                                             *)

\* ntpshm_alloc and ntp_write keep the parity of the count, a crash of the
\* daemon at any point included; readers only take valid away.
LEMMA SegmentStep ==
  ASSUME ShmTypeOK, SegmentInv, [ShmNext]_shmVars
  PROVE  SegmentInv'
<1>a. count % 2 \in {0, 1} /\ (count % 2 = 0 => (count + 1) % 2 = 1)
      /\ (count % 2 = 1 => (count + 1) % 2 = 0)
  BY Parity DEF ShmTypeOK
<1>b. data \in Contents /\ sample \in Nat /\ data["clock"] \in Nat
  BY DEF ShmTypeOK, Contents, Fields
<1>1. CASE AllocClear
  <2>1. Whole(data)' /\ data'["clock"] = 0
    BY <1>1 DEF AllocClear, Whole, Zeros, Fields
  <2>2. count' % 2 = 0
    BY <1>1 DEF AllocClear
  <2> QED BY <1>1, <1>b, <2>1, <2>2 DEF AllocClear, SegmentInv, Updating, Fields
<1>2. CASE AllocMode
  BY <1>2 DEF AllocMode, SegmentInv, Updating, Fields, Whole
<1>3. CASE WriteInvalidate
  BY <1>3, <1>b DEF WriteInvalidate, SegmentInv, Updating, Fields, Whole
<1>4. CASE WriteCount
  BY <1>4, <1>a DEF WriteCount, SegmentInv, Updating, Fields, Whole
<1>5. CASE WriteField
  <2>1. wpc \in Updating /\ count % 2 = 1
    BY <1>5 DEF WriteField, SegmentInv, Updating
  <2>2. UNCHANGED <<count, mode, valid, sample>>
    BY <1>5 DEF WriteField
  <2>3. data' = [data EXCEPT ![wpc] = sample]
    BY <1>5 DEF WriteField
  <2>4. CASE wpc = "clock"
    <3>1. wpc' = "receive"
      BY <1>5, <2>4 DEF WriteField, FieldAfter
    <3>2. data'["clock"] = sample
      BY <1>b, <2>3, <2>4 DEF Contents, Fields
    <3> QED BY <1>b, <2>1, <2>2, <2>4, <3>1, <3>2 DEF SegmentInv, Updating, Fields
  <2>5. CASE wpc = "receive"
    <3>1. wpc' = "leap"
      BY <1>5, <2>5 DEF WriteField, FieldAfter
    <3>2. data'["clock"] = sample /\ data'["receive"] = sample
      BY <1>b, <2>3, <2>5 DEF Contents, Fields, SegmentInv
    <3> QED BY <1>b, <2>1, <2>2, <2>5, <3>1, <3>2 DEF SegmentInv, Updating, Fields
  <2>6. CASE wpc = "leap"
    <3>1. wpc' = "recount"
      BY <1>5, <2>6 DEF WriteField, FieldAfter
    <3>2. data'["clock"] = sample /\ data'["receive"] = sample /\ data'["leap"] = sample
      BY <1>b, <2>3, <2>6 DEF Contents, Fields, SegmentInv
    <3> QED BY <1>b, <2>1, <2>2, <2>6, <3>1, <3>2 DEF SegmentInv, Updating, Fields
  <2> QED BY <1>5, <2>4, <2>5, <2>6 DEF WriteField, Fields
<1>6. CASE WriteRecount
  <2>1. count' % 2 = 0
    BY <1>6, <1>a DEF WriteRecount, SegmentInv, Updating
  <2>2. Whole(data)' /\ data'["clock"] = sample'
    BY <1>6 DEF WriteRecount, SegmentInv, Whole, Fields
  <2> QED BY <1>6, <1>b, <2>1, <2>2 DEF WriteRecount, SegmentInv, Updating, Fields
<1>7. CASE WriteValid
  BY <1>7 DEF WriteValid, SegmentInv, Updating, Fields, Whole
<1>8. CASE Restart
  BY <1>8 DEF Restart, SegmentInv, Updating, Fields, Whole, segment
<1>9. CASE UNCHANGED <<segment, wpc, sample>>
  BY <1>9 DEF SegmentInv, Whole, segment
<1>10. ASSUME NEW r \in Readers, ReadConsume(r) PROVE SegmentInv'
  <2>1. valid' => valid
    BY <1>10 DEF ReadConsume, ShmTypeOK
  <2> QED BY <1>10, <2>1 DEF ReadConsume, SegmentInv, Whole, writer
<1>11. ASSUME NEW r \in Readers,
              ReadValid(r) \/ ReadCount(r) \/ ReadCompare(r) \/ (\E f \in Fields \cup {"mode"} : ReadCopy(r, f))
       PROVE  SegmentInv'
  BY <1>9, <1>11 DEF ReadValid, ReadCount, ReadCompare, ReadCopy, writer
<1>12. CASE UNCHANGED shmVars
  BY <1>9, <1>12 DEF shmVars, segment
<1> QED BY <1>1, <1>2, <1>3, <1>4, <1>5, <1>6, <1>7, <1>8, <1>10, <1>11, <1>12
        DEF ShmNext, Daemon, Read

\* A step that is not one of reader r leaves its registers alone.
LEMMA OtherSteps ==
  ASSUME ShmTypeOK, NEW r \in Readers, [ShmNext]_shmVars, ~Read(r)
  PROVE  /\ rpc'[r] = rpc[r] /\ cnt'[r] = cnt[r] /\ copied'[r] = copied[r]
         /\ copy'[r] = copy[r] /\ cmode'[r] = cmode[r] /\ got'[r] = got[r]
         /\ early'[r] = early[r]
         /\ AllocClear \/ cleared'[r] = cleared[r]
<1>1. CASE Daemon \/ Restart \/ UNCHANGED shmVars
  BY <1>1 DEF Daemon, AllocClear, AllocMode, WriteInvalidate, WriteCount, WriteField,
     WriteRecount, WriteValid, Restart, shmVars, reader
<1>2. ASSUME NEW q \in Readers, q # r, ReadValid(q) \/ ReadCount(q) PROVE UNCHANGED
         <<rpc[r], cnt[r], copied[r], copy[r], cmode[r], got[r], early[r], cleared[r]>>
  BY <1>2 DEF ReadValid, ReadCount, ShmTypeOK
<1>3. ASSUME NEW q \in Readers, q # r, ReadConsume(q) \/ ReadCompare(q) PROVE UNCHANGED
         <<rpc[r], cnt[r], copied[r], copy[r], cmode[r], got[r], early[r], cleared[r]>>
  BY <1>3 DEF ReadConsume, ReadCompare, ShmTypeOK
<1>4. ASSUME NEW q \in Readers, q # r, NEW f \in Fields \cup {"mode"}, ReadCopy(q, f)
      PROVE  UNCHANGED <<rpc[r], cnt[r], copied[r], copy[r], cmode[r], got[r], early[r], cleared[r]>>
  BY <1>4 DEF ReadCopy, ShmTypeOK
<1>5. CASE \E q \in Readers : Read(q)
  <2>1. PICK q \in Readers : Read(q)
    BY <1>5
  <2>2. q # r
    BY <2>1
  <2> QED BY <1>2, <1>3, <1>4, <2>1, <2>2 DEF Read
<1> QED BY <1>1, <1>5 DEF ShmNext

\* What a step other than the clearing of the segment may do to what readers
\* copy: count up, or write a field while the count is odd.
LEMMA SegmentMoves ==
  ASSUME ShmTypeOK, SegmentInv, [ShmNext]_shmVars, ~AllocClear
  PROVE  /\ mode' = mode \/ mode' = 1
         /\ \/ UNCHANGED <<count, data>>
            \/ count' = count + 1 /\ data' = data
            \/ count' = count /\ count % 2 = 1
<1>1. CASE WriteField
  BY <1>1 DEF WriteField, SegmentInv, Updating
<1>2. CASE WriteCount \/ WriteRecount
  BY <1>2 DEF WriteCount, WriteRecount
<1>3. CASE AllocMode \/ WriteInvalidate \/ WriteValid \/ Restart \/ UNCHANGED shmVars
  BY <1>3 DEF AllocMode, WriteInvalidate, WriteValid, Restart, shmVars, segment
<1>4. CASE \E r \in Readers : Read(r)
  BY <1>4 DEF Read, ReadValid, ReadCount, ReadCopy, ReadConsume, ReadCompare, segment
<1> QED BY <1>1, <1>2, <1>3, <1>4 DEF ShmNext, Daemon

\* ntp_read and everything that happens around it keep ReaderInv: what it
\* copied is what the segment holds until the count moves.
LEMMA ReaderStep ==
  ASSUME ShmTypeOK, SegmentInv, [ShmNext]_shmVars, NEW r \in Readers, ReaderInv(r)
  PROVE  ReaderInv(r)'
<1>a. cnt[r] \in Nat /\ count \in Nat /\ cleared[r] \in BOOLEAN
  BY DEF ShmTypeOK
<1>1. CASE ReadValid(r)
  <2>1. rpc'[r] = "cnt" /\ mode' = 1
    BY <1>1 DEF ReadValid, SegmentInv, ShmTypeOK, segment
  <2> QED BY <2>1 DEF ReaderInv
<1>2. CASE ReadCount(r)
  <2>1. rpc'[r] = "copy" /\ copied'[r] = {} /\ cnt'[r] = count /\ cleared'[r] = cleared[r]
    BY <1>2 DEF ReadCount, ShmTypeOK
  <2>2. rpc[r] = "cnt" /\ UNCHANGED <<count, mode>>
    BY <1>2 DEF ReadCount, segment
  <2> QED BY <1>a, <2>1, <2>2 DEF ReaderInv
<1>3. ASSUME NEW f \in Fields \cup {"mode"}, ReadCopy(r, f) PROVE ReaderInv(r)'
  <2>1. /\ rpc[r] = "copy" /\ rpc'[r] = "copy" /\ cnt'[r] = cnt[r] /\ cleared'[r] = cleared[r]
        /\ copied'[r] = copied[r] \cup {f}
        /\ UNCHANGED <<count, mode, data>>
    BY <1>3 DEF ReadCopy, ShmTypeOK, segment
  <2>2. CASE f = "mode"
    <3>1. copy' = copy /\ cmode'[r] = mode
      BY <1>3, <2>2 DEF ReadCopy, ShmTypeOK, Fields
    <3> QED BY <2>1, <2>2, <3>1 DEF ReaderInv, Fields
  <2>3. CASE f \in Fields
    <3>1. cmode' = cmode
      BY <1>3, <2>3 DEF ReadCopy, Fields
    <3>2. \A g \in Fields : copy'[r][g] = IF g = f THEN data[f] ELSE copy[r][g]
      BY <1>3, <2>3 DEF ReadCopy, ShmTypeOK, Contents
    <3>3. "mode" \in copied'[r] => "mode" \in copied[r]
      BY <2>1, <2>3 DEF Fields
    <3> QED BY <2>1, <2>3, <3>1, <3>2, <3>3 DEF ReaderInv
  <2> QED BY <2>2, <2>3
<1>4. CASE ReadConsume(r)
  <2>1. /\ rpc[r] = "copy" /\ rpc'[r] = "compare" /\ copied[r] = Fields \cup {"mode"}
        /\ UNCHANGED <<cnt, copied, copy, cmode, cleared, count, mode, data>>
    BY <1>4 DEF ReadConsume, ShmTypeOK
  <2> QED BY <2>1 DEF ReaderInv
<1>5. CASE ReadCompare(r)
  <2>1. rpc'[r] = "idle"
    BY <1>5 DEF ReadCompare, ShmTypeOK
  <2> QED BY <2>1 DEF ReaderInv
<1>6. CASE ~Read(r)
  <2>1. /\ rpc'[r] = rpc[r] /\ cnt'[r] = cnt[r] /\ copied'[r] = copied[r]
        /\ copy'[r] = copy[r] /\ cmode'[r] = cmode[r]
        /\ AllocClear \/ cleared'[r] = cleared[r]
    BY <1>6, OtherSteps
  <2>2. CASE AllocClear
    <3>1. rpc[r] # "idle" => cleared'[r]
      BY <2>2 DEF AllocClear
    <3> QED BY <2>1, <3>1 DEF ReaderInv
  <2>3. CASE ~AllocClear
    <3>1. cleared'[r] = cleared[r]
      BY <2>1, <2>3
    <3>2. mode' = mode \/ mode' = 1
      BY <2>3, SegmentMoves
    <3>3. CASE UNCHANGED <<count, data>>
      BY <2>1, <3>1, <3>2, <3>3 DEF ReaderInv
    <3>4. CASE count' = count + 1
      BY <1>a, <2>1, <3>1, <3>2, <3>4 DEF ReaderInv
    <3>5. CASE count' = count /\ count % 2 = 1
      BY <1>a, <2>1, <3>1, <3>2, <3>5 DEF ReaderInv
    <3> QED BY <2>3, <3>3, <3>4, <3>5, SegmentMoves
  <2> QED BY <2>2, <2>3
<1> QED BY <1>1, <1>2, <1>3, <1>4, <1>5, <1>6 DEF Read

\* The inductive invariant behind the acceptance of samples.
THEOREM NtpShmInvariant == ShmSpec => []ShmInv
<1>1. ShmInit /\ ShmTypeOK => ShmInv
  <2> SUFFICES ASSUME ShmInit PROVE SegmentInv /\ \A r \in Readers : ReaderInv(r)
    BY DEF ShmInv
  <2>1. Whole(data) /\ data["clock"] = 0
    BY DEF ShmInit, Whole, Zeros, Fields
  <2>2. SegmentInv
    BY <2>1 DEF ShmInit, SegmentInv, Updating, Fields
  <2>3. \A r \in Readers : ReaderInv(r)
    BY DEF ShmInit, ReaderInv
  <2> QED BY <2>2, <2>3
<1>2. ShmTypeOK' /\ ShmInv /\ [ShmNext]_shmVars => ShmInv'
  BY SegmentStep, ReaderStep DEF ShmInv
<1> QED BY <1>1, <1>2, NtpShmType, PTL DEF ShmSpec

\* A copy that ntp_read accepts with an even count, in a segment that was not
\* cleared, is the segment: both fields and count are of one sample.
LEMMA AcceptedIsSegment ==
  ASSUME ShmInv, NEW r \in Readers, rpc[r] = "compare", ~Clash(r),
         ~cleared[r], cnt[r] % 2 = 0
  PROVE  /\ cnt[r] = count
         /\ \A f \in Fields : copy[r][f] = data[f]
         /\ Whole(copy[r])
<1>1. ReaderInv(r) /\ ShmTypeOK /\ SegmentInv
  BY DEF ShmInv
<1>2. cmode[r] = 1
  BY <1>1 DEF ReaderInv
<1>3. cnt[r] = count
  BY <1>2 DEF Clash
<1>4. \A f \in Fields : copy[r][f] = data[f]
  BY <1>1, <1>3 DEF ReaderInv
<1>5. Whole(data)
  BY <1>1, <1>3 DEF SegmentInv
<1> QED BY <1>3, <1>4, <1>5 DEF Whole, Fields

\* ntp_read accepts a torn sample only with an odd count, or across the clearing
\* of the segment by a restarted daemon, for any number of readers.
THEOREM NtpShmTornExplained == ShmSpec => []TornExplained
<1>1. ShmInit => TornExplained
  BY DEF ShmInit, TornExplained, NoSample, Whole, Zeros, Fields
<1>2. ShmInv /\ TornExplained /\ [ShmNext]_shmVars => TornExplained'
  <2> SUFFICES ASSUME ShmInv, TornExplained, [ShmNext]_shmVars, NEW r \in Readers
               PROVE  (Whole(got[r].contents) \/ got[r].cnt % 2 = 1 \/ got[r].cleared)'
    BY DEF TornExplained
  <2>a. ShmTypeOK
    BY DEF ShmInv
  <2>1. CASE got'[r] = got[r]
    BY <2>1 DEF TornExplained, Whole
  <2>2. CASE ReadCompare(r) /\ ~Clash(r)
    <3>1. got'[r] = Reading(r) /\ rpc[r] = "compare"
      BY <2>2, <2>a DEF ReadCompare, ShmTypeOK
    <3>2. got'[r].contents = copy[r] /\ got'[r].cnt = cnt[r] /\ got'[r].cleared = cleared[r]
      BY <3>1 DEF Reading
    <3>3. cnt[r] % 2 \in {0, 1}
      BY <2>a, Parity DEF ShmTypeOK
    <3>4. Whole(copy[r]) \/ cnt[r] % 2 = 1 \/ cleared[r]
      BY <2>2, <3>1, <3>3, AcceptedIsSegment
    <3> QED BY <3>2, <3>4 DEF Whole
  <2>3. CASE ReadCompare(r) /\ Clash(r)
    BY <2>1, <2>3 DEF ReadCompare
  <2>4. CASE Read(r) /\ ~ReadCompare(r)
    BY <2>1, <2>4 DEF Read, ReadValid, ReadCount, ReadCopy, ReadConsume
  <2>5. CASE ~Read(r)
    BY <2>1, <2>5, <2>a, OtherSteps
  <2> QED BY <2>2, <2>3, <2>4, <2>5
<1> QED BY <1>1, <1>2, NtpShmInvariant, PTL DEF ShmSpec

-----------------------------------------------------------------------------
(* Consumption                                                             *)

\* What an accepted clean reading of a consumer leaves behind.
LEMMA ConsumerAccepts ==
  ASSUME ShmInv, NEW r \in Consumers, ConsumerInv(r), ReadCompare(r)
  PROVE  ConsumerInv(r)'
<1>a. r \in Readers /\ ShmTypeOK /\ SegmentInv
  BY NtpShmAssumption DEF ShmInv
<1>b. rpc'[r] = "idle" /\ rpc[r] = "compare"
  BY <1>a DEF ReadCompare, ShmTypeOK
<1>c. UNCHANGED <<valid, wpc, sample, data, count>>
  BY DEF ReadCompare, segment, writer
<1>1. CASE Clash(r)
  <2>1. got' = got
    BY <1>1 DEF ReadCompare
  <2> QED BY <1>b, <1>c, <2>1 DEF ConsumerInv, Clean, Fresh
<1>2. CASE ~Clash(r)
  <2>1. got'[r] = Reading(r)
    BY <1>2, <1>a DEF ReadCompare, ShmTypeOK
  <2>2. /\ got'[r].contents = copy[r] /\ got'[r].cnt = cnt[r]
        /\ got'[r].cleared = cleared[r] /\ got'[r].early = early[r]
    BY <2>1 DEF Reading
  <2>3. SUFFICES ASSUME Clean(got'[r])
                 PROVE  /\ got'[r].contents["clock"] <= sample
                        /\ wpc \in {"count"} \cup Updating => got'[r].contents["clock"] < sample
                        /\ wpc = "valid" /\ got'[r].contents["clock"] = sample => got'[r].early
                        /\ valid => got'[r].early /\ got'[r].contents["clock"] = data["clock"]
    BY <1>b, <1>c DEF ConsumerInv, Clean, Fresh
  <2>4. cnt[r] % 2 = 0 /\ ~cleared[r]
    BY <2>2, <2>3 DEF Clean
  <2>5. cnt[r] = count /\ copy[r]["clock"] = data["clock"]
    BY <1>2, <1>a, <1>b, <2>4, AcceptedIsSegment DEF Fields
  <2>6. data["clock"] \in Nat /\ sample \in Nat
    BY <1>a DEF ShmTypeOK, Contents, Fields
  <2>7. wpc \notin Updating
    BY <1>a, <2>4, <2>5 DEF SegmentInv
  <2>8. valid \/ wpc = "valid" => early[r]
    BY <1>b, <2>4, <2>5 DEF ConsumerInv
  <2> QED BY <1>a, <2>2, <2>5, <2>6, <2>7, <2>8 DEF SegmentInv
<1> QED BY <1>1, <1>2

\* Every step, of the daemon, of the consumer and of other readers, keeps what
\* a consumer will find fresh.
LEMMA ConsumerStep ==
  ASSUME ShmInv, [ShmNext]_shmVars, NEW r \in Consumers, ConsumerInv(r)
  PROVE  ConsumerInv(r)'
<1>a. r \in Readers /\ ShmTypeOK /\ SegmentInv /\ ReaderInv(r)
  BY NtpShmAssumption DEF ShmInv
<1>b. /\ got[r].contents["clock"] \in Nat /\ got[r].early \in BOOLEAN
      /\ data["clock"] \in Nat /\ sample \in Nat /\ count \in Nat /\ cnt[r] \in Nat
      /\ cleared[r] \in BOOLEAN /\ early[r] \in BOOLEAN /\ valid \in BOOLEAN
  BY <1>a DEF ShmTypeOK, Contents, Fields, Readings
<1>1. CASE ReadCompare(r)
  BY <1>1, ConsumerAccepts
<1>2. CASE ReadConsume(r)
  <2>1. /\ rpc[r] = "copy" /\ rpc'[r] = "compare" /\ valid' = FALSE /\ early'[r] = ~valid
        /\ UNCHANGED <<cleared, cnt, count, wpc, got, sample, data>>
    BY <1>2, <1>a, <1>b DEF ReadConsume, ShmTypeOK, writer
  <2>2. wpc = "valid" => ~valid
    BY <1>a DEF SegmentInv
  <2> QED BY <1>b, <2>1, <2>2 DEF ConsumerInv, Clean, Fresh
<1>3. CASE ReadValid(r) \/ ReadCount(r) \/ \E f \in Fields \cup {"mode"} : ReadCopy(r, f)
  <2>1. /\ rpc'[r] \in {"cnt", "copy"}
        /\ rpc[r] = "idle" => valid
        /\ rpc[r] # "idle" => cleared'[r] = cleared[r]
        /\ UNCHANGED <<valid, wpc, got, sample, data>>
    BY <1>3, <1>a DEF ReadValid, ReadCount, ReadCopy, ShmTypeOK, segment, writer
  <2> QED BY <2>1 DEF ConsumerInv, Clean, Fresh
<1>4. CASE ~Read(r)
  <2>1. /\ rpc'[r] = rpc[r] /\ cnt'[r] = cnt[r] /\ got'[r] = got[r] /\ early'[r] = early[r]
        /\ AllocClear \/ cleared'[r] = cleared[r]
    BY <1>4, <1>a, OtherSteps
  <2>2. CASE AllocClear
    <3>1. /\ rpc[r] # "idle" => cleared'[r]
          /\ valid' = FALSE /\ wpc' = "mode" /\ sample' = sample
      BY <2>2, <1>a DEF AllocClear
    <3> QED BY <2>1, <3>1 DEF ConsumerInv, Clean, Updating, Fields
  <2>3. CASE WriteInvalidate
    BY <2>1, <2>3, <1>b DEF WriteInvalidate, AllocClear, ConsumerInv, Clean, Fresh
  <2>4. CASE WriteCount
    BY <2>1, <2>4, <1>a, <1>b DEF WriteCount, AllocClear, ConsumerInv, Clean, Fresh, Updating,
       Fields, SegmentInv
  <2>5. CASE WriteField
    <3>1. /\ wpc \in Fields /\ wpc' \in Updating
          /\ UNCHANGED <<valid, count, sample>> /\ cleared'[r] = cleared[r]
      BY <2>1, <2>5 DEF WriteField, FieldAfter, Fields, Updating, AllocClear
    <3>2. data'["clock"] \in {data["clock"], sample}
      BY <2>5, <1>a DEF WriteField, ShmTypeOK, Contents, Fields
    <3>3. ~valid /\ wpc' # "valid"
      BY <1>a, <3>1 DEF SegmentInv, Fields, Updating
    <3>4. Clean(got[r]) => got[r].contents["clock"] < sample
      BY <3>1 DEF ConsumerInv, Updating
    <3> QED BY <1>b, <2>1, <3>1, <3>2, <3>3, <3>4 DEF ConsumerInv, Clean, Fresh
  <2>6. CASE WriteRecount
    <3>1. /\ wpc = "recount" /\ wpc' = "valid" /\ count' = count + 1
          /\ UNCHANGED <<valid, sample, data>> /\ cleared'[r] = cleared[r]
      BY <2>1, <2>6 DEF WriteRecount, AllocClear
    <3>2. Clean(got[r]) => got[r].contents["clock"] < sample
      BY <3>1 DEF ConsumerInv, Updating
    <3>3. rpc[r] = "compare" /\ ~cleared[r] => cnt[r] <= count
      BY <1>a DEF ReaderInv
    <3> QED BY <1>b, <2>1, <3>1, <3>2, <3>3 DEF ConsumerInv, Clean, Fresh, Updating, Fields
  <2>7. CASE WriteValid
    <3>1. /\ wpc = "valid" /\ wpc' = "idle" /\ UNCHANGED <<count, sample, data>>
          /\ cleared'[r] = cleared[r] /\ data["clock"] = sample
      BY <2>1, <2>7, <1>a DEF WriteValid, AllocClear, SegmentInv
    <3>2. Clean(got[r]) => Fresh(r)
      BY <1>b, <3>1 DEF ConsumerInv, Fresh
    <3> QED BY <1>b, <2>1, <3>1, <3>2 DEF ConsumerInv, Clean, Fresh, Updating, Fields
  <2>8. CASE AllocMode \/ Restart
    <3>1. /\ wpc' \in {"idle", "alloc"} /\ UNCHANGED <<valid, count, sample, data>>
          /\ cleared'[r] = cleared[r]
      BY <2>1, <2>8 DEF AllocMode, Restart, AllocClear, segment
    <3> QED BY <1>b, <2>1, <3>1 DEF ConsumerInv, Clean, Fresh, Updating, Fields
  <2>9. CASE UNCHANGED shmVars \/ \E q \in Readers : Read(q)
    <3>1. /\ UNCHANGED <<wpc, count, sample, data>> /\ (valid' => valid)
          /\ cleared'[r] = cleared[r]
      BY <2>1, <2>9, <1>b DEF Read, ReadValid, ReadCount, ReadCopy, ReadConsume, ReadCompare,
         shmVars, segment, writer, AllocClear
    <3> QED BY <1>b, <2>1, <3>1 DEF ConsumerInv, Clean, Fresh
  <2> QED BY <2>2, <2>3, <2>4, <2>5, <2>6, <2>7, <2>8, <2>9 DEF ShmNext, Daemon
<1> QED BY <1>1, <1>2, <1>3, <1>4 DEF Read

\* No consumer goes back in time, or uses a sample twice that it did not take
\* early, for any number of readers, samples and restarts.
THEOREM NtpShmConsumedOnce == ShmSpec => ConsumedOnce
<1> DEFINE CInv == \A r \in Consumers : ConsumerInv(r)
           Newer == \A r \in Consumers :
                      ReturnsOK(r) /\ Clean(got[r]) /\ Clean(got'[r]) =>
                        \/ got'[r].contents["clock"] > got[r].contents["clock"]
                        \/ got[r].early /\ got'[r].contents["clock"] = got[r].contents["clock"]
<1>1. ShmInit => CInv
  BY NtpShmAssumption DEF ShmInit, ConsumerInv, Clean, NoSample, Zeros, Fields, Updating
<1>2. ShmInv /\ CInv /\ [ShmNext]_shmVars => CInv'
  BY ConsumerStep
<1>3. ShmInv /\ CInv /\ [ShmNext]_shmVars => [Newer]_shmVars
  <2> SUFFICES ASSUME ShmInv, CInv, [ShmNext]_shmVars, NEW r \in Consumers,
                      ReturnsOK(r), Clean(got[r]), Clean(got'[r])
               PROVE  \/ got'[r].contents["clock"] > got[r].contents["clock"]
                      \/ got[r].early /\ got'[r].contents["clock"] = got[r].contents["clock"]
    OBVIOUS
  <2>a. r \in Readers /\ ShmTypeOK
    BY NtpShmAssumption DEF ShmInv
  <2>1. ReadCompare(r)
    <3>1. Read(r)
      BY <2>a, OtherSteps DEF ReturnsOK
    <3> QED BY <2>a, <3>1 DEF ReturnsOK, Read, ReadValid, ReadCount, ReadCopy, ReadConsume, ShmTypeOK
  <2>2. got'[r] = Reading(r)
    BY <2>1, <2>a DEF ReadCompare, ReturnsOK, ShmTypeOK
  <2>3. got'[r].contents = copy[r] /\ cnt[r] % 2 = 0 /\ ~cleared[r]
    BY <2>2 DEF Reading, Clean
  <2>4. copy[r]["clock"] = data["clock"]
    BY <2>a, <2>3, AcceptedIsSegment DEF ReturnsOK, Fields
  <2>5. Fresh(r)
    BY <2>3 DEF ConsumerInv, ReturnsOK
  <2>6. got[r].contents["clock"] \in Nat /\ data["clock"] \in Nat
    BY <2>a DEF ShmTypeOK, Contents, Fields, Readings
  <2> QED BY <2>3, <2>4, <2>5, <2>6 DEF Fresh
<1> QED
  <2> HIDE DEF CInv
  <2> QED BY <1>1, <1>2, <1>3, NtpShmInvariant, PTL DEF ShmSpec, ConsumedOnce

-----------------------------------------------------------------------------
(* The PPS thread                                                          *)

\* The edge in the middle of a second, of the shapes that have one: its direction
\* and its offset.
Trails == wave \in {"pulse", "inverted", "square"}
Trailing == IF wave = "inverted" THEN 1 ELSE 0
Leading == 1 - Trailing
Offset == IF wave = "square" THEN 500 ELSE Width
OffsetOf(edge) == IF Trails /\ edge = Trailing THEN Offset ELSE 0

\* What a stamp of either kind of edge looks like.
Stamp(s) ==
  /\ s.at > 3000 /\ s.true > 3000
  /\ s.true % 1000 = 0 \/ (Trails /\ s.true % 1000 = Offset)

\* Taken before all the edges that are still to come in this second.
Past(s) == s.true <= now /\ \A d \in due : d.edge >= 0 => s.true < d.at

\* What is to come in this second: each edge once, the leading one first.
DueInv ==
  /\ now >= FirstSec * 1000 - 1
  /\ \A d \in due :
       /\ now <= d.at /\ d.at = Sec * 1000 + IF d.edge = -1 THEN delay ELSE OffsetOf(d.edge)
       /\ Sec >= FirstSec
       /\ Trails /\ d.edge = Trailing =>
            kernel[Leading].true = Sec * 1000 \/ \E c \in due : c.edge = Leading
  /\ \A c, d \in due : c.edge >= 0 /\ d.edge >= 0 /\ c.at = d.at => c = d

\* The kernel's stamps: those of each direction are of its kind, and a trailing edge
\* is not without the leading one of its second, or a later one.
KernelInv ==
  /\ \A e \in 0 .. 1 :
       /\ Past(kernel[e])
       /\ kernel[e] = Never \/ (Stamp(kernel[e]) /\ kernel[e].true % 1000 = OffsetOf(e))
  /\ Trails /\ kernel[Trailing] # Never =>
       /\ kernel[Leading] # Never
       /\ kernel[Leading].true >= kernel[Trailing].true - Offset

\* The thread's stamps: those of a trailing edge that it saw last are of one second,
\* unless the clock was stepped; and a new edge is newer.
PulseInv ==
  /\ \A e \in 0 .. 1 : Past(pulse[e]) /\ (pulse[e] = Never \/ Stamp(pulse[e]))
  /\ Trails /\ state_last = Trailing /\ pulse[Trailing] # Never
       /\ Off(pulse[Leading]) = Off(pulse[Trailing])
     => pulse[Leading].true = pulse[Trailing].true - Offset
  /\ pc = "wait" /\ fresh => \E e \in 0 .. 1 : \A x \in 0 .. 1 : kernel[e].true > pulse[x].true

\* The edge that the thread works on: a trailing one comes with the leading one of its
\* second, and if the thread saw a trailing one last it has missed that leading one.
CurInv ==
  pc = "grab" =>
    /\ Past(cur.this) /\ Past(cur.prev)
    /\ Stamp(cur.this) /\ (cur.prev = Never \/ Stamp(cur.prev))
    /\ cur.this.true % 1000 = OffsetOf(cur.edge)
    /\ Trails /\ cur.edge = Trailing /\ Off(cur.this) = Off(cur.prev) =>
         /\ cur.prev.true = cur.this.true - Offset
         /\ state_last = Trailing /\ pulse[Trailing] # Never /\ Off(cur.this) = Off(pulse[Trailing])
              => cur.missed

FixInv == fix_in = NoFix \/ fix_in.stamp.true = fix_in.real * 1000 + delay

\* The sample that the thread is about to report.
SampleRight ==
  \/ Sample.real * 1000 = Sample.true
  \/ Sample.stepped \/ Sample.missed \/ Sample.age >= 2000

SecondInv ==
  /\ DueInv /\ KernelInv /\ PulseInv /\ CurInv /\ FixInv
  /\ pc \in {"call", "report"} => SampleRight
  /\ SecondRight

-----------------------------------------------------------------------------
(* Lemmas about the constants and the true time                            *)

\* The second that a moment lies in.
LEMMA SecIs ==
  ASSUME NEW n \in Nat
  PROVE  /\ n \div 1000 \in Nat
         /\ (n \div 1000) * 1000 <= n /\ n < (n \div 1000) * 1000 + 1000
  OBVIOUS

\* A moment determines its second.
LEMMA SecOf ==
  ASSUME NEW n \in Nat, NEW o \in 0 .. 999
  PROVE  /\ (n * 1000 + o) \div 1000 = n
         /\ (n * 1000 + o) % 1000 = o
  OBVIOUS

\* The edges of a second, one of each direction at most, at their offsets.
LEMMA EdgesAre ==
  ASSUME TypeOK, NEW n \in Nat, NEW e \in EdgesOf(n)
  PROVE  /\ e = <<OffsetOf(e[2]), e[2]>> /\ e[2] \in 0 .. 1
         /\ OffsetOf(e[2]) \in 0 .. 999 /\ OffsetOf(e[2]) \in Nat
         /\ Trails => <<0, Leading>> \in EdgesOf(n)
         /\ \A d \in EdgesOf(n) : d[1] = e[1] => d = e
<1>1. wave \in {"single", "pulse", "inverted", "square", "half"} /\ Width \in 1 .. 449
  BY PpsAssumption DEF TypeOK
<1>2. n % 2 \in 0 .. 1
  OBVIOUS
<1>3. CASE wave = "single"
  BY <1>3 DEF EdgesOf, Trails, OffsetOf
<1>4. CASE wave = "pulse"
  BY <1>1, <1>4 DEF EdgesOf, Trails, OffsetOf, Trailing, Leading, Offset
<1>5. CASE wave = "inverted"
  BY <1>1, <1>5 DEF EdgesOf, Trails, OffsetOf, Trailing, Leading, Offset
<1>6. CASE wave = "square"
  BY <1>6 DEF EdgesOf, Trails, OffsetOf, Trailing, Leading, Offset
<1>7. CASE wave = "half"
  BY <1>2, <1>7 DEF EdgesOf, Trails, OffsetOf
<1> QED BY <1>1, <1>3, <1>4, <1>5, <1>6, <1>7

\* The waves that have two edges in a second, and where the second one lies.
LEMMA WaveIs ==
  ASSUME TypeOK
  PROVE  /\ Trailing \in 0 .. 1 /\ Leading \in 0 .. 1 /\ Leading = 1 - Trailing
         /\ Trailing = 1 - Leading
         /\ Trails => Offset \in 1 .. 449 \/ (Offset = 500 /\ Trailing = 0)
         /\ \A e \in 0 .. 1 : OffsetOf(e) \in 0 .. 999
         /\ OffsetOf(Leading) = 0 /\ (Trails => OffsetOf(Trailing) = Offset)
<1>1. Width \in 1 .. 449
  BY PpsAssumption
<1>2. Trailing \in 0 .. 1 /\ (wave = "square" => Trailing = 0)
  BY DEF Trailing
<1>3. Leading \in 0 .. 1 /\ Leading = 1 - Trailing /\ Trailing = 1 - Leading /\ Leading # Trailing
  BY <1>2 DEF Leading
<1>4. Offset \in 1 .. 449 \/ (Offset = 500 /\ Trailing = 0)
  BY <1>1, <1>2 DEF Offset
<1>5. \A e \in 0 .. 1 : OffsetOf(e) \in 0 .. 999
  BY <1>4 DEF OffsetOf
<1>6. OffsetOf(Leading) = 0 /\ (Trails => OffsetOf(Trailing) = Offset)
  BY <1>3 DEF OffsetOf
<1> QED BY <1>2, <1>3, <1>4, <1>5, <1>6

-----------------------------------------------------------------------------
(* Type correctness                                                        *)

\* What a second brings is of the right kind.
LEMMA SecondsType ==
  ASSUME TypeOK, NEW n \in Nat, NEW D \in Seconds(n)
  PROVE  D \subseteq [at: Nat, edge: -1 .. 1]
<1>1. delay \in Nat
  BY PpsAssumption DEF TypeOK
<1> DEFINE edges == {[at |-> n * 1000 + e[1], edge |-> e[2]] : e \in EdgesOf(n)}
           fixes == {[at |-> n * 1000 + delay, edge |-> -1]}
<1>2. edges \subseteq [at: Nat, edge: -1 .. 1]
  <2> SUFFICES ASSUME NEW e \in EdgesOf(n)
               PROVE  [at |-> n * 1000 + e[1], edge |-> e[2]] \in [at: Nat, edge: -1 .. 1]
    OBVIOUS
  <2>1. e[1] \in Nat /\ e[2] \in 0 .. 1
    BY EdgesAre
  <2> QED BY <2>1
<1>3. fixes \subseteq [at: Nat, edge: -1 .. 1]
  BY <1>1
<1>4. PICK E \in {{}, edges}, F \in {{}, fixes} : D = E \cup F
  BY DEF Seconds
<1> QED BY <1>2, <1>3, <1>4

\* A round keeps the variables of the thread of the right type.
LEMMA ClassifyType ==
  ASSUME TypeOK, NEW c \in [edge: 0 .. 1, this: Stamps, prev: Stamps, missed: BOOLEAN],
         NEW f \in [real: Nat, stamp: Stamps], Classify(c, f)
  PROVE  /\ unchanged' \in 0 .. SpinLimit - 1 /\ state_last' \in 0 .. 1
         /\ pulse' \in [0 .. 1 -> Stamps] /\ pc' \in Points
         /\ cur' \in [edge: 0 .. 1, this: Stamps, prev: Stamps, missed: BOOLEAN]
         /\ last_fixtime' \in [real: Nat, stamp: Stamps]
<1>a. Never \in Stamps
  BY DEF Never, Stamps
<1>b. NoEdge \in [edge: 0 .. 1, this: Stamps, prev: Stamps, missed: BOOLEAN]
      /\ NoFix \in [real: Nat, stamp: Stamps]
  BY <1>a DEF NoEdge, NoFix
<1>1. unchanged' = unchanged \/ unchanged' = 0
  BY DEF Classify
<1>2. unchanged' \in 0 .. SpinLimit - 1
  BY <1>1, PpsAssumption DEF TypeOK
<1>3. state_last' = c.edge /\ pulse' = [pulse EXCEPT ![c.edge] = c.this, ![1 - c.edge] = c.prev]
  BY DEF Classify
<1>4. state_last' \in 0 .. 1 /\ pulse' \in [0 .. 1 -> Stamps]
  BY <1>3 DEF TypeOK
<1>5. pc' \in {"top", "call", "report"}
  BY DEF Classify
<1>6. cur' = NoEdge \/ cur' = [c EXCEPT !.prev = pulse[c.edge]]
  BY DEF Classify
<1>7. pulse[c.edge] \in Stamps
  BY DEF TypeOK
<1>8. cur' \in [edge: 0 .. 1, this: Stamps, prev: Stamps, missed: BOOLEAN]
  BY <1>b, <1>6, <1>7
<1>9. last_fixtime' \in [real: Nat, stamp: Stamps]
  <2>1. last_fixtime' = f \/ last_fixtime' = NoFix
    BY DEF Classify
  <2> QED BY <1>b, <2>1
<1> QED BY <1>2, <1>4, <1>5, <1>8, <1>9 DEF Points

\* Type correctness of the signal, the kernel's and the thread's variables.
THEOREM PpsType == Spec => []TypeOK
<1>a. /\ FirstSec \in Nat /\ LastSec \in Nat /\ SpinLimit \in Nat \ {0} /\ FirstSec > 3
      /\ FixDelays \subseteq 1 .. 899 /\ Steps \subseteq Int
  BY PpsAssumption
<1>b. Never \in Stamps
  BY DEF Never, Stamps
<1>c. /\ NoEdge \in [edge: 0 .. 1, this: Stamps, prev: Stamps, missed: BOOLEAN]
      /\ NoFix \in [real: Nat, stamp: Stamps]
      /\ NoOut \in [real: Nat, true: Int, age: Int, stepped: BOOLEAN, missed: BOOLEAN]
  BY <1>b DEF NoEdge, NoFix, NoOut
<1>1. Init => TypeOK
  <2> SUFFICES ASSUME Init PROVE TypeOK
    OBVIOUS
  <2>1. now \in Nat
    BY <1>a DEF Init
  <2>2. unchanged \in 0 .. SpinLimit - 1
    BY <1>a DEF Init
  <2>3. kernel \in [0 .. 1 -> Stamps] /\ pulse \in [0 .. 1 -> Stamps]
    BY <1>b DEF Init
  <2>4. streak \in -1 .. 3 /\ skew \in Steps \cup {0} /\ state_last \in 0 .. 1
    BY DEF Init
  <2>5. fresh \in BOOLEAN /\ hook \in BOOLEAN
    BY DEF Init
  <2>6. due \subseteq [at: Nat, edge: -1 .. 1] /\ wave \in Waves /\ delay \in FixDelays
    BY DEF Init
  <2>7. main \in {"launch", "handshake", "up", "down"} /\ pc \in Points
    BY DEF Init, Points
  <2>8. /\ fix_in \in [real: Nat, stamp: Stamps] /\ last_fixtime \in [real: Nat, stamp: Stamps]
        /\ cur \in [edge: 0 .. 1, this: Stamps, prev: Stamps, missed: BOOLEAN]
        /\ out \in [real: Nat, true: Int, age: Int, stepped: BOOLEAN, missed: BOOLEAN]
    BY <1>c DEF Init
  <2> QED BY <2>1, <2>2, <2>3, <2>4, <2>5, <2>6, <2>7, <2>8 DEF TypeOK
<1>2. TypeOK /\ [Next]_vars => TypeOK'
  <2> SUFFICES ASSUME TypeOK, [Next]_vars PROVE TypeOK'
    OBVIOUS
  <2>1. CASE NewSecond
    <3>1. Sec \in Nat
      BY SecIs DEF TypeOK, Sec
    <3>2. due' \in Seconds(Sec + 1) /\ now' = (Sec + 1) * 1000
      BY <2>1 DEF NewSecond
    <3>3. due' \subseteq [at: Nat, edge: -1 .. 1]
      BY <3>1, <3>2, SecondsType
    <3>4. now' \in Nat /\ streak' \in -1 .. 3
      BY <2>1, <3>1, <3>2 DEF NewSecond, TypeOK
    <3> QED BY <2>1, <3>3, <3>4 DEF NewSecond, TypeOK, shared, locals
  <2>2. ASSUME NEW e \in due, Edge(e) PROVE TypeOK'
    <3>1. e.at \in Nat /\ e.edge \in 0 .. 1
      BY <2>2 DEF Edge, TypeOK
    <3>2. e.at + skew \in Int
      BY <1>a, <3>1 DEF TypeOK
    <3>3. kernel' \in [0 .. 1 -> Stamps]
      BY <2>2, <3>1, <3>2 DEF Edge, TypeOK, Stamps
    <3>4. now' \in Nat /\ fresh' \in BOOLEAN /\ streak' \in -1 .. 3
      BY <2>2, <3>1 DEF Edge, TypeOK
    <3>5. due' \subseteq [at: Nat, edge: -1 .. 1]
      BY <2>2 DEF Edge, TypeOK
    <3> QED BY <2>2, <3>3, <3>4, <3>5 DEF Edge, TypeOK, shared, locals
  <2>3. ASSUME NEW e \in due, Latch(e) PROVE TypeOK'
    <3>1. e.at \in Nat
      BY DEF TypeOK
    <3>2. e.at + skew \in Int /\ e.at \div 1000 \in Nat
      BY <1>a, <3>1, SecIs DEF TypeOK
    <3>3. fix_in' \in [real: Nat, stamp: Stamps]
      BY <2>3, <3>1, <3>2 DEF Latch, Stamps
    <3>4. streak' \in -1 .. 3
      BY <2>3 DEF Latch, TypeOK
    <3>5. due' \subseteq [at: Nat, edge: -1 .. 1] /\ now' \in Nat
      BY <2>3, <3>1 DEF Latch, TypeOK
    <3> QED BY <2>3, <3>3, <3>4, <3>5 DEF Latch, TypeOK, locals
  <2>4. ASSUME NEW s \in Steps, StepClock(s) PROVE TypeOK'
    BY <2>4 DEF StepClock, TypeOK, shared, locals
  <2>5. CASE Activate
    BY <2>5 DEF Activate, InitKernelPps, TypeOK, Points, world, locals
  <2>6. CASE Deactivate
    BY <2>6 DEF Deactivate, TypeOK, world, locals
  <2>7. CASE Start
    BY <2>7 DEF Start, TypeOK, Points, world, locals
  <2>8. CASE Top
    <3>1. unchanged' \in 0 .. SpinLimit - 1
      <4>1. unchanged' = unchanged \/ unchanged' = (unchanged + 1) % SpinLimit
        BY <2>8 DEF Top
      <4>2. unchanged \in Nat
        BY <1>a DEF TypeOK
      <4>3. (unchanged + 1) % SpinLimit \in 0 .. SpinLimit - 1
        BY <1>a, <4>2
      <4> QED BY <4>1, <4>3 DEF TypeOK
    <3>2. pc' \in Points /\ fresh' \in BOOLEAN
      BY <2>8 DEF Top, Points
    <3> QED BY <2>8, <3>1, <3>2 DEF Top, TypeOK, env, world, shared
  <2>9. CASE Sleep
    BY <2>9 DEF Sleep, TypeOK, Points, env, world, shared, locals
  <2>10. CASE Fetch
    <3> DEFINE e == IF kernel[1].at > kernel[0].at THEN 1 ELSE 0
    <3>1. e \in 0 .. 1 /\ 1 - e \in 0 .. 1
      OBVIOUS
    <3>2. cur' = [edge |-> e, this |-> kernel[e],
                  prev |-> IF e = 1 /\ kernel[0] = Never THEN kernel[1] ELSE kernel[1 - e],
                  missed |-> kernel[1 - e] \notin {Never, pulse[1 - e]}]
      BY <2>10 DEF Fetch
    <3>3. /\ kernel[e] \in Stamps
          /\ (IF e = 1 /\ kernel[0] = Never THEN kernel[1] ELSE kernel[1 - e]) \in Stamps
      BY <3>1 DEF TypeOK
    <3>4. cur' \in [edge: 0 .. 1, this: Stamps, prev: Stamps, missed: BOOLEAN]
      <4> HIDE DEF e
      <4> QED BY <3>1, <3>2, <3>3
    <3> QED BY <2>10, <3>4 DEF Fetch, TypeOK, Points, env, world, shared, locals
  <2>11. CASE FetchTimeout
    <3>1. fresh' \in BOOLEAN
      BY <2>11 DEF FetchTimeout
    <3>2. streak' \in -1 .. 3
      BY <2>11 DEF FetchTimeout
    <3> QED BY <2>11, <3>1, <3>2 DEF FetchTimeout, TypeOK, Points, env, world, shared, locals
  <2>12. CASE Grab
    <3>1. Classify(cur, fix_in)
      BY <2>12 DEF Grab
    <3> QED BY <2>12, <3>1, ClassifyType DEF Grab, TypeOK, env, world, shared
  <2>13. CASE FetchError
    <3>1. Classify(NoEdge, NoFix)
      BY <2>13 DEF FetchError
    <3>2. fresh' \in BOOLEAN
      BY <2>13 DEF FetchError
    <3>3. streak' \in -1 .. 3
      BY <2>13 DEF FetchError
    <3> QED BY <2>13, <1>c, <3>1, <3>2, <3>3, ClassifyType DEF FetchError, TypeOK, env, world, shared
  <2>14. CASE CallHook
    <3>1. cur' = cur \/ cur' = NoEdge
      BY <2>14 DEF CallHook
    <3>2. cur' \in [edge: 0 .. 1, this: Stamps, prev: Stamps, missed: BOOLEAN]
      BY <1>c, <3>1 DEF TypeOK
    <3> QED BY <2>14, <3>2 DEF CallHook, TypeOK, Points, env, world, shared, locals
  <2>15. CASE Report
    <3>1. out' \in [real: Nat, true: Int, age: Int, stepped: BOOLEAN, missed: BOOLEAN]
      BY <2>15 DEF Report, Sample, TypeOK, Stamps
    <3> QED BY <2>15, <1>c, <3>1 DEF Report, TypeOK, Points, env, world, shared
  <2>16. CASE UNCHANGED vars
    BY <2>16 DEF vars, TypeOK
  <2> QED BY <2>1, <2>2, <2>3, <2>4, <2>5, <2>6, <2>7, <2>8, <2>9, <2>10, <2>11, <2>12, <2>13,
             <2>14, <2>15, <2>16 DEF Next, Thread, World, Main
<1> QED BY <1>1, <1>2, PTL DEF Spec

-----------------------------------------------------------------------------
(* The right second                                                        *)

\* What stays within one value of the system clock's error.
LEMMA NotStepped ==
  ASSUME NEW a, NEW b, NEW c, NEW d, NEW S, S = {a, b, c, d}, ~(Cardinality(S) > 1)
  PROVE  a = b /\ a = c /\ a = d
<1>1. \A x, y \in {a, b, c, d} : x = y
  <2> SUFFICES ASSUME NEW x \in {a, b, c, d}, NEW y \in {a, b, c, d}, x # y PROVE FALSE
    OBVIOUS
  <2>1. IsFiniteSet({})
    BY FS_EmptySet
  <2>2. IsFiniteSet({} \cup {x}) /\ Cardinality({} \cup {x}) = Cardinality({}) + 1
    BY <2>1, FS_AddElement
  <2>3. IsFiniteSet({x} \cup {y}) /\ Cardinality({x} \cup {y}) = Cardinality({x}) + 1
    <3>1. {} \cup {x} = {x}
      OBVIOUS
    <3>2. IsFiniteSet({x}) /\ y \notin {x}
      BY <2>2, <3>1
    <3> QED BY <3>2, FS_AddElement
  <2>4. Cardinality({x} \cup {y}) = 2
    <3>1. {} \cup {x} = {x} /\ Cardinality({}) = 0
      BY FS_EmptySet
    <3> QED BY <2>2, <2>3, <3>1
  <2>5. IsFiniteSet({a, b, c, d})
    <3>1. IsFiniteSet({} \cup {a})
      BY <2>1, FS_AddElement
    <3>2. IsFiniteSet(({} \cup {a}) \cup {b})
      BY <3>1, FS_AddElement
    <3>3. IsFiniteSet((({} \cup {a}) \cup {b}) \cup {c})
      BY <3>2, FS_AddElement
    <3>4. IsFiniteSet(((({} \cup {a}) \cup {b}) \cup {c}) \cup {d})
      BY <3>3, FS_AddElement
    <3>5. ((({} \cup {a}) \cup {b}) \cup {c}) \cup {d} = {a, b, c, d}
      OBVIOUS
    <3> QED BY <3>4, <3>5
  <2>6. {x} \cup {y} \subseteq {a, b, c, d}
    OBVIOUS
  <2>7. Cardinality({x} \cup {y}) <= Cardinality({a, b, c, d})
    BY <2>5, <2>6, FS_Subset
  <2>8. Cardinality({a, b, c, d}) \in Nat
    BY <2>5, FS_CardinalityType
  <2> QED BY <2>4, <2>7, <2>8
<1> QED BY <1>1

\* An edge taken for a leading one, with stamps of one value of the clock's error
\* and a fix of the second before, opens a second: the one after the fix.
LEMMA LeadingIsRight ==
  ASSUME TypeOK, PulseInv, CurInv, FixInv, pc = "grab", ~cur.missed, fix_in.real # 0,
         NEW length \in Int,
         (length = 0 /\ cur.edge = state_last) \/ length = cur.this.at - cur.prev.at,
         LeadingEdge(cur.edge, cur.this.at - pulse[cur.edge].at, length),
         CurrentFix(cur.this.at - fix_in.stamp.at),
         Off(cur.this) = Off(pulse[cur.edge]), Off(cur.this) = Off(cur.prev),
         Off(cur.this) = Off(fix_in.stamp),
         cur.this.true - fix_in.stamp.true < 2000
  PROVE  (fix_in.real + 1) * 1000 = cur.this.true
<1> DEFINE this == cur.this
           last == pulse[cur.edge]
           cycle == this.at - last.at
<1>1. /\ this \in Stamps /\ last \in Stamps /\ cur.prev \in Stamps /\ fix_in.stamp \in Stamps
      /\ cur.edge \in 0 .. 1 /\ fix_in.real \in Nat
  BY DEF TypeOK
<1>2. Stamp(this) /\ this.true % 1000 = OffsetOf(cur.edge)
  BY DEF CurInv
<1>3. cycle < 2200
  BY <1>1 DEF LeadingEdge, Within, Stamps
<1>4. Stamp(last)
  <2>1. last = Never \/ Stamp(last)
    BY <1>1 DEF PulseInv
  <2>2. this.at > 3000
    BY <1>2 DEF Stamp
  <2>3. last.at > 0
    BY <1>1, <1>3, <2>2 DEF Stamps
  <2> QED BY <2>1, <2>3 DEF Never
<1>5. cycle = this.true - last.true
  BY <1>1 DEF Off, Stamps
<1>6. this.true % 1000 = 0
  <2>1. CASE ~(Trails /\ cur.edge = Trailing)
    BY <1>2, <2>1 DEF OffsetOf
  <2>2. CASE Trails /\ cur.edge = Trailing
    <3>1. Offset \in 1 .. 449 \/ (Offset = 500 /\ cur.edge = 0)
      BY <2>2, WaveIs
    <3>2. cur.prev.true = this.true - Offset
      BY <2>2 DEF CurInv
    <3>3. this.at - cur.prev.at = Offset
      <4>1. this.at - this.true = cur.prev.at - cur.prev.true
        BY DEF Off
      <4>2. {this.at, this.true, cur.prev.at, cur.prev.true, Offset} \subseteq Int
        BY <1>1, <3>1 DEF Stamps
      <4> QED BY <3>2, <4>1, <4>2
    <3>4. length = Offset
      <4>1. last # Never
        BY <1>4 DEF Stamp, Never
      <4>2. cur.edge # state_last
        <5> SUFFICES ASSUME cur.edge = state_last PROVE FALSE
          OBVIOUS
        <5>1. state_last = Trailing /\ pulse[Trailing] # Never /\ Off(this) = Off(pulse[Trailing])
          <6>1. pulse[cur.edge] = pulse[Trailing]
            BY <2>2
          <6>2. Off(this) = Off(pulse[Trailing])
            <7>1. Off(this) = Off(last)
              OBVIOUS
            <7> QED BY <6>1, <7>1
          <6>3. pulse[Trailing] # Never
            BY <4>1, <6>1
          <6> QED BY <2>2, <6>2, <6>3
        <5>2. state_last = Trailing /\ pulse[Trailing] # Never /\ Off(this) = Off(pulse[Trailing])
                => cur.missed
          BY <2>2 DEF CurInv
        <5> QED BY <5>1, <5>2
      <4> QED BY <3>3, <4>2
    <3>5. this.true % 1000 = Offset
      BY <1>2, <2>2 DEF OffsetOf
    <3>6. last.true % 1000 \in {0, Offset}
      BY <1>4 DEF Stamp
    <3>7. ~Within(cycle, 180, 201) \/ Offset >= 100
      <4> SUFFICES ASSUME 180 <= cycle, cycle < 201 PROVE Offset >= 100
        BY DEF Within
      <4>1. CASE last.true % 1000 = 0
        BY <1>1, <1>5, <3>1, <3>5, <4>1 DEF Stamps
      <4>2. CASE last.true % 1000 = Offset
        BY <1>1, <1>5, <3>1, <3>5, <4>2 DEF Stamps
      <4> QED BY <3>6, <4>1, <4>2
    <3> QED BY <3>1, <3>4, <3>7 DEF LeadingEdge, Within
  <2> QED BY <2>1, <2>2
<1>7. /\ fix_in.stamp.true = fix_in.real * 1000 + delay /\ delay \in 1 .. 899
  BY PpsAssumption DEF FixInv, TypeOK, NoFix
<1>8. this.true \in Int /\ fix_in.stamp.true \in Int /\ this.at - fix_in.stamp.at = this.true - fix_in.stamp.true
  BY <1>1 DEF Off, Stamps
<1>9. 0 <= this.true - fix_in.stamp.true /\ this.true - fix_in.stamp.true <= 1100
  BY <1>8 DEF CurrentFix, Inside
<1>10. /\ 0 <= this.true - (fix_in.real * 1000 + delay)
       /\ this.true - (fix_in.real * 1000 + delay) <= 1100
  BY <1>7, <1>9
\* a fix up to 1.1 s old, of a second whose latch came after it began
<1>11. PICK k \in Int : this.true = k * 1000
  <2>1. \A t \in Int : t % 1000 = 0 => t = (t \div 1000) * 1000 /\ t \div 1000 \in Int
    OBVIOUS
  <2> QED BY <1>6, <1>8, <2>1
<1>12. fix_in.real < k /\ k < fix_in.real + 2
  BY <1>1, <1>7, <1>10, <1>11
<1> QED BY <1>1, <1>11, <1>12

\* What time_pps_fetch returns for a new edge: the edge, and for a trailing one the
\* leading one of its second, if the clock was not stepped; and if the thread knew
\* that one already, it did not see a trailing one last.
LEMMA FetchedEdge ==
  ASSUME TypeOK, KernelInv, PulseInv, pc = "wait", fresh,
         NEW e, e = IF kernel[1].at > kernel[0].at THEN 1 ELSE 0,
         NEW prev, prev = IF e = 1 /\ kernel[0] = Never THEN kernel[1] ELSE kernel[1 - e]
  PROVE  /\ e \in 0 .. 1
         /\ Past(kernel[e]) /\ Past(prev)
         /\ Stamp(kernel[e]) /\ (prev = Never \/ Stamp(prev))
         /\ kernel[e].true % 1000 = OffsetOf(e)
         /\ Trails /\ e = Trailing /\ Off(kernel[e]) = Off(prev) =>
              /\ prev.true = kernel[e].true - Offset
              /\ state_last = Trailing /\ pulse[Trailing] # Never
                   /\ Off(kernel[e]) = Off(pulse[Trailing])
                   => kernel[1 - e] \notin {Never, pulse[1 - e]}
<1>1. e \in 0 .. 1 /\ 1 - e \in 0 .. 1 /\ (e = 0 => 1 - e = 1) /\ (e = 1 => 1 - e = 0)
  OBVIOUS
<1>2. \A x \in 0 .. 1 : kernel[x] \in Stamps /\ pulse[x] \in Stamps
  BY DEF TypeOK
<1>3. \A x \in 0 .. 1 : kernel[x] = Never \/ (Stamp(kernel[x]) /\ kernel[x].true % 1000 = OffsetOf(x))
  BY DEF KernelInv
<1>4. \A x \in 0 .. 1 : Past(kernel[x])
  BY DEF KernelInv
<1>5. PICK y \in 0 .. 1 : \A x \in 0 .. 1 : kernel[y].true > pulse[x].true
  BY DEF PulseInv
<1>6. Stamp(kernel[e])
  <2>1. pulse[0] = Never \/ Stamp(pulse[0])
    BY DEF PulseInv
  <2>2. pulse[0].true >= 0
    BY <1>2, <2>1 DEF Never, Stamp, Stamps
  <2>3. kernel[y].true > 0
    BY <1>2, <1>5, <2>2 DEF Stamps
  <2>4. Stamp(kernel[y])
    BY <1>3, <2>3 DEF Never
  <2>5. kernel[y].at > 3000
    BY <2>4 DEF Stamp
  <2>6. kernel[e].at > 0
    <3>1. {kernel[0].at, kernel[1].at} \subseteq Int
      BY <1>2 DEF Stamps
    <3>2. kernel[e].at >= kernel[y].at
      BY <3>1, <1>1
    <3> QED BY <1>1, <2>5, <3>1, <3>2
  <2> QED BY <1>1, <1>3, <2>6 DEF Never
<1>7. kernel[e].true % 1000 = OffsetOf(e)
  <2>1. kernel[e] # Never
    BY <1>6 DEF Stamp, Never
  <2> QED BY <1>1, <1>3, <2>1
<1>8. \E x \in 0 .. 1 : prev = kernel[x]
  BY <1>1
<1>9. Past(prev) /\ (prev = Never \/ Stamp(prev)) /\ prev \in Stamps
  BY <1>2, <1>3, <1>4, <1>8
<1>10. ASSUME Trails, e = Trailing, Off(kernel[e]) = Off(prev)
       PROVE  /\ prev.true = kernel[e].true - Offset
              /\ state_last = Trailing /\ pulse[Trailing] # Never
                   /\ Off(kernel[e]) = Off(pulse[Trailing])
                   => kernel[1 - e] \notin {Never, pulse[1 - e]}
  <2>1. Leading = 1 - e /\ Offset \in 1 .. 999 /\ Leading \in 0 .. 1 /\ OffsetOf(Leading) = 0
    BY <1>10, WaveIs
  <2>2. kernel[Trailing] # Never
    BY <1>6, <1>10 DEF Stamp, Never
  <2>3. kernel[Leading] # Never /\ kernel[Leading].true >= kernel[e].true - Offset
    BY <1>10, <2>2 DEF KernelInv
  <2>4. prev = kernel[Leading]
    BY <1>1, <2>1, <2>3
  <2>5. kernel[e].true % 1000 = Offset /\ prev.true % 1000 = 0
    <3>1. OffsetOf(e) = Offset
      BY <1>10, WaveIs
    <3>2. prev.true % 1000 = OffsetOf(Leading)
      BY <1>3, <2>1, <2>3, <2>4
    <3> QED BY <1>7, <2>1, <3>1, <3>2
  <2>6. {kernel[e].true, kernel[e].at, prev.true, prev.at} \subseteq Int
    BY <1>1, <1>2, <1>9 DEF Stamps
  <2>7. prev.true <= kernel[e].true
    <3>1. kernel[e].at - kernel[e].true = prev.at - prev.true
      BY <1>10 DEF Off
    <3>2. prev.at <= kernel[e].at
      <4>1. CASE e = 1
        BY <1>1, <2>1, <2>4, <2>6, <4>1
      <4>2. CASE e = 0
        BY <1>1, <2>1, <2>4, <2>6, <4>2
      <4> QED BY <1>1, <4>1, <4>2
    <3> QED BY <2>6, <3>1, <3>2
  <2>8. prev.true = kernel[e].true - Offset
    <3>1. prev.true >= kernel[e].true - Offset
      BY <2>3, <2>4
    <3> QED BY <2>1, <2>5, <2>6, <2>7, <3>1
  <2>9. ASSUME state_last = Trailing, pulse[Trailing] # Never,
               Off(kernel[e]) = Off(pulse[Trailing]), kernel[Leading] = pulse[Leading]
        PROVE  FALSE
    <3>1. Off(pulse[Leading]) = Off(pulse[Trailing])
      BY <1>10, <2>4, <2>9
    <3>2. pulse[Leading].true = pulse[Trailing].true - Offset
      BY <1>10, <2>9, <3>1 DEF PulseInv
    <3>3. pulse[Trailing] \in Stamps /\ pulse[Leading] \in Stamps
      BY <1>1, <1>2, <1>10, <2>1
    <3>4. pulse[Trailing].true = kernel[e].true
      BY <2>1, <2>4, <2>6, <2>8, <2>9, <3>2, <3>3 DEF Stamps
    <3>5. CASE y = e
      BY <1>1, <1>5, <1>10, <2>6, <3>4, <3>5
    <3>6. CASE y = Leading
      BY <1>5, <2>1, <2>4, <2>6, <2>9, <3>6
    <3> QED BY <1>1, <2>1, <3>5, <3>6
  <2> QED BY <2>1, <2>3, <2>8, <2>9
<1> QED BY <1>1, <1>4, <1>6, <1>7, <1>9, <1>10

\* The shape of the signal does not change.
LEMMA WaveKept ==
  ASSUME wave' = wave
  PROVE  /\ Trails' = Trails /\ Trailing' = Trailing /\ Leading' = Leading /\ Offset' = Offset
         /\ \A e : OffsetOf(e)' = OffsetOf(e)
         /\ \A s : Stamp(s)' = Stamp(s)
<1>1. Trails' = Trails /\ Trailing' = Trailing /\ Offset' = Offset
  BY DEF Trails, Trailing, Offset
<1>2. Leading' = Leading
  BY <1>1 DEF Leading
<1>3. \A e : OffsetOf(e)' = OffsetOf(e)
  BY <1>1 DEF OffsetOf
<1>4. \A s : Stamp(s)' = Stamp(s)
  BY <1>1 DEF Stamp
<1> QED BY <1>1, <1>2, <1>3, <1>4

\* A stamp taken before what is to come stays so when time goes on.
LEMMA PastKept ==
  ASSUME TypeOK, TypeOK', NEW s \in Stamps, Past(s), now <= now',
         \A d \in due' : d.edge >= 0 => d \in due \/ d.at > now
  PROVE  s.true <= now' /\ \A d \in due' : d.edge >= 0 => s.true < d.at
<1>1. s.true \in Int /\ now \in Nat /\ now' \in Nat /\ s.true <= now
  BY DEF Stamps, TypeOK, Past
<1>2. ASSUME NEW d \in due', d.edge >= 0 PROVE s.true < d.at
  <2>1. d.at \in Nat
    BY DEF TypeOK
  <2>2. CASE d \in due
    BY <1>2, <2>2 DEF Past
  <2>3. CASE d.at > now
    BY <1>1, <2>1, <2>3
  <2> QED BY <1>2, <2>2, <2>3
<1> QED BY <1>1, <1>2

\* A new second: its leading edge comes before its trailing one, and all of them
\* after everything that was.
LEMMA NewSecondKeeps ==
  ASSUME TypeOK, DueInv, NewSecond
  PROVE  /\ DueInv' /\ now <= now'
         /\ \A d \in due' : d.edge >= 0 => d.at > now
<1>a. /\ FirstSec \in Nat /\ FirstSec > 3 /\ now \in Nat
      /\ delay \in 1 .. 899
  BY PpsAssumption DEF TypeOK
<1> DEFINE n == Sec + 1
<1>1. n \in Nat /\ now < n * 1000 /\ n * 1000 <= now + 1000
  BY <1>a, SecIs DEF Sec
<1>2. now' = n * 1000 /\ due' \in Seconds(n) /\ wave' = wave /\ delay' = delay
  BY DEF NewSecond, world
<1>3. Sec' = n
  <2>1. Sec' = now' \div 1000
    BY DEF Sec
  <2> HIDE DEF n
  <2>2. (n * 1000) \div 1000 = n
    BY <1>1
  <2> QED BY <1>2, <2>1, <2>2
<1>4. n >= FirstSec
  BY <1>a, <1>1 DEF DueInv
<1> HIDE DEF n
<1> DEFINE edges == {[at |-> n * 1000 + e[1], edge |-> e[2]] : e \in EdgesOf(n)}
           fixes == {[at |-> n * 1000 + delay, edge |-> -1]}
<1>5. PICK E \in {{}, edges}, F \in {{}, fixes} : due' = E \cup F
  BY <1>2 DEF Seconds
<1> DEFINE AtEdge(d) ==
             /\ d.edge \in 0 .. 1 /\ <<OffsetOf(d.edge), d.edge>> \in EdgesOf(n)
             /\ OffsetOf(d.edge) \in 0 .. 999
             /\ d.at = n * 1000 + OffsetOf(d.edge)
             /\ d = [at |-> n * 1000 + OffsetOf(d.edge), edge |-> d.edge]
             /\ E = edges
<1>6. ASSUME NEW d \in E PROVE AtEdge(d)
  <2>1. E = edges
    OBVIOUS
  <2>2. PICK e \in EdgesOf(n) : d = [at |-> n * 1000 + e[1], edge |-> e[2]]
    BY <2>1
  <2>3. e = <<OffsetOf(e[2]), e[2]>> /\ e[2] \in 0 .. 1 /\ OffsetOf(e[2]) \in 0 .. 999
    BY <1>1, EdgesAre
  <2>4. d.edge = e[2] /\ d.at = n * 1000 + e[1] /\ e[1] = OffsetOf(e[2])
    BY <2>2, <2>3
  <2> QED BY <2>1, <2>2, <2>3, <2>4
<1>7. ASSUME NEW d \in F PROVE d.edge = -1 /\ d.at = n * 1000 + delay
  OBVIOUS
<1> HIDE DEF edges, fixes, AtEdge
<1>8. ASSUME NEW d \in due'
      PROVE  /\ now' <= d.at
             /\ d.at = n * 1000 + (IF d.edge = -1 THEN delay ELSE OffsetOf(d.edge))
             /\ d.edge >= 0 => d.at > now
  <2>1. CASE d \in E
    <3>1. d.edge \in 0 .. 1 /\ OffsetOf(d.edge) \in 0 .. 999 /\ d.at = n * 1000 + OffsetOf(d.edge)
      <4>1. AtEdge(d)
        BY <1>6, <2>1
      <4> QED BY <4>1 DEF AtEdge
    <3>2. d.edge # -1
      BY <3>1
    <3> QED BY <1>a, <1>1, <1>2, <3>1, <3>2
  <2>2. CASE d \in F
    <3>1. d.edge = -1 /\ d.at = n * 1000 + delay
      BY <1>7, <2>2
    <3> QED BY <1>a, <1>1, <1>2, <3>1
  <2> QED BY <1>5, <2>1, <2>2
<1>9. ASSUME NEW d \in due', Trails, d.edge = Trailing
      PROVE  \E c \in due' : c.edge = Leading
  <2>1. d.edge \in 0 .. 1
    BY <1>9, WaveIs
  <2>2. d \in E
    BY <1>5, <1>7, <2>1
  <2>3. <<OffsetOf(d.edge), d.edge>> \in EdgesOf(n) /\ E = edges
    <3>1. AtEdge(d)
      BY <1>6, <2>2
    <3> QED BY <3>1 DEF AtEdge
  <2>4. <<0, Leading>> \in EdgesOf(n)
    BY <1>1, <1>9, <2>3, EdgesAre
  <2> DEFINE c == [at |-> n * 1000 + <<0, Leading>>[1], edge |-> <<0, Leading>>[2]]
  <2>5. c \in edges /\ c.edge = Leading
    BY <2>4 DEF edges
  <2> HIDE DEF c
  <2> QED BY <1>5, <2>3, <2>5
<1>10. ASSUME NEW c \in due', NEW d \in due', c.edge >= 0, d.edge >= 0, c.at = d.at
       PROVE  c = d
  <2>1. c \in E /\ d \in E
    BY <1>5, <1>7, <1>10
  <2>2. AtEdge(c) /\ AtEdge(d)
    BY <1>6, <2>1
  <2>3. OffsetOf(c.edge) = OffsetOf(d.edge)
    <3>1. OffsetOf(c.edge) = c.at - n * 1000
      BY <1>1, <2>2 DEF AtEdge
    <3>2. OffsetOf(d.edge) = d.at - n * 1000
      BY <1>1, <2>2 DEF AtEdge
    <3>3. c.at = d.at
      BY <1>10
    <3>4. c.at - n * 1000 = d.at - n * 1000
      BY <3>3
    <3> QED BY <3>1, <3>2, <3>4
  <2> DEFINE p == <<OffsetOf(c.edge), c.edge>>
             q == <<OffsetOf(d.edge), d.edge>>
  <2>4. p \in EdgesOf(n) /\ q \in EdgesOf(n)
    BY <2>2 DEF AtEdge
  <2>5. p[1] = q[1] /\ p[2] = c.edge /\ q[2] = d.edge
    BY <2>3
  <2> HIDE DEF p, q
  <2>6. p = q
    BY <1>1, <2>4, <2>5, EdgesAre
  <2>7. c.edge = d.edge
    BY <2>5, <2>6
  <2> QED BY <2>2, <2>7 DEF AtEdge
<1>11. now' >= FirstSec * 1000 - 1
  BY <1>a, <1>1, <1>2, <1>4
<1>12. DueInv'
  <2>1. /\ Trails' = Trails /\ Trailing' = Trailing /\ Leading' = Leading
        /\ \A e : OffsetOf(e)' = OffsetOf(e)
    BY <1>2, WaveKept
  <2>2. ASSUME NEW d \in due'
        PROVE  /\ now' <= d.at
               /\ d.at = Sec' * 1000 + IF d.edge = -1 THEN delay' ELSE OffsetOf(d.edge)'
               /\ Sec' >= FirstSec
               /\ Trails' /\ d.edge = Trailing' => \E c \in due' : c.edge = Leading'
    BY <1>2, <1>3, <1>4, <1>8, <1>9, <2>1
  <2> QED BY <1>10, <1>11, <2>2 DEF DueInv
<1>13. now <= now'
  BY <1>a, <1>1, <1>2
<1>14. \A d \in due' : d.edge >= 0 => d.at > now
  BY <1>8
<1> QED BY <1>12, <1>13, <1>14

\* What the other steps of the world do to what is still to come: an edge or a fix
\* that comes lies in the second that began last.
LEMMA NextIsDue ==
  ASSUME TypeOK, DueInv, NEW e \in due, Next1(e), now' = e.at, due' = due \ {e}
  PROVE  /\ e.at \in Nat /\ Sec' = Sec /\ Sec \in Nat /\ Sec >= FirstSec
         /\ now <= now' /\ e.at \div 1000 = Sec
         /\ e.at = Sec * 1000 + IF e.edge = -1 THEN delay ELSE OffsetOf(e.edge)
         /\ \A d \in due' : d \in due /\ now' <= d.at
         /\ e.edge >= 0 => \A d \in due' : d.edge >= 0 => e.at < d.at
<1>1. e.at \in Nat /\ e.edge \in -1 .. 1 /\ now \in Nat /\ delay \in 1 .. 899
  BY PpsAssumption DEF TypeOK
<1>2. Sec \in Nat
  BY <1>1, SecIs DEF Sec
<1>3. /\ now <= e.at /\ Sec >= FirstSec
      /\ e.at = Sec * 1000 + IF e.edge = -1 THEN delay ELSE OffsetOf(e.edge)
  BY DEF DueInv
<1>4. e.at \div 1000 = Sec
  <2> DEFINE o == IF e.edge = -1 THEN delay ELSE OffsetOf(e.edge)
             n == Sec
  <2>1. o \in 0 .. 999
    <3>1. CASE e.edge = -1
      BY <1>1, <3>1
    <3>2. CASE e.edge \in 0 .. 1
      BY <3>2, WaveIs
    <3> QED BY <1>1, <3>1, <3>2
  <2>2. e.at = n * 1000 + o /\ n \in Nat
    BY <1>2, <1>3
  <2> HIDE DEF o, n
  <2>3. e.at \div 1000 = n
    BY <2>1, <2>2, SecOf
  <2> QED BY <2>3 DEF n
<1>5. Sec' = Sec
  BY <1>4 DEF Sec
<1>6. ASSUME NEW d \in due' PROVE d \in due /\ d # e /\ e.at <= d.at
  BY <1>6 DEF Next1
<1>7. ASSUME e.edge >= 0, NEW d \in due', d.edge >= 0 PROVE e.at < d.at
  <2>1. d \in due /\ d # e /\ e.at <= d.at /\ d.at \in Nat
    BY <1>6 DEF TypeOK
  <2>2. e.at # d.at
    BY <1>7, <2>1 DEF DueInv
  <2> QED BY <1>1, <2>1, <2>2
<1> QED BY <1>1, <1>2, <1>3, <1>4, <1>5, <1>6, <1>7

\* An edge: the kernel's stamps stay past and of their kinds, and a trailing edge
\* finds the leading one of its second, or a later one.
LEMMA EdgeKeeps ==
  ASSUME TypeOK, TypeOK', DueInv, KernelInv, NEW e \in due, Edge(e)
  PROVE  DueInv' /\ KernelInv'
<1>1. /\ Next1(e) /\ e.edge >= 0 /\ now' = e.at /\ due' = due \ {e}
      /\ kernel' = [kernel EXCEPT ![e.edge] = [at |-> e.at + skew, true |-> e.at]]
      /\ wave' = wave /\ delay' = delay
  BY DEF Edge
<1>2. /\ e.at \in Nat /\ e.edge \in 0 .. 1 /\ skew \in Int /\ now \in Nat
      /\ FirstSec \in Nat /\ FirstSec > 3
  BY <1>1, PpsAssumption DEF TypeOK
<1>3. /\ Sec' = Sec /\ Sec \in Nat /\ Sec >= FirstSec /\ now <= now'
      /\ \A d \in due' : d \in due /\ now' <= d.at
      /\ \A d \in due' : d.edge >= 0 => e.at < d.at
  BY <1>1, NextIsDue
<1>4. e.at = Sec * 1000 + OffsetOf(e.edge) /\ OffsetOf(e.edge) \in 0 .. 999
  <2>1. e.edge # -1
    BY <1>2
  <2> QED BY <1>1, <1>2, <2>1, NextIsDue, WaveIs
<1>5. /\ Trails' = Trails /\ Trailing' = Trailing /\ Leading' = Leading /\ Offset' = Offset
      /\ \A x : OffsetOf(x)' = OffsetOf(x)
      /\ \A s : Stamp(s)' = Stamp(s)
  BY <1>1, WaveKept
<1>6. kernel'[e.edge].true = e.at /\ kernel'[e.edge].at = e.at + skew
      /\ \A x \in 0 .. 1 : x # e.edge => kernel'[x] = kernel[x]
  BY <1>1, <1>2 DEF TypeOK
<1>7. ASSUME NEW x \in 0 .. 1
      PROVE kernel'[x].true <= now' /\ \A d \in due' : d.edge >= 0 => kernel'[x].true < d.at
  <2>1. CASE x = e.edge
    BY <1>1, <1>2, <1>3, <1>6, <2>1
  <2>2. CASE x # e.edge
    <3>1. kernel[x] \in Stamps /\ Past(kernel[x])
      BY DEF TypeOK, KernelInv
    <3> QED BY <1>3, <1>6, <2>2, <3>1, PastKept
  <2> QED BY <2>1, <2>2
<1>8. Stamp(kernel'[e.edge]) /\ e.at % 1000 = OffsetOf(e.edge)
  <2>1. e.at >= FirstSec * 1000
    BY <1>2, <1>3, <1>4
  <2>2. e.at + skew > 3000
    <3>1. skew = 0 \/ (skew \in Steps /\ FirstSec * 1000 + skew > 3000)
      BY PpsAssumption DEF TypeOK
    <3> QED BY <1>2, <2>1, <3>1
  <2>3. e.at % 1000 = OffsetOf(e.edge)
    <3> DEFINE o == OffsetOf(e.edge)
               n == Sec
    <3>1. e.at = n * 1000 + o /\ n \in Nat /\ o \in 0 .. 999
      BY <1>3, <1>4
    <3> HIDE DEF o, n
    <3>2. e.at % 1000 = o
      BY <3>1
    <3> QED BY <3>2 DEF o
  <2>4. OffsetOf(e.edge) = 0 \/ (Trails /\ OffsetOf(e.edge) = Offset)
    BY DEF OffsetOf
  <2>5. e.at > 3000
    BY <1>2, <2>1
  <2> QED BY <1>6, <2>2, <2>3, <2>4, <2>5 DEF Stamp
<1>9. ASSUME NEW x \in 0 .. 1
      PROVE  kernel'[x] = Never \/ (Stamp(kernel'[x]) /\ kernel'[x].true % 1000 = OffsetOf(x))
  <2>1. CASE x = e.edge
    BY <1>6, <1>8, <2>1
  <2>2. CASE x # e.edge
    BY <1>6, <2>2 DEF KernelInv
  <2> QED BY <2>1, <2>2
<1>a. /\ Leading \in 0 .. 1 /\ Trailing \in 0 .. 1 /\ Leading # Trailing /\ OffsetOf(Leading) = 0
      /\ Trails => Offset \in 1 .. 999 /\ OffsetOf(Trailing) = Offset
  BY WaveIs
<1>10. ASSUME NEW d \in due', Trails, d.edge = Trailing
       PROVE  kernel'[Leading].true = Sec * 1000 \/ \E c \in due' : c.edge = Leading
  <2>1. CASE e.edge = Leading
    BY <1>2, <1>3, <1>4, <1>6, <1>a, <2>1
  <2>2. CASE e.edge # Leading
    <3>1. kernel'[Leading] = kernel[Leading]
      BY <1>6, <1>a, <2>2
    <3>2. kernel[Leading].true = Sec * 1000 \/ \E c \in due : c.edge = Leading
      BY <1>3, <1>10 DEF DueInv
    <3> QED BY <1>1, <2>2, <3>1, <3>2
  <2> QED BY <2>1, <2>2
<1>11. DueInv'
  <2>1. now' >= FirstSec * 1000 - 1
    BY <1>2, <1>3, <1>1 DEF DueInv
  <2>2. ASSUME NEW d \in due'
        PROVE  /\ now' <= d.at
               /\ d.at = Sec' * 1000 + IF d.edge = -1 THEN delay' ELSE OffsetOf(d.edge)'
               /\ Sec' >= FirstSec
               /\ Trails' /\ d.edge = Trailing' =>
                    kernel'[Leading'].true = Sec' * 1000 \/ \E c \in due' : c.edge = Leading'
    <3>1. d.at = Sec * 1000 + IF d.edge = -1 THEN delay ELSE OffsetOf(d.edge)
      BY <1>3 DEF DueInv
    <3> QED BY <1>1, <1>3, <1>5, <1>10, <3>1
  <2>3. \A c, d \in due' : c.edge >= 0 /\ d.edge >= 0 /\ c.at = d.at => c = d
    BY <1>3 DEF DueInv
  <2> QED BY <2>1, <2>2, <2>3 DEF DueInv
<1>12. ASSUME Trails, kernel'[Trailing] # Never
       PROVE  kernel'[Leading] # Never /\ kernel'[Leading].true >= kernel'[Trailing].true - Offset
  <2>1. CASE e.edge = Trailing
    <3>1. ~\E c \in due : c.edge = Leading
      <4> SUFFICES ASSUME NEW c \in due, c.edge = Leading PROVE FALSE
        OBVIOUS
      <4>1. c.at = Sec * 1000
        <5>1. c.edge # -1
          BY <1>a
        <5>2. c.at = Sec * 1000 + OffsetOf(c.edge)
          BY <5>1 DEF DueInv
        <5> QED BY <1>3, <1>a, <5>2
      <4>2. e.at <= c.at
        BY <1>1 DEF Next1
      <4> QED BY <1>3, <1>4, <1>12, <1>a, <2>1, <4>1, <4>2
    <3>2. kernel[Leading].true = Sec * 1000
      BY <1>12, <2>1, <3>1 DEF DueInv
    <3>3. kernel'[Leading] = kernel[Leading] /\ kernel'[Trailing].true = Sec * 1000 + Offset
      BY <1>4, <1>6, <1>12, <1>a, <2>1
    <3>4. kernel[Leading] # Never
      BY <1>2, <1>3, <3>2 DEF Never
    <3> QED BY <1>3, <1>12, <1>a, <3>2, <3>3, <3>4
  <2>2. CASE e.edge = Leading
    <3>1. kernel'[Trailing] = kernel[Trailing] /\ kernel'[Leading].true = e.at
      BY <1>6, <1>a, <2>2
    <3>2. kernel[Trailing].true <= now /\ kernel[Trailing].true \in Int
      BY <1>a DEF KernelInv, Past, TypeOK, Stamps
    <3>3. kernel'[Leading] # Never
      BY <1>8, <2>2 DEF Stamp, Never
    <3> QED BY <1>1, <1>2, <1>3, <1>12, <1>a, <3>1, <3>2, <3>3
  <2> QED BY <1>2, <1>a, <2>1, <2>2
<1>13. KernelInv'
  <2>1. \A x \in 0 .. 1 : Past(kernel[x])'
    BY <1>7 DEF Past
  <2>2. \A x \in 0 .. 1 : kernel'[x] = Never \/ (Stamp(kernel[x])' /\ kernel'[x].true % 1000 = OffsetOf(x)')
    BY <1>5, <1>9
  <2> QED BY <1>5, <1>12, <2>1, <2>2 DEF KernelInv
<1> QED BY <1>11, <1>13

\* What the thread holds keeps its relations while the world goes on.
LEMMA WorldKeeps ==
  ASSUME TypeOK, TypeOK', PulseInv, CurInv, UNCHANGED <<wave, pulse, state_last, cur, pc>>,
         now <= now', \A d \in due' : d.edge >= 0 => d \in due \/ d.at > now,
         pc' = "wait" /\ fresh' => \E e \in 0 .. 1 : \A x \in 0 .. 1 : kernel'[e].true > pulse[x].true
  PROVE  PulseInv' /\ CurInv'
<1>1. /\ Trails' = Trails /\ Trailing' = Trailing /\ Leading' = Leading /\ Offset' = Offset
      /\ \A x : OffsetOf(x)' = OffsetOf(x)
      /\ \A s : Stamp(s)' = Stamp(s)
  BY WaveKept
<1>2. ASSUME NEW s \in Stamps, Past(s) PROVE Past(s)'
  <2>1. s.true <= now' /\ \A d \in due' : d.edge >= 0 => s.true < d.at
    BY <1>2, PastKept
  <2> QED BY <2>1 DEF Past
<1>3. \A e \in 0 .. 1 : Past(pulse[e])' /\ (pulse[e] = Never \/ Stamp(pulse[e]))'
  <2> SUFFICES ASSUME NEW e \in 0 .. 1 PROVE Past(pulse[e])' /\ (pulse[e] = Never \/ Stamp(pulse[e]))'
    OBVIOUS
  <2>1. pulse[e] \in Stamps /\ Past(pulse[e]) /\ (pulse[e] = Never \/ Stamp(pulse[e]))
    BY DEF TypeOK, PulseInv
  <2>2. pulse[e].true <= now' /\ \A d \in due' : d.edge >= 0 => pulse[e].true < d.at
    BY <2>1, PastKept
  <2> QED BY <1>1, <2>1, <2>2 DEF Past
<1>4. PulseInv'
  <2>1. (Trails /\ state_last = Trailing /\ pulse[Trailing] # Never
           /\ Off(pulse[Leading]) = Off(pulse[Trailing])
         => pulse[Leading].true = pulse[Trailing].true - Offset)'
    BY <1>1 DEF PulseInv, Off
  <2> QED BY <1>3, <2>1 DEF PulseInv
<1>5. ASSUME pc = "grab" PROVE Past(cur.this)' /\ Past(cur.prev)'
  <2>1. cur.this \in Stamps /\ cur.prev \in Stamps /\ Past(cur.this) /\ Past(cur.prev)
    BY <1>5 DEF TypeOK, CurInv
  <2>2. cur.this.true <= now' /\ \A d \in due' : d.edge >= 0 => cur.this.true < d.at
    BY <2>1, PastKept
  <2>3. cur.prev.true <= now' /\ \A d \in due' : d.edge >= 0 => cur.prev.true < d.at
    BY <2>1, PastKept
  <2> QED BY <2>2, <2>3 DEF Past
<1>6. CurInv'
  <2>1. SUFFICES ASSUME pc = "grab"
        PROVE  (/\ Past(cur.this) /\ Past(cur.prev)
                /\ Stamp(cur.this) /\ (cur.prev = Never \/ Stamp(cur.prev))
                /\ cur.this.true % 1000 = OffsetOf(cur.edge)
                /\ Trails /\ cur.edge = Trailing /\ Off(cur.this) = Off(cur.prev) =>
                     /\ cur.prev.true = cur.this.true - Offset
                     /\ state_last = Trailing /\ pulse[Trailing] # Never
                          /\ Off(cur.this) = Off(pulse[Trailing]) => cur.missed)'
    BY DEF CurInv
  <2>2. (Stamp(cur.this) /\ (cur.prev = Never \/ Stamp(cur.prev)))'
    BY <1>1, <2>1 DEF CurInv
  <2>3. (cur.this.true % 1000 = OffsetOf(cur.edge))'
    BY <1>1, <2>1 DEF CurInv
  <2>4. (Trails /\ cur.edge = Trailing /\ Off(cur.this) = Off(cur.prev) =>
                     /\ cur.prev.true = cur.this.true - Offset
                     /\ state_last = Trailing /\ pulse[Trailing] # Never
                          /\ Off(cur.this) = Off(pulse[Trailing]) => cur.missed)'
    BY <1>1, <2>1 DEF CurInv, Off
  <2> QED BY <1>5, <2>1, <2>2, <2>3, <2>4
<1> QED BY <1>4, <1>6

\* The stamps of the kernel and the edges to come are those of the world.
LEMMA KernelKeeps ==
  ASSUME TypeOK, TypeOK', KernelInv, UNCHANGED <<wave, kernel>>,
         now <= now', \A d \in due' : d.edge >= 0 => d \in due \/ d.at > now
  PROVE  KernelInv'
<1>1. /\ Trails' = Trails /\ Trailing' = Trailing /\ Leading' = Leading /\ Offset' = Offset
      /\ \A x : OffsetOf(x)' = OffsetOf(x)
      /\ \A s : Stamp(s)' = Stamp(s)
  BY WaveKept
<1>2. ASSUME NEW e \in 0 .. 1 PROVE Past(kernel[e])'
  <2>1. kernel[e] \in Stamps /\ Past(kernel[e])
    BY DEF TypeOK, KernelInv
  <2>2. kernel[e].true <= now' /\ \A d \in due' : d.edge >= 0 => kernel[e].true < d.at
    BY <2>1, PastKept
  <2> QED BY <2>2 DEF Past
<1>3. \A e \in 0 .. 1 : (kernel[e] = Never \/ (Stamp(kernel[e]) /\ kernel[e].true % 1000 = OffsetOf(e)))'
  BY <1>1 DEF KernelInv
<1>4. (Trails /\ kernel[Trailing] # Never =>
         kernel[Leading] # Never /\ kernel[Leading].true >= kernel[Trailing].true - Offset)'
  BY <1>1 DEF KernelInv
<1> QED BY <1>2, <1>3, <1>4 DEF KernelInv

\* Steps that neither bring anything nor look at an edge.
LEMMA IdleKeeps ==
  ASSUME TypeOK, TypeOK', SecondInv,
         UNCHANGED <<wave, delay, now, due, kernel, fix_in, pulse, state_last, last_fixtime, out>>,
         pc' = "wait" /\ fresh' => pc = "wait" /\ fresh,
         pc' = "grab" => pc = "grab" /\ cur' = cur,
         pc' \in {"call", "report"} => pc \in {"call", "report"} /\ cur' = cur
  PROVE  SecondInv'
<1>1. /\ Trails' = Trails /\ Trailing' = Trailing /\ Leading' = Leading /\ Offset' = Offset
      /\ \A x : OffsetOf(x)' = OffsetOf(x)
      /\ \A s : Stamp(s)' = Stamp(s)
      /\ \A s : Past(s)' = Past(s)
      /\ Sec' = Sec
  BY WaveKept DEF Past, Sec
<1>2. DueInv'
  BY <1>1 DEF SecondInv, DueInv
<1>3. KernelInv'
  BY <1>1, KernelKeeps DEF SecondInv, TypeOK
<1>4. PulseInv'
  <2>1. PulseInv
    BY DEF SecondInv
  <2>2. \A e \in 0 .. 1 : Past(pulse[e])' /\ (pulse[e] = Never \/ Stamp(pulse[e]))'
    BY <1>1, <2>1 DEF PulseInv
  <2>3. (Trails /\ state_last = Trailing /\ pulse[Trailing] # Never
           /\ Off(pulse[Leading]) = Off(pulse[Trailing])
         => pulse[Leading].true = pulse[Trailing].true - Offset)'
    BY <1>1, <2>1 DEF PulseInv, Off
  <2>4. (pc = "wait" /\ fresh => \E e \in 0 .. 1 : \A x \in 0 .. 1 : kernel[e].true > pulse[x].true)'
    BY <2>1 DEF PulseInv
  <2> QED BY <2>2, <2>3, <2>4 DEF PulseInv
<1>5. CurInv'
  <2>1. CASE pc' = "grab"
    <3>1. CurInv /\ PulseInv /\ cur' = cur /\ pc' = pc
      BY <2>1 DEF SecondInv
    <3>2. now <= now'
      BY DEF TypeOK
    <3> QED BY <2>1, <3>1, <3>2, WorldKeeps
  <2>2. CASE pc' # "grab"
    BY <2>2 DEF CurInv
  <2> QED BY <2>1, <2>2
<1>6. FixInv'
  BY DEF SecondInv, FixInv
<1>7. pc' \in {"call", "report"} => SampleRight'
  <2> SUFFICES ASSUME pc' \in {"call", "report"} PROVE SampleRight'
    OBVIOUS
  <2>1. SampleRight /\ Sample' = Sample
    BY DEF SecondInv, Sample, Off
  <2> QED BY <2>1 DEF SampleRight
<1>8. SecondRight'
  BY DEF SecondInv, SecondRight, RightSecond
<1> QED BY <1>2, <1>3, <1>4, <1>5, <1>6, <1>7, <1>8 DEF SecondInv

\* A fetched edge is what a round expects of it.
LEMMA FetchKeeps ==
  ASSUME TypeOK, TypeOK', SecondInv, Fetch
  PROVE  SecondInv'
<1> DEFINE e == IF kernel[1].at > kernel[0].at THEN 1 ELSE 0
           prev == IF e = 1 /\ kernel[0] = Never THEN kernel[1] ELSE kernel[1 - e]
<1>1. /\ pc = "wait" /\ fresh /\ pc' = "grab" /\ fresh' = FALSE
      /\ cur' = [edge |-> e, this |-> kernel[e], prev |-> prev,
                 missed |-> kernel[1 - e] \notin {Never, pulse[1 - e]}]
      /\ UNCHANGED <<wave, delay, now, due, kernel, fix_in, pulse, state_last, last_fixtime, out>>
  BY DEF Fetch, env, world, shared, locals
<1>2. DueInv /\ KernelInv /\ PulseInv /\ FixInv /\ SecondRight
  BY DEF SecondInv
<1>3. /\ Trails' = Trails /\ Trailing' = Trailing /\ Leading' = Leading /\ Offset' = Offset
      /\ \A x : OffsetOf(x)' = OffsetOf(x)
      /\ \A s : Stamp(s)' = Stamp(s)
      /\ \A s : Past(s)' = Past(s)
      /\ Sec' = Sec
  BY <1>1, WaveKept DEF Past, Sec
<1>4. DueInv'
  BY <1>1, <1>2, <1>3 DEF DueInv
<1>5. KernelInv'
  BY <1>1, <1>2, <1>3, KernelKeeps DEF TypeOK
<1>6. PulseInv'
  <2>1. \A x \in 0 .. 1 : Past(pulse[x])' /\ (pulse[x] = Never \/ Stamp(pulse[x]))'
    BY <1>1, <1>2, <1>3 DEF PulseInv
  <2>2. (Trails /\ state_last = Trailing /\ pulse[Trailing] # Never
           /\ Off(pulse[Leading]) = Off(pulse[Trailing])
         => pulse[Leading].true = pulse[Trailing].true - Offset)'
    BY <1>1, <1>2, <1>3 DEF PulseInv, Off
  <2> QED BY <1>1, <2>1, <2>2 DEF PulseInv
<1> HIDE DEF e, prev
<1>7. /\ e \in 0 .. 1
      /\ Past(kernel[e]) /\ Past(prev)
      /\ Stamp(kernel[e]) /\ (prev = Never \/ Stamp(prev))
      /\ kernel[e].true % 1000 = OffsetOf(e)
      /\ Trails /\ e = Trailing /\ Off(kernel[e]) = Off(prev) =>
           /\ prev.true = kernel[e].true - Offset
           /\ state_last = Trailing /\ pulse[Trailing] # Never
                /\ Off(kernel[e]) = Off(pulse[Trailing])
                => kernel[1 - e] \notin {Never, pulse[1 - e]}
  BY <1>1, <1>2, FetchedEdge DEF e, prev
<1>8. CurInv'
  <2>1. /\ cur'.edge = e /\ cur'.this = kernel[e] /\ cur'.prev = prev
        /\ cur'.missed = (kernel[1 - e] \notin {Never, pulse[1 - e]})
    BY <1>1
  <2>2. (Past(cur.this) /\ Past(cur.prev))'
    BY <1>3, <1>7, <2>1
  <2>3. (Stamp(cur.this) /\ (cur.prev = Never \/ Stamp(cur.prev)))'
    BY <1>3, <1>7, <2>1
  <2>4. (cur.this.true % 1000 = OffsetOf(cur.edge))'
    BY <1>3, <1>7, <2>1
  <2>5. (Trails /\ cur.edge = Trailing /\ Off(cur.this) = Off(cur.prev) =>
           /\ cur.prev.true = cur.this.true - Offset
           /\ state_last = Trailing /\ pulse[Trailing] # Never
                /\ Off(cur.this) = Off(pulse[Trailing]) => cur.missed)'
    BY <1>1, <1>3, <1>7, <2>1 DEF Off
  <2> QED BY <2>2, <2>3, <2>4, <2>5 DEF CurInv
<1>9. FixInv' /\ SecondRight'
  BY <1>1, <1>2 DEF FixInv, SecondRight, RightSecond
<1> QED BY <1>1, <1>4, <1>5, <1>6, <1>8, <1>9 DEF SecondInv

\* A round keeps the edge and the one before, and what it takes for a leading edge,
\* with a current fix, makes a right sample.
LEMMA GrabKeeps ==
  ASSUME TypeOK, TypeOK', SecondInv, Grab
  PROVE  SecondInv'
<1> DEFINE short == ~(cur.edge # state_last) /\ PlausibleCycle(cur.this.at - pulse[cur.edge].at)
           length == IF short THEN 0 ELSE cur.this.at - cur.prev.at
           good == /\ LeadingEdge(cur.edge, cur.this.at - pulse[cur.edge].at, length)
                   /\ fix_in.real # 0 /\ CurrentFix(cur.this.at - fix_in.stamp.at)
<1>1. /\ pc = "grab" /\ state_last' = cur.edge
      /\ pulse' = [pulse EXCEPT ![cur.edge] = cur.this, ![1 - cur.edge] = cur.prev]
      /\ pc' \in {"top", "call", "report"}
      /\ UNCHANGED <<wave, delay, now, due, kernel, fix_in, out>>
  BY DEF Grab, Classify, env, world, shared
<1>2. pc' # "top" => /\ good
                     /\ cur' = [cur EXCEPT !.prev = pulse[cur.edge]]
                     /\ last_fixtime' = fix_in
  BY DEF Grab, Classify
<1>3. DueInv /\ KernelInv /\ PulseInv /\ CurInv /\ FixInv /\ SecondRight
  BY DEF SecondInv
<1>4. /\ cur \in [edge: 0 .. 1, this: Stamps, prev: Stamps, missed: BOOLEAN]
      /\ cur.edge \in 0 .. 1 /\ cur.this \in Stamps /\ cur.prev \in Stamps
      /\ pulse \in [0 .. 1 -> Stamps]
  BY DEF TypeOK
<1>5. /\ Trails' = Trails /\ Trailing' = Trailing /\ Leading' = Leading /\ Offset' = Offset
      /\ \A x : OffsetOf(x)' = OffsetOf(x)
      /\ \A s : Stamp(s)' = Stamp(s)
      /\ \A s : Past(s)' = Past(s)
      /\ Sec' = Sec
  BY <1>1, WaveKept DEF Past, Sec
<1>6. pulse'[cur.edge] = cur.this /\ pulse'[1 - cur.edge] = cur.prev
  BY <1>1, <1>4
<1>7. DueInv'
  BY <1>1, <1>3, <1>5 DEF DueInv
<1>8. KernelInv'
  BY <1>1, <1>3, <1>5, KernelKeeps DEF TypeOK
<1>9. PulseInv'
  <2>1. ASSUME NEW x \in 0 .. 1
        PROVE  Past(pulse'[x]) /\ (pulse'[x] = Never \/ Stamp(pulse'[x]))
    <3>1. x = cur.edge \/ x = 1 - cur.edge
      BY <1>4
    <3> QED BY <1>1, <1>3, <1>6, <3>1 DEF CurInv
  <2>2. \A x \in 0 .. 1 : Past(pulse[x])' /\ (pulse[x] = Never \/ Stamp(pulse[x]))'
    BY <1>5, <2>1
  <2>3. ASSUME Trails, cur.edge = Trailing, Off(pulse'[Leading]) = Off(pulse'[Trailing])
        PROVE  pulse'[Leading].true = pulse'[Trailing].true - Offset
    <3>1. Leading = 1 - cur.edge
      BY <2>3, WaveIs
    <3>2. pulse'[Leading] = cur.prev /\ pulse'[Trailing] = cur.this
      BY <1>6, <2>3, <3>1
    <3> QED BY <1>1, <1>3, <2>3, <3>2 DEF CurInv
  <2>4. (Trails /\ state_last = Trailing /\ pulse[Trailing] # Never
           /\ Off(pulse[Leading]) = Off(pulse[Trailing])
         => pulse[Leading].true = pulse[Trailing].true - Offset)'
    BY <1>1, <1>5, <2>3 DEF Off
  <2> QED BY <1>1, <2>2, <2>4 DEF PulseInv
<1>10. CurInv' /\ FixInv' /\ SecondRight'
  BY <1>1, <1>3 DEF CurInv, FixInv, SecondRight, RightSecond
<1>11. ASSUME pc' # "top" PROVE SampleRight'
  <2>1. /\ good /\ last_fixtime' = fix_in
        /\ cur' = [cur EXCEPT !.prev = pulse[cur.edge]]
    BY <1>2, <1>11
  <2>2. /\ cur'.edge = cur.edge /\ cur'.this = cur.this /\ cur'.prev = pulse[cur.edge]
        /\ cur'.missed = cur.missed
    BY <1>4, <2>1
  <2>3. Sample' = [real |-> fix_in.real + 1, true |-> cur.this.true, missed |-> cur.missed,
                   age |-> cur.this.true - fix_in.stamp.true,
                   stepped |-> Cardinality({Off(cur.this), Off(pulse[cur.edge]), Off(cur.prev),
                                            Off(fix_in.stamp)}) > 1]
    BY <1>6, <2>1, <2>2 DEF Sample, Off
  <2> DEFINE p == Off(cur.this)
             q == Off(pulse[cur.edge])
             r == Off(cur.prev)
             s == Off(fix_in.stamp)
  <2>x. /\ Sample'.real = fix_in.real + 1 /\ Sample'.true = cur.this.true
        /\ Sample'.missed = cur.missed /\ Sample'.age = cur.this.true - fix_in.stamp.true
        /\ Sample'.stepped = (Cardinality({p, q, r, s}) > 1)
    BY <2>3
  <2> HIDE DEF p, q, r, s
  <2>4. SUFFICES ASSUME ~cur.missed, ~(cur.this.true - fix_in.stamp.true >= 2000),
                        ~(Cardinality({p, q, r, s}) > 1)
        PROVE  (fix_in.real + 1) * 1000 = cur.this.true
    <3>1. Sample'.stepped \/ Sample'.missed \/ Sample'.age >= 2000 => SampleRight'
      BY DEF SampleRight
    <3>2. Sample'.real * 1000 = Sample'.true => SampleRight'
      BY DEF SampleRight
    <3>3. (fix_in.real + 1) * 1000 = cur.this.true => SampleRight'
      BY <2>x, <3>2
    <3>4. cur.missed => SampleRight'
      BY <2>x, <3>1
    <3>5. cur.this.true - fix_in.stamp.true >= 2000 => SampleRight'
      BY <2>x, <3>1
    <3>6. Cardinality({p, q, r, s}) > 1 => SampleRight'
      <4> SUFFICES ASSUME Cardinality({p, q, r, s}) > 1 PROVE Sample'.stepped
        BY <3>1
      <4> QED BY <2>x
    <3> QED BY <3>3, <3>4, <3>5, <3>6
  <2>y. p = q /\ p = r /\ p = s
    <3> DEFINE S == {p, q, r, s}
    <3>1. S = {p, q, r, s} /\ ~(Cardinality(S) > 1)
      BY <2>4
    <3> HIDE DEF S
    <3> QED BY <3>1, NotStepped
  <2>5. /\ Off(cur.this) = Off(pulse[cur.edge]) /\ Off(cur.this) = Off(cur.prev)
        /\ Off(cur.this) = Off(fix_in.stamp)
    BY <2>y DEF p, q, r, s
  <2>6. cur.this.true - fix_in.stamp.true < 2000
    BY <1>4, <2>4 DEF TypeOK, Stamps
  <2>7. length \in Int /\ ((length = 0 /\ cur.edge = state_last) \/ length = cur.this.at - cur.prev.at)
    BY <1>4 DEF Stamps
  <2> HIDE DEF length
  <2> QED BY <1>1, <1>3, <2>1, <2>4, <2>5, <2>6, <2>7, LeadingIsRight
<1> QED BY <1>1, <1>7, <1>8, <1>9, <1>10, <1>11 DEF SecondInv

\* NTP is told the right second, whatever the shape and the width of the pulse, the
\* delay of the fixes and the step of the clock.
THEOREM PpsSecondInvariant == Spec => []SecondInv
<1>a. FirstSec \in Nat /\ FirstSec > 3
  BY PpsAssumption
<1>1. Init => SecondInv
  <2> SUFFICES ASSUME Init PROVE SecondInv
    OBVIOUS
  <2>1. now = FirstSec * 1000 - 1 /\ due = {}
    BY DEF Init
  <2>2. \A e \in 0 .. 1 : kernel[e] = Never /\ pulse[e] = Never
    BY DEF Init
  <2>3. Past(Never)
    BY <1>a, <2>1 DEF Past, Never
  <2>4. DueInv
    BY <1>a, <2>1 DEF DueInv
  <2>5. KernelInv
    BY <2>2, <2>3, WaveIs DEF KernelInv, Leading, Trailing
  <2>6. PulseInv
    BY <2>2, <2>3 DEF PulseInv, Trailing, Init
  <2> QED BY <2>4, <2>5, <2>6 DEF Init, SecondInv, CurInv, FixInv, SecondRight
<1>2. TypeOK /\ TypeOK' /\ SecondInv /\ [Next]_vars => SecondInv'
  <2> SUFFICES ASSUME TypeOK, TypeOK', SecondInv, [Next]_vars PROVE SecondInv'
    OBVIOUS
  <2>a. DueInv /\ KernelInv /\ PulseInv /\ CurInv /\ FixInv /\ SecondRight
        /\ (pc \in {"call", "report"} => SampleRight)
    BY DEF SecondInv
  <2>b. ASSUME UNCHANGED <<pulse, cur, last_fixtime, pc, out>> PROVE
               SecondRight' /\ (pc' \in {"call", "report"} => SampleRight')
    <3>1. Sample' = Sample
      BY <2>b DEF Sample, Off
    <3> QED BY <2>a, <2>b, <3>1 DEF SampleRight, SecondRight, RightSecond
  <2>1. CASE NewSecond
    <3>1. UNCHANGED <<wave, delay, kernel, fresh, fix_in, pulse, state_last, last_fixtime, cur, pc, out>>
      BY <2>1 DEF NewSecond, shared, locals
    <3>2. DueInv' /\ now <= now' /\ \A d \in due' : d.edge >= 0 => d.at > now
      BY <2>1, <2>a, NewSecondKeeps
    <3>3. KernelInv'
      BY <2>a, <3>1, <3>2, KernelKeeps
    <3>4. pc' = "wait" /\ fresh' =>
            \E e \in 0 .. 1 : \A x \in 0 .. 1 : kernel'[e].true > pulse[x].true
      BY <2>a, <3>1 DEF PulseInv
    <3>5. PulseInv' /\ CurInv'
      BY <2>a, <3>1, <3>2, <3>4, WorldKeeps
    <3>6. FixInv'
      BY <2>a, <3>1 DEF FixInv
    <3> QED BY <2>b, <3>1, <3>2, <3>3, <3>5, <3>6 DEF SecondInv
  <2>2. ASSUME NEW e \in due, Edge(e) PROVE SecondInv'
    <3>1. /\ UNCHANGED <<wave, delay, fix_in, pulse, state_last, last_fixtime, cur, pc, out>>
          /\ Next1(e) /\ e.edge >= 0 /\ now' = e.at /\ due' = due \ {e}
          /\ kernel' = [kernel EXCEPT ![e.edge] = [at |-> e.at + skew, true |-> e.at]]
      BY <2>2 DEF Edge, shared, locals
    <3>2. DueInv' /\ KernelInv'
      BY <2>2, <2>a, EdgeKeeps
    <3>3. now <= now' /\ \A d \in due' : d \in due
      BY <2>a, <3>1, NextIsDue
    <3>4. \E x \in 0 .. 1 : \A y \in 0 .. 1 : kernel'[x].true > pulse[y].true
      <4>1. e.edge \in 0 .. 1 /\ kernel'[e.edge].true = e.at /\ e.at \in Nat
        BY <3>1 DEF TypeOK
      <4>2. \A y \in 0 .. 1 : pulse[y].true < e.at /\ pulse[y].true \in Int
        BY <2>a, <3>1 DEF PulseInv, Past, TypeOK, Stamps
      <4> QED BY <4>1, <4>2
    <3>5. PulseInv' /\ CurInv'
      BY <2>a, <3>1, <3>3, <3>4, WorldKeeps
    <3>6. FixInv'
      BY <2>a, <3>1 DEF FixInv
    <3> QED BY <2>b, <3>1, <3>2, <3>5, <3>6 DEF SecondInv
  <2>3. ASSUME NEW e \in due, Latch(e) PROVE SecondInv'
    <3>1. /\ UNCHANGED <<wave, delay, kernel, fresh, pulse, state_last, last_fixtime, cur, pc, out>>
          /\ Next1(e) /\ e.edge = -1 /\ now' = e.at /\ due' = due \ {e}
          /\ fix_in' = [real |-> e.at \div 1000, stamp |-> [at |-> e.at + skew, true |-> e.at]]
      BY <2>3 DEF Latch, locals
    <3>2. /\ now <= now' /\ Sec' = Sec /\ e.at \div 1000 = Sec
          /\ \A d \in due' : d \in due /\ now' <= d.at
          /\ e.at = Sec * 1000 + delay
      BY <2>a, <3>1, NextIsDue
    <3>3. DueInv'
      <4>1. /\ Trails' = Trails /\ Trailing' = Trailing /\ Leading' = Leading
            /\ \A x : OffsetOf(x)' = OffsetOf(x)
        BY <3>1, WaveKept
      <4>2. now' >= FirstSec * 1000 - 1
        BY <1>a, <2>a, <3>2 DEF DueInv, TypeOK
      <4>3. ASSUME NEW d \in due'
            PROVE  /\ now' <= d.at
                   /\ d.at = Sec' * 1000 + IF d.edge = -1 THEN delay' ELSE OffsetOf(d.edge)'
                   /\ Sec' >= FirstSec
                   /\ Trails' /\ d.edge = Trailing' =>
                        kernel'[Leading'].true = Sec' * 1000 \/ \E c \in due' : c.edge = Leading'
        <5>1. /\ d.at = Sec * 1000 + IF d.edge = -1 THEN delay ELSE OffsetOf(d.edge)
              /\ Sec >= FirstSec
          BY <2>a, <3>2 DEF DueInv
        <5>2. ASSUME Trails, d.edge = Trailing
              PROVE  kernel[Leading].true = Sec * 1000 \/ \E c \in due' : c.edge = Leading
          <6>1. kernel[Leading].true = Sec * 1000 \/ \E c \in due : c.edge = Leading
            BY <2>a, <3>2, <5>2 DEF DueInv
          <6>2. Leading # -1
            BY WaveIs
          <6> QED BY <3>1, <6>1, <6>2
        <5> QED BY <3>1, <3>2, <4>1, <5>1, <5>2
      <4>4. \A c, d \in due' : c.edge >= 0 /\ d.edge >= 0 /\ c.at = d.at => c = d
        BY <2>a, <3>2 DEF DueInv
      <4> QED BY <4>2, <4>3, <4>4 DEF DueInv
    <3>4. KernelInv'
      BY <2>a, <3>1, <3>2, KernelKeeps
    <3>5. pc' = "wait" /\ fresh' =>
            \E x \in 0 .. 1 : \A y \in 0 .. 1 : kernel'[x].true > pulse[y].true
      BY <2>a, <3>1 DEF PulseInv
    <3>6. PulseInv' /\ CurInv'
      BY <2>a, <3>1, <3>2, <3>5, WorldKeeps
    <3>7. FixInv'
      BY <3>1, <3>2 DEF FixInv
    <3> QED BY <2>b, <3>1, <3>3, <3>4, <3>6, <3>7 DEF SecondInv
  <2>4. ASSUME NEW s \in Steps, StepClock(s) PROVE SecondInv'
    BY <2>4, IdleKeeps DEF StepClock, shared, locals
  <2>5. CASE Activate
    BY <2>5, IdleKeeps DEF Activate, InitKernelPps, world, locals
  <2>6. CASE Deactivate
    BY <2>6, IdleKeeps DEF Deactivate, world, locals
  <2>7. CASE Start
    BY <2>7, IdleKeeps DEF Start, world, locals
  <2>8. CASE Top
    BY <2>8, IdleKeeps DEF Top, env, world, shared
  <2>9. CASE Sleep
    BY <2>9, IdleKeeps DEF Sleep, env, world, shared, locals
  <2>10. CASE Fetch
    BY <2>10, FetchKeeps
  <2>11. CASE FetchTimeout
    BY <2>11, IdleKeeps DEF FetchTimeout, env, world, shared, locals
  <2>12. CASE Grab
    BY <2>12, GrabKeeps
  <2>13. CASE FetchError
    <3>1. /\ Classify(NoEdge, NoFix) /\ pc = "wait" /\ fresh' = FALSE
          /\ UNCHANGED <<wave, delay, now, due, kernel, fix_in, out>>
      BY <2>13 DEF FetchError, env, world, shared
    <3>2. /\ pc' = "top" /\ state_last' = 0
          /\ pulse' = [pulse EXCEPT ![0] = Never, ![1] = Never]
      BY <3>1 DEF Classify, NoEdge, NoFix
    <3>3. \A x \in 0 .. 1 : pulse'[x] = Never
      BY <3>2 DEF TypeOK
    <3>4. /\ Trails' = Trails /\ Trailing' = Trailing /\ Leading' = Leading /\ Offset' = Offset
          /\ \A x : OffsetOf(x)' = OffsetOf(x)
          /\ \A s : Past(s)' = Past(s)
          /\ Sec' = Sec
      BY <3>1, WaveKept DEF Past, Sec
    <3>5. DueInv'
      BY <2>a, <3>1, <3>4 DEF DueInv
    <3>6. KernelInv'
      BY <2>a, <3>1, <3>4, KernelKeeps DEF TypeOK
    <3>7. PulseInv'
      <4>1. Past(Never)
        BY <1>a, <2>a DEF Past, Never, DueInv, TypeOK
      <4>2. Trailing' \in 0 .. 1
        BY <3>4, WaveIs
      <4> QED BY <3>2, <3>3, <3>4, <4>1, <4>2 DEF PulseInv
    <3>8. CurInv' /\ FixInv' /\ SecondRight'
      BY <2>a, <3>1, <3>2 DEF CurInv, FixInv, SecondRight, RightSecond
    <3> QED BY <3>2, <3>5, <3>6, <3>7, <3>8 DEF SecondInv
  <2>14. CASE CallHook
    BY <2>14, IdleKeeps DEF CallHook, env, world, shared, locals
  <2>15. CASE Report
    <3>1. /\ pc = "report" /\ pc' = "top" /\ out' = Sample
          /\ UNCHANGED <<wave, delay, now, due, kernel, fix_in, fresh, state_last, pulse>>
      BY <2>15 DEF Report, env, world, shared
    <3>2. SecondRight'
      BY <2>a, <3>1 DEF SampleRight, SecondRight, RightSecond
    <3>3. /\ Trails' = Trails /\ Trailing' = Trailing /\ Leading' = Leading /\ Offset' = Offset
          /\ \A x : OffsetOf(x)' = OffsetOf(x)
          /\ \A s : Stamp(s)' = Stamp(s)
          /\ \A s : Past(s)' = Past(s)
          /\ Sec' = Sec
      BY <3>1, WaveKept DEF Past, Sec
    <3>4. DueInv'
      BY <2>a, <3>1, <3>3 DEF DueInv
    <3>5. KernelInv'
      BY <2>a, <3>1, <3>3, KernelKeeps DEF TypeOK
    <3>6. PulseInv'
      <4>1. \A x \in 0 .. 1 : Past(pulse[x])' /\ (pulse[x] = Never \/ Stamp(pulse[x]))'
        BY <2>a, <3>1, <3>3 DEF PulseInv
      <4>2. (Trails /\ state_last = Trailing /\ pulse[Trailing] # Never
               /\ Off(pulse[Leading]) = Off(pulse[Trailing])
             => pulse[Leading].true = pulse[Trailing].true - Offset)'
        BY <2>a, <3>1, <3>3 DEF PulseInv, Off
      <4> QED BY <3>1, <4>1, <4>2 DEF PulseInv
    <3>7. CurInv' /\ FixInv'
      BY <2>a, <3>1 DEF CurInv, FixInv
    <3> QED BY <3>1, <3>2, <3>4, <3>5, <3>6, <3>7 DEF SecondInv
  <2>16. CASE UNCHANGED vars
    BY <2>16, IdleKeeps DEF vars
  <2> QED BY <2>1, <2>2, <2>3, <2>4, <2>5, <2>6, <2>7, <2>8, <2>9, <2>10, <2>11, <2>12, <2>13,
             <2>14, <2>15, <2>16 DEF Next, Thread, World, Main
<1> QED BY <1>1, <1>2, PpsType, PTL DEF Spec

\* NTP is told the right second, and the edge that opens it, except across a step of
\* the clock, with a fix that is two seconds old or older, and after a missed edge.
THEOREM PpsSecondRight == Spec => []SecondRight
<1>1. SecondInv => SecondRight
  BY DEF SecondInv
<1> QED BY <1>1, PpsSecondInvariant, PTL

-----------------------------------------------------------------------------
(* The PPS thread that keeps up                                            *)

\* The edge that opens this second, and the one that opened the second before.
Lead == IF wave = "half" THEN Sec % 2 ELSE Leading
LastLead == IF wave = "half" THEN 1 - Lead ELSE Leading

\* A stamp of the clock as it is now.
Stamped(t) == [at |-> t + skew, true |-> t]

\* The fix and the edges of this second came.
Latched == fix_in.real = Sec
Came == kernel[Lead].true = Sec * 1000
TrailCame == Trails /\ kernel[Trailing].true = Sec * 1000 + Offset

\* How many seconds before this one the thread has kept up with, and that it has
\* done with the last edge.
Depth == IF Latched THEN streak - 1 ELSE streak
Handled == pc # "grab" /\ ~(pc = "wait" /\ fresh)

\* The last edge, and that both stamps of the kernel are of known edges.
Latest == IF TrailCame THEN Trailing
          ELSE IF Came THEN Lead ELSE IF Trails THEN Trailing ELSE LastLead
Sure == \/ Depth >= 2
        \/ Depth >= 1 /\ (wave # "half" \/ Came)
        \/ Depth >= 0 /\ (TrailCame \/ (wave = "single" /\ Came))

\* What the shape of the signal says of this second.
SignalInv ==
  /\ \A d \in due : d.edge >= 0 => d.edge = Lead \/ (Trails /\ d.edge = Trailing)
  /\ Trails /\ (\E d \in due : d.edge = Leading) => \E d \in due : d.edge = Trailing
  /\ \A k \in 0 .. 1 : kernel[k].true = Sec * 1000 => k = Lead
  /\ fix_in.real <= Sec /\ \A d \in due : d.edge = -1 => ~Latched
  /\ wave = "single" => kernel[0] = Never
  /\ main = "launch" => pc = "none" /\ streak <= 0

\* The stamps that the kernel and the GNSS thread have of the seconds kept up with.
KnownInv ==
  /\ Depth >= 0 /\ Came => kernel[Lead] = Stamped(Sec * 1000)
  /\ Depth >= 0 /\ TrailCame => kernel[Trailing] = Stamped(Sec * 1000 + Offset)
  /\ Depth >= 0 /\ Trails /\ Came => TrailCame \/ \E d \in due : d.edge = Trailing
  /\ Depth >= 1 /\ (~Came \/ wave = "half") => kernel[LastLead] = Stamped((Sec - 1) * 1000)
  /\ Depth >= 1 /\ Trails /\ ~TrailCame => kernel[Trailing] = Stamped((Sec - 1) * 1000 + Offset)
  /\ Depth >= 2 /\ wave = "half" /\ ~Came => kernel[Lead] = Stamped((Sec - 2) * 1000)
  /\ Depth >= 0 /\ Latched => Came /\ fix_in.stamp = Stamped(Sec * 1000 + delay)
  /\ Depth >= 1 /\ ~Latched =>
       fix_in.real = Sec - 1 /\ fix_in.stamp = Stamped((Sec - 1) * 1000 + delay)

\* What the thread that kept up has of them, up to the edge it works on.
Before == IF wave = "half" THEN (Sec - 2) * 1000 ELSE (Sec - 1) * 1000
FollowInv ==
  /\ Depth >= 1 /\ ~Came => Handled /\ pc \notin {"call", "report"}
  /\ Handled /\ Depth >= 0 /\ (Depth >= 1 \/ Came) =>
       \A k \in 0 .. 1 : kernel[k] = Never \/ pulse[k] = kernel[k]
  /\ Handled /\ Sure => state_last = Latest
  /\ pc = "grab" /\ Depth >= 0 /\ Came =>
       /\ cur.this = kernel[cur.edge]
       /\ cur.prev = IF cur.edge = 1 /\ kernel[0] = Never THEN kernel[1] ELSE kernel[1 - cur.edge]
       /\ Sure => cur.edge = Latest
  /\ ~Handled /\ Depth >= 2 /\ ~TrailCame /\ ~Latched =>
       /\ pulse[Lead] = Stamped(Before)
       /\ state_last = IF wave = "single" THEN 1 ELSE 1 - Lead

\* After two such seconds it takes the opening edge for one, and has reported it
\* before the next edge or the fix comes.
ToldInv ==
  Depth >= 2 /\ (wave = "inverted" => Width <= 445) =>
    /\ pc \in {"call", "report"} => cur.this.true \div 1000 = Sec
    /\ hook /\ (TrailCame \/ Latched \/ (Came /\ Handled /\ pc \notin {"call", "report"})) =>
         out.true \div 1000 = Sec

\* The opening edges of this second and the last one, by the shape of the signal.
LEMMA LeadIs ==
  ASSUME TypeOK
  PROVE  /\ Sec \in Nat /\ now \in Nat /\ Sec * 1000 <= now /\ now < Sec * 1000 + 1000
         /\ Lead \in 0 .. 1 /\ LastLead \in 0 .. 1 /\ OffsetOf(Lead) = 0
         /\ Trails => /\ Lead = Leading /\ LastLead = Leading /\ wave \notin {"half", "single"}
                      /\ Trailing \in 0 .. 1 /\ Trailing = 1 - Lead /\ Trailing # Lead
                      /\ Offset \in 1 .. 500 /\ OffsetOf(Trailing) = Offset
         /\ wave = "single" => Lead = 1 /\ LastLead = 1 /\ ~Trails
         /\ wave = "half" => LastLead = 1 - Lead /\ ~Trails
         /\ Trails \/ wave = "single" \/ wave = "half"
<1>1. wave \in {"single", "pulse", "inverted", "square", "half"}
  BY PpsAssumption DEF TypeOK
<1>2. Sec \in Nat /\ now \in Nat /\ Sec * 1000 <= now /\ now < Sec * 1000 + 1000
  BY SecIs DEF TypeOK, Sec
<1>3. Sec % 2 \in 0 .. 1
  BY <1>2
<1>4. /\ Trailing \in 0 .. 1 /\ Leading \in 0 .. 1 /\ Trailing = 1 - Leading /\ Trailing # Leading
      /\ OffsetOf(Leading) = 0 /\ (Trails => OffsetOf(Trailing) = Offset /\ Offset \in 1 .. 500)
  BY WaveIs
<1>5. CASE Trails
  BY <1>2, <1>4, <1>5 DEF Lead, LastLead, Trails
<1>6. CASE wave = "single"
  <2>1. ~Trails /\ Leading = 1
    BY <1>6 DEF Trails, Leading, Trailing
  <2> QED BY <1>2, <1>4, <1>6, <2>1 DEF Lead, LastLead
<1>7. CASE wave = "half"
  <2>1. ~Trails
    BY <1>7 DEF Trails
  <2> QED BY <1>2, <1>3, <1>7, <2>1 DEF Lead, LastLead, OffsetOf
<1> QED BY <1>1, <1>5, <1>6, <1>7 DEF Trails

\* What the kernel has is past; a trailing edge came with the opening one.
LEMMA CameIs ==
  ASSUME TypeOK, DueInv, KernelInv
  PROVE  /\ Sec > 0 /\ \A k \in 0 .. 1 : kernel[k] \in Stamps /\ kernel[k].true <= now
         /\ TrailCame => Came
         /\ Came => Sec > 3 /\ Stamp(kernel[Lead])
<1>1. \A k \in 0 .. 1 : kernel[k] \in Stamps /\ kernel[k].true <= now
  BY DEF TypeOK, KernelInv, Past
<1>2. ASSUME TrailCame PROVE Came
  <2>1. /\ Trails /\ kernel[Trailing].true = Sec * 1000 + Offset
        /\ Offset \in 1 .. 500 /\ Sec \in Nat /\ now < Sec * 1000 + 1000 /\ now \in Nat
        /\ Lead = Leading /\ Leading \in 0 .. 1 /\ OffsetOf(Leading) = 0
    BY <1>2, LeadIs DEF TrailCame
  <2>2. kernel[Trailing] # Never
    BY <2>1 DEF Never
  <2>3. kernel[Leading] # Never /\ kernel[Leading].true >= Sec * 1000
    BY <2>1, <2>2 DEF KernelInv
  <2>4. kernel[Leading].true % 1000 = 0 /\ kernel[Leading].true < Sec * 1000 + 1000
        /\ kernel[Leading].true \in Int
    BY <1>1, <2>1, <2>3 DEF KernelInv, Stamps
  <2>5. kernel[Leading].true = Sec * 1000
    <3>1. \A t \in Int, n \in Nat :
            t % 1000 = 0 /\ t >= n * 1000 /\ t < n * 1000 + 1000 => t = n * 1000
      OBVIOUS
    <3> QED BY <2>1, <2>3, <2>4, <3>1
  <2> QED BY <2>1, <2>5 DEF Came
<1>3. Sec > 0
  <2>1. FirstSec \in Nat /\ FirstSec > 3 /\ now >= FirstSec * 1000 - 1
    BY PpsAssumption DEF DueInv
  <2> QED BY <2>1, LeadIs
<1>4. ASSUME Came PROVE Sec > 3 /\ Stamp(kernel[Lead])
  <2>1. kernel[Lead].true = Sec * 1000 /\ Lead \in 0 .. 1 /\ Sec \in Nat
    BY <1>4, LeadIs DEF Came
  <2>2. kernel[Lead] # Never
    BY <1>3, <2>1 DEF Never
  <2> QED BY <2>1, <2>2 DEF KernelInv, Stamp
<1> QED BY <1>1, <1>2, <1>3, <1>4

\* The invariant of the thread that keeps up.
GoodInv == SignalInv /\ KnownInv /\ FollowInv /\ ToldInv

\* Nothing is said of a second that is spoilt.
LEMMA SpoiltKeeps ==
  ASSUME TypeOK', streak' = -1, SignalInv'
  PROVE  GoodInv'
<1>1. ~(Depth' >= 0)
  BY DEF Depth
<1>2. Depth' \in Int
  BY DEF Depth
<1> QED BY <1>1, <1>2 DEF GoodInv, KnownInv, FollowInv, ToldInv, Sure

\* What stays within a second.
LEMMA SameSecond ==
  ASSUME wave' = wave, Sec' = Sec
  PROVE  /\ Lead' = Lead /\ LastLead' = LastLead /\ Before' = Before
         /\ Trails' = Trails /\ Trailing' = Trailing /\ Leading' = Leading /\ Offset' = Offset
<1>1. Trails' = Trails /\ Trailing' = Trailing /\ Leading' = Leading /\ Offset' = Offset
  BY WaveKept
<1> QED BY <1>1 DEF Lead, LastLead, Before

\* The steps of the thread and of main leave the world as it is.
LEMMA WorldStays ==
  ASSUME UNCHANGED <<wave, delay, now, due, skew, kernel, fix_in, streak>>
  PROVE  /\ Lead' = Lead /\ LastLead' = LastLead /\ Before' = Before
         /\ Trails' = Trails /\ Trailing' = Trailing /\ Leading' = Leading /\ Offset' = Offset
         /\ Sec' = Sec /\ Latched' = Latched /\ Came' = Came /\ TrailCame' = TrailCame
         /\ Depth' = Depth /\ Latest' = Latest /\ Sure' = Sure
         /\ KnownInv => KnownInv'
         /\ SignalInv /\ (main' = "launch" => main = "launch" /\ pc' = pc) => SignalInv'
<1>1. Sec' = Sec
  BY DEF Sec
<1>2. /\ Lead' = Lead /\ LastLead' = LastLead /\ Before' = Before
      /\ Trails' = Trails /\ Trailing' = Trailing /\ Leading' = Leading /\ Offset' = Offset
  BY <1>1, SameSecond
<1>3. Latched' = Latched /\ Came' = Came /\ TrailCame' = TrailCame
  BY <1>1, <1>2 DEF Latched, Came, TrailCame
<1>4. Depth' = Depth /\ Latest' = Latest
  BY <1>2, <1>3 DEF Depth, Latest
<1>5. Sure' = Sure
  BY <1>3, <1>4 DEF Sure
<1>6. KnownInv => KnownInv'
  BY <1>1, <1>2, <1>3, <1>4 DEF KnownInv, Stamped
<1>7. SignalInv /\ (main' = "launch" => main = "launch" /\ pc' = pc) => SignalInv'
  BY <1>1, <1>2, <1>3 DEF SignalInv
<1> QED BY <1>1, <1>2, <1>3, <1>4, <1>5, <1>6, <1>7

\* The steps of the thread and of main that neither take an edge nor report one.
LEMMA QuietKeeps ==
  ASSUME TypeOK, GoodInv,
         UNCHANGED <<wave, delay, now, due, skew, kernel, fix_in, streak, pulse, state_last, out>>,
         Handled' = Handled, pc' = "grab" <=> pc = "grab",
         cur' = cur \/ ~(pc' \in {"grab", "call", "report"}),
         pc' \in {"call", "report"} => pc \in {"call", "report"},
         hook' /\ pc \in {"call", "report"} => pc' \in {"call", "report"},
         hook' => hook \/ Depth < 2, main' = "launch" => main = "launch" /\ pc' = pc
  PROVE  GoodInv'
<1>1. /\ Lead' = Lead /\ Before' = Before /\ Trails' = Trails
      /\ Sec' = Sec /\ Latched' = Latched /\ Came' = Came /\ TrailCame' = TrailCame
      /\ Depth' = Depth /\ Latest' = Latest /\ Sure' = Sure
      /\ KnownInv' /\ SignalInv'
  BY WorldStays DEF GoodInv
<1>2. FollowInv'
  BY <1>1 DEF GoodInv, FollowInv, Stamped
<1>3. ToldInv'
  <2>1. Depth \in Int /\ ToldInv
    BY DEF Depth, TypeOK, GoodInv
  <2>2. hook' /\ Depth >= 2 => hook
    BY <2>1
  <2>3. pc' \in {"call", "report"} => cur' = cur
    OBVIOUS
  <2> QED BY <1>1, <2>1, <2>2, <2>3 DEF ToldInv
<1> QED BY <1>1, <1>2, <1>3 DEF GoodInv

\* A second after a good one is one deeper, and brings nothing yet.
LEMMA NewSecondFollows ==
  ASSUME TypeOK, TypeOK', SecondInv, GoodInv, NewSecond
  PROVE  GoodInv'
<1>a. SignalInv /\ KnownInv /\ FollowInv /\ DueInv /\ KernelInv
  BY DEF GoodInv, SecondInv
<1>1. /\ due = {} /\ due' \in Seconds(Sec + 1) /\ now' = (Sec + 1) * 1000
      /\ streak' = IF KeepsUp /\ Latched THEN streak ELSE 0
      /\ UNCHANGED <<wave, delay, skew, kernel, fresh, fix_in, hook, main, pc, pulse, state_last, cur, out>>
  BY DEF NewSecond, shared, locals, Latched
<1>2. /\ Sec \in Nat /\ Sec' = Sec + 1 /\ fix_in.real \in Nat /\ fix_in.real <= Sec
      /\ now < Sec * 1000 + 1000 /\ now \in Nat
  <2>1. Sec \in Nat /\ now < Sec * 1000 + 1000 /\ now \in Nat
    BY LeadIs
  <2>2. ((Sec + 1) * 1000) \div 1000 = Sec + 1
    <3>1. \A n \in Nat : ((n + 1) * 1000) \div 1000 = n + 1
      OBVIOUS
    <3> QED BY <2>1, <3>1
  <2>3. Sec' = now' \div 1000
    BY DEF Sec
  <2> QED BY <1>1, <1>a, <2>1, <2>2, <2>3 DEF TypeOK, SignalInv
<1>3. /\ Trails' = Trails /\ Trailing' = Trailing /\ Leading' = Leading /\ Offset' = Offset
  BY <1>1, WaveKept
<1>4. /\ Lead \in 0 .. 1 /\ Lead' \in 0 .. 1 /\ LastLead' = Lead
      /\ (wave = "half" => Lead' = LastLead) /\ (wave # "half" => Lead' = Lead)
      /\ Lead' = IF wave = "half" THEN (Sec + 1) % 2 ELSE Leading
  <2>1. \A n \in Nat : (n + 1) % 2 = 1 - (n % 2) /\ n % 2 \in 0 .. 1
    OBVIOUS
  <2>2. CASE wave = "half"
    <3>1. Lead = Sec % 2 /\ LastLead = 1 - (Sec % 2) /\ Lead' = (Sec + 1) % 2 /\ LastLead' = 1 - ((Sec + 1) % 2)
      BY <1>1, <1>2, <2>2 DEF Lead, LastLead
    <3>2. (Sec + 1) % 2 = 1 - (Sec % 2) /\ Sec % 2 \in 0 .. 1
      BY <1>2, <2>1
    <3> QED BY <2>2, <3>1, <3>2
  <2>3. CASE wave # "half"
    <3>1. Leading \in 0 .. 1
      BY WaveIs
    <3> QED BY <1>1, <1>3, <2>3, <3>1 DEF Lead, LastLead
  <2> QED BY <2>2, <2>3
<1>5. ASSUME NEW k \in 0 .. 1, NEW o \in Nat PROVE kernel'[k].true # Sec' * 1000 + o
  BY <1>a, <1>1, <1>2, CameIs DEF Stamps
<1>6. ~Came' /\ ~TrailCame' /\ ~Latched'
  <2>1. kernel'[Lead'].true # Sec' * 1000 + 0
    BY <1>4, <1>5
  <2>2. Trails => kernel'[Trailing].true # Sec' * 1000 + Offset
    BY <1>5, LeadIs
  <2>3. fix_in.real # Sec + 1
    BY <1>2
  <2> QED BY <1>1, <1>2, <1>3, <2>1, <2>2, <2>3 DEF Came, TrailCame, Latched
<1>7. SignalInv'
  <2>1. ASSUME NEW d \in due', d.edge >= 0
        PROVE  /\ d.edge = Lead' \/ (Trails /\ d.edge = Trailing)
               /\ Trails => \E c \in due' : c.edge = Trailing
    <3> DEFINE n == Sec + 1
               edges == {[at |-> n * 1000 + e[1], edge |-> e[2]] : e \in EdgesOf(n)}
               fixes == {[at |-> n * 1000 + delay, edge |-> -1]}
    <3>1. PICK E \in {{}, edges}, F \in {{}, fixes} : due' = E \cup F
      BY <1>1 DEF Seconds
    <3>2. d \notin F
      BY <2>1
    <3>3. d \in edges /\ E = edges
      BY <2>1, <3>1, <3>2
    <3>4. PICK e \in EdgesOf(n) : d = [at |-> n * 1000 + e[1], edge |-> e[2]]
      BY <3>3
    <3>5. d.edge = e[2]
      BY <3>4
    <3> HIDE DEF n
    <3>w. wave \in {"single", "pulse", "inverted", "square", "half"}
      BY PpsAssumption DEF TypeOK
    <3>6. \A x \in EdgesOf(n) : x[2] = (IF wave = "half" THEN n % 2 ELSE Leading) \/ (Trails /\ x[2] = Trailing)
      BY <3>w DEF EdgesOf, Leading, Trailing, Trails
    <3>7. Trails => \E x \in EdgesOf(n) : x[2] = Trailing
      <4>1. CASE wave = "pulse"
        <5>1. <<Width, 0>> \in EdgesOf(n)
          BY <4>1 DEF EdgesOf
        <5> QED BY <4>1, <5>1 DEF Trailing
      <4>2. CASE wave = "inverted"
        <5>1. <<Width, 1>> \in EdgesOf(n)
          BY <4>2 DEF EdgesOf
        <5> QED BY <4>2, <5>1 DEF Trailing
      <4>3. CASE wave = "square"
        <5>1. <<500, 0>> \in EdgesOf(n)
          BY <4>3 DEF EdgesOf
        <5> QED BY <4>3, <5>1 DEF Trailing
      <4> QED BY <4>1, <4>2, <4>3 DEF Trails
    <3>8. Trails => \E c \in edges : c.edge = Trailing
      <4> SUFFICES ASSUME Trails PROVE \E c \in edges : c.edge = Trailing
        OBVIOUS
      <4>1. PICK x \in EdgesOf(n) : x[2] = Trailing
        BY <3>7
      <4> DEFINE c == [at |-> n * 1000 + x[1], edge |-> x[2]]
      <4>2. c \in edges /\ c.edge = Trailing
        BY <4>1
      <4> QED BY <4>2
    <3>9. d.edge = Lead' \/ (Trails /\ d.edge = Trailing)
      BY <1>4, <3>5, <3>6 DEF n
    <3> QED BY <3>1, <3>3, <3>8, <3>9
  <2>2. Leading \in 0 .. 1
    BY WaveIs
  <2>3. \A k \in 0 .. 1 : kernel'[k].true # Sec' * 1000
    <3>1. \A k \in 0 .. 1 : kernel'[k].true # Sec' * 1000 + 0
      BY <1>5
    <3> QED BY <1>2, <3>1
  <2>4. main' = "launch" => pc' = "none" /\ streak' <= 0
    BY <1>1, <1>a DEF SignalInv, KeepsUp
  <2> QED BY <1>1, <1>2, <1>3, <1>6, <1>a, <2>1, <2>2, <2>3, <2>4 DEF SignalInv
<1>8. CASE ~(KeepsUp /\ Latched)
  <2>1. Depth' = 0
    BY <1>1, <1>6, <1>8 DEF Depth
  <2>2. ~Sure'
    BY <1>6, <2>1 DEF Sure
  <2>3. KnownInv'
    BY <1>6, <2>1 DEF KnownInv
  <2>4. FollowInv'
    BY <1>6, <2>1, <2>2 DEF FollowInv
  <2>5. ToldInv'
    BY <2>1 DEF ToldInv
  <2> QED BY <1>7, <2>3, <2>4, <2>5 DEF GoodInv
<1>9. CASE KeepsUp /\ Latched
  <2>1. Depth' = streak /\ Depth = streak - 1 /\ streak \in Int
    BY <1>1, <1>6, <1>9 DEF Depth, TypeOK
  <2>2. /\ Depth >= 0 => Came /\ kernel[Lead] = Stamped(Sec * 1000)
                         /\ fix_in.stamp = Stamped(Sec * 1000 + delay)
        /\ Depth >= 0 /\ Trails => TrailCame /\ kernel[Trailing] = Stamped(Sec * 1000 + Offset)
        /\ Depth >= 1 /\ wave = "half" => kernel[LastLead] = Stamped((Sec - 1) * 1000)
    BY <1>a, <1>1, <1>9 DEF KnownInv
  <2>3. KnownInv'
    <3>1. Depth' >= 1 => kernel'[LastLead'] = Stamped((Sec - 1) * 1000)'
      BY <1>1, <1>2, <1>4, <2>1, <2>2 DEF Stamped
    <3>2. Depth' >= 1 /\ Trails' => kernel'[Trailing'] = Stamped((Sec - 1) * 1000 + Offset)'
      BY <1>1, <1>2, <1>3, <2>1, <2>2 DEF Stamped
    <3>3. Depth' >= 2 /\ wave' = "half" => kernel'[Lead'] = Stamped((Sec - 2) * 1000)'
      BY <1>1, <1>2, <1>4, <2>1, <2>2 DEF Stamped
    <3>4. Depth' >= 1 => fix_in'.real = Sec' - 1 /\ fix_in'.stamp = Stamped((Sec - 1) * 1000 + delay)'
      BY <1>1, <1>2, <1>9, <2>1, <2>2 DEF Stamped, Latched
    <3> QED BY <1>6, <3>1, <3>2, <3>3, <3>4 DEF KnownInv
  <2>4. FollowInv'
    <3>1. Handled /\ Handled' /\ pc' = "wait"
      BY <1>1, <1>9 DEF KeepsUp, Handled
    <3>2. Depth' >= 1 => \A k \in 0 .. 1 : kernel'[k] = Never \/ pulse'[k] = kernel'[k]
      BY <1>a, <1>1, <2>1, <2>2, <3>1 DEF FollowInv
    <3>3. ASSUME Sure' PROVE state_last' = Latest'
      <4>1. Depth' >= 1 /\ (Depth' >= 2 \/ wave # "half")
        BY <1>1, <1>6, <2>1, <3>3 DEF Sure
      <4>2. Came /\ (Trails => TrailCame) /\ Sure
        BY <2>1, <2>2, <4>1, LeadIs DEF Sure
      <4>3. state_last = IF Trails THEN Trailing ELSE Lead
        BY <1>a, <3>1, <4>2 DEF FollowInv, Latest, TrailCame
      <4>4. Latest' = IF Trails THEN Trailing ELSE Lead
        BY <1>3, <1>4, <1>6 DEF Latest
      <4> QED BY <1>1, <4>3, <4>4
    <3> QED BY <1>6, <3>1, <3>2, <3>3 DEF FollowInv
  <2>5. ToldInv'
    BY <1>1, <1>6, <1>9 DEF ToldInv, KeepsUp
  <2> QED BY <1>7, <2>3, <2>4, <2>5 DEF GoodInv
<1> QED BY <1>8, <1>9

\* An edge that a waiting thread gets is the next one of a known second.
LEMMA EdgeFollows ==
  ASSUME TypeOK, TypeOK', SecondInv, GoodInv, NEW e \in due, Edge(e)
  PROVE  GoodInv'
<1>a. SignalInv /\ KnownInv /\ FollowInv /\ ToldInv /\ DueInv /\ KernelInv
  BY DEF GoodInv, SecondInv
<1>1. /\ Next1(e) /\ e.edge >= 0 /\ now' = e.at /\ due' = due \ {e}
      /\ kernel' = [kernel EXCEPT ![e.edge] = [at |-> e.at + skew, true |-> e.at]]
      /\ fresh' = (pc = "wait") /\ streak' = IF KeepsUp THEN streak ELSE -1
      /\ UNCHANGED <<wave, delay, skew, fix_in, hook, main, pc, pulse, state_last, cur, out>>
  BY DEF Edge, shared, locals
<1>2. /\ e.at \in Nat /\ e.edge \in 0 .. 1 /\ Sec' = Sec /\ Sec \in Nat
      /\ \A d \in due' : d \in due
      /\ e.at = Sec * 1000 + OffsetOf(e.edge)
  <2>1. e.edge \in 0 .. 1 /\ e.edge # -1
    BY <1>1 DEF TypeOK
  <2> QED BY <1>1, <1>a, <2>1, NextIsDue
<1>3. /\ Lead' = Lead /\ LastLead' = LastLead /\ Before' = Before
      /\ Trails' = Trails /\ Trailing' = Trailing /\ Leading' = Leading /\ Offset' = Offset
  BY <1>1, <1>2, SameSecond
<1>4. /\ Lead \in 0 .. 1 /\ LastLead \in 0 .. 1 /\ OffsetOf(Lead) = 0
      /\ Trails => /\ Lead = Leading /\ LastLead = Leading /\ wave \notin {"half", "single"}
                   /\ Trailing \in 0 .. 1 /\ Trailing = 1 - Lead /\ Trailing # Lead
                   /\ Offset \in 1 .. 500 /\ OffsetOf(Trailing) = Offset
      /\ wave = "single" => Lead = 1 /\ LastLead = 1 /\ ~Trails
      /\ wave = "half" => LastLead = 1 - Lead /\ ~Trails
      /\ Trails \/ wave = "single" \/ wave = "half"
  BY LeadIs
<1>5. /\ kernel'[e.edge] = [at |-> e.at + skew, true |-> e.at]
      /\ \A k \in 0 .. 1 : k # e.edge => kernel'[k] = kernel[k]
      /\ \A k \in 0 .. 1 : kernel[k].true < e.at
  BY <1>1, <1>2, <1>a DEF TypeOK, KernelInv, Past
<1>6. e.edge = Lead \/ (Trails /\ e.edge = Trailing)
  BY <1>1, <1>a DEF SignalInv
<1>7. Latched' = Latched
  BY <1>1, <1>2 DEF Latched
<1>8. SignalInv'
  <2>1. ASSUME Trails, NEW c \in due', c.edge = Leading PROVE \E d \in due' : d.edge = Trailing
    <3>1. PICK d \in due : d.edge = Trailing
      BY <1>2, <1>a, <2>1 DEF SignalInv
    <3>2. e # d
      <4> SUFFICES ASSUME e = d PROVE FALSE
        OBVIOUS
      <4>1. c \in due /\ c.at = Sec * 1000 + OffsetOf(c.edge)
        BY <1>2, <1>4, <1>a, <2>1 DEF DueInv
      <4>2. e.at = Sec * 1000 + Offset /\ c.at = Sec * 1000
        BY <1>2, <1>4, <2>1, <3>1, <4>1
      <4>3. e.at <= c.at
        BY <1>1, <4>1 DEF Next1
      <4> QED BY <1>2, <1>4, <2>1, <4>2, <4>3
    <3> QED BY <1>1, <3>1, <3>2
  <2>2. \A k \in 0 .. 1 : kernel'[k].true = Sec * 1000 => k = Lead
    <3> SUFFICES ASSUME NEW k \in 0 .. 1, kernel'[k].true = Sec * 1000 PROVE k = Lead
      OBVIOUS
    <3>1. CASE k = e.edge
      BY <1>2, <1>4, <1>5, <1>6, <3>1
    <3>2. CASE k # e.edge
      BY <1>5, <1>a, <3>2 DEF SignalInv
    <3> QED BY <3>1, <3>2
  <2>3. wave = "single" => kernel'[0] = Never
    BY <1>4, <1>5, <1>6, <1>a DEF SignalInv
  <2>4. main' = "launch" => pc' = "none" /\ streak' <= 0
    BY <1>1, <1>a DEF SignalInv
  <2>5. \A d \in due' : d.edge >= 0 => d.edge = Lead \/ (Trails /\ d.edge = Trailing)
    BY <1>2, <1>a DEF SignalInv
  <2>6. fix_in'.real <= Sec /\ \A d \in due' : d.edge = -1 => ~Latched
    BY <1>1, <1>2, <1>a DEF SignalInv
  <2> QED BY <1>1, <1>2, <1>3, <1>7, <2>1, <2>2, <2>3, <2>4, <2>5, <2>6 DEF SignalInv
<1>9. CASE ~KeepsUp
  BY <1>1, <1>8, <1>9, SpoiltKeeps
<1>10. CASE KeepsUp
  <2>1. /\ streak' = streak /\ Depth' = Depth /\ pc = "wait" /\ ~fresh /\ pc' = "wait" /\ fresh'
        /\ Handled /\ ~Handled' /\ Depth \in Int
    <3>1. pc = "wait" /\ ~fresh /\ pc' = "wait" /\ fresh' /\ streak' = streak
      BY <1>1, <1>10 DEF KeepsUp
    <3>2. Depth' = Depth /\ Depth \in Int
      BY <1>7, <3>1 DEF Depth, TypeOK
    <3>3. Handled /\ ~Handled'
      BY <3>1, Zenon DEF Handled
    <3> QED BY <3>1, <3>2, <3>3
  <2>2. CASE e.edge = Lead
    <3>1. /\ Came' /\ ~Came /\ ~TrailCame /\ e.at = Sec * 1000
          /\ kernel'[Lead] = [at |-> Sec * 1000 + skew, true |-> Sec * 1000]
      BY <1>1, <1>2, <1>3, <1>4, <1>5, <2>2 DEF Came, TrailCame
    <3>2. ~TrailCame'
      BY <1>2, <1>3, <1>4, <1>5, <2>2, <3>1 DEF TrailCame
    <3>3. Trails => kernel'[Trailing] = kernel[Trailing] /\ \E d \in due' : d.edge = Trailing
      BY <1>1, <1>4, <1>5, <1>a, <2>2 DEF SignalInv
    <3>4. KnownInv'
      <4>1. wave = "half" => kernel'[LastLead] = kernel[LastLead]
        BY <1>4, <1>5, <2>2
      <4>2. Depth' >= 0 /\ Latched' => Came' /\ fix_in'.stamp = Stamped(Sec * 1000 + delay)'
        BY <1>1, <1>2, <1>7, <1>a, <2>1, <3>1 DEF KnownInv, Stamped
      <4>3. Depth' >= 1 /\ ~Latched' => fix_in'.real = Sec - 1 /\ fix_in'.stamp = Stamped((Sec - 1) * 1000 + delay)'
        BY <1>1, <1>2, <1>7, <1>a, <2>1 DEF KnownInv, Stamped
      <4>4. Depth' >= 1 /\ wave = "half" => kernel'[LastLead] = Stamped((Sec - 1) * 1000)'
        BY <1>1, <1>2, <1>a, <2>1, <4>1 DEF KnownInv, Stamped
      <4>5. Depth' >= 1 /\ Trails => kernel'[Trailing] = Stamped((Sec - 1) * 1000 + Offset)'
        BY <1>1, <1>2, <1>3, <1>a, <2>1, <3>1, <3>3 DEF KnownInv, Stamped
      <4>6. kernel'[Lead] = Stamped(Sec * 1000)'
        BY <1>1, <1>2, <3>1 DEF Stamped
      <4> QED BY <1>1, <1>2, <1>3, <1>4, <3>1, <3>2, <3>3, <4>2, <4>3, <4>4, <4>5, <4>6 DEF KnownInv
    <3>5. FollowInv'
      <4>1. ASSUME Depth >= 2
            PROVE  /\ pulse[Lead] = Stamped(Before)
                   /\ state_last = IF wave = "single" THEN 1 ELSE 1 - Lead
        <5>1. kernel[Lead] = Stamped(Before) /\ kernel[Lead] # Never
          <6>1. kernel[Lead] = Stamped(Before)
            <7>1. CASE wave = "half"
              BY <1>a, <2>1, <3>1, <4>1, <7>1 DEF KnownInv, Before
            <7>2. CASE wave # "half"
              <8>1. Depth >= 1 /\ Lead = LastLead
                BY <1>4, <2>1, <4>1, <7>2
              <8>2. kernel[LastLead] = Stamped((Sec - 1) * 1000)
                BY <1>a, <3>1, <8>1 DEF KnownInv
              <8> QED BY <7>2, <8>1, <8>2 DEF Before
            <7> QED BY <7>1, <7>2
          <6>2. Before > 0 /\ Before \in Int
            <7>1. now >= FirstSec * 1000 - 1 /\ FirstSec \in Nat /\ FirstSec > 3
              BY <1>a, PpsAssumption DEF DueInv
            <7> QED BY <7>1, LeadIs DEF Before
          <6> QED BY <6>1, <6>2 DEF Stamped, Never
        <5>2. pulse[Lead] = kernel[Lead]
          BY <1>4, <1>a, <2>1, <4>1, <5>1 DEF FollowInv
        <5>3. state_last = IF Trails THEN Trailing ELSE LastLead
          BY <1>a, <2>1, <3>1, <4>1 DEF FollowInv, Sure, Latest
        <5> QED BY <1>4, <5>1, <5>2, <5>3
      <4>2. Stamped(Before)' = Stamped(Before)
        BY <1>1, <1>3 DEF Stamped
      <4> QED BY <1>1, <1>3, <2>1, <3>1, <4>1, <4>2 DEF FollowInv
    <3>6. ToldInv'
      BY <1>1, <1>2, <1>7, <1>a, <2>1, <3>2 DEF ToldInv
    <3> QED BY <1>8, <3>4, <3>5, <3>6 DEF GoodInv
  <2>3. CASE Trails /\ e.edge = Trailing
    <3>1. Came /\ Came' /\ kernel'[Lead] = kernel[Lead]
      <4>1. ~\E c \in due : c.edge = Leading
        <5> SUFFICES ASSUME NEW c \in due, c.edge = Leading PROVE FALSE
          OBVIOUS
        <5>1. c.at = Sec * 1000
          BY <1>2, <1>4, <1>a, <2>3 DEF DueInv
        <5>2. e.at <= c.at
          BY <1>1 DEF Next1
        <5> QED BY <1>2, <1>4, <2>3, <5>1, <5>2
      <4>2. kernel[Leading].true = Sec * 1000
        BY <1>a, <2>3, <4>1 DEF DueInv
      <4>3. kernel'[Lead] = kernel[Lead]
        BY <1>4, <1>5, <2>3
      <4> QED BY <1>2, <1>3, <1>4, <2>3, <4>2, <4>3 DEF Came
    <3>2. TrailCame' /\ kernel'[Trailing] = [at |-> Sec * 1000 + Offset + skew, true |-> Sec * 1000 + Offset]
      BY <1>2, <1>3, <1>4, <1>5, <2>3 DEF TrailCame
    <3>3. KnownInv'
      <4>1. Depth' >= 0 => kernel'[Lead] = Stamped(Sec * 1000)'
        BY <1>1, <1>2, <1>a, <2>1, <3>1 DEF KnownInv, Stamped
      <4>2. kernel'[Trailing] = Stamped(Sec * 1000 + Offset)'
        BY <1>1, <1>2, <1>3, <3>2 DEF Stamped
      <4>3. Depth' >= 0 /\ Latched' => fix_in'.stamp = Stamped(Sec * 1000 + delay)'
        BY <1>1, <1>2, <1>7, <1>a, <2>1 DEF KnownInv, Stamped
      <4>4. Depth' >= 1 /\ ~Latched' => fix_in'.real = Sec - 1 /\ fix_in'.stamp = Stamped((Sec - 1) * 1000 + delay)'
        BY <1>1, <1>2, <1>7, <1>a, <2>1 DEF KnownInv, Stamped
      <4> QED BY <1>1, <1>2, <1>3, <1>4, <2>3, <3>1, <3>2, <4>1, <4>2, <4>3, <4>4 DEF KnownInv
    <3>4. FollowInv'
      BY <2>1, <3>1, <3>2 DEF FollowInv
    <3>5. ToldInv'
      BY <1>1, <1>2, <1>a, <2>1, <3>1 DEF ToldInv
    <3> QED BY <1>8, <3>3, <3>4, <3>5 DEF GoodInv
  <2> QED BY <1>6, <2>2, <2>3
<1> QED BY <1>9, <1>10

\* A fix that comes to a waiting thread ends a good second.
LEMMA LatchFollows ==
  ASSUME TypeOK, TypeOK', SecondInv, GoodInv, NEW e \in due, Latch(e)
  PROVE  GoodInv'
<1>a. SignalInv /\ KnownInv /\ FollowInv /\ ToldInv /\ DueInv /\ KernelInv
  BY DEF GoodInv, SecondInv
<1>1. /\ Next1(e) /\ e.edge = -1 /\ now' = e.at /\ due' = due \ {e}
      /\ fix_in' = [real |-> e.at \div 1000, stamp |-> [at |-> e.at + skew, true |-> e.at]]
      /\ UNCHANGED <<wave, delay, skew, kernel, fresh, hook, main, pc, pulse, state_last, cur, out>>
  BY DEF Latch, locals
<1>b. streak' = IF KeepsUp /\ \E k \in 0 .. 1 : kernel[k].true = (e.at \div 1000) * 1000
                THEN IF streak < 3 THEN streak + 1 ELSE 3 ELSE -1
  BY DEF Latch
<1>2. /\ e.at \in Nat /\ Sec' = Sec /\ Sec \in Nat /\ e.at \div 1000 = Sec
      /\ \A d \in due' : d \in due
      /\ e.at = Sec * 1000 + delay
  BY <1>1, <1>a, NextIsDue
<1>3. /\ Lead' = Lead /\ LastLead' = LastLead /\ Before' = Before
      /\ Trails' = Trails /\ Trailing' = Trailing /\ Leading' = Leading /\ Offset' = Offset
  BY <1>1, <1>2, SameSecond
<1>4. Latched' /\ ~Latched /\ Came' = Came /\ TrailCame' = TrailCame /\ Latest' = Latest
  <2>1. Latched' /\ ~Latched
    BY <1>1, <1>2, <1>a DEF Latched, SignalInv
  <2>2. Came' = Came /\ TrailCame' = TrailCame
    BY <1>1, <1>2, <1>3 DEF Came, TrailCame
  <2> QED BY <1>3, <2>1, <2>2 DEF Latest
<1>5. SignalInv'
  <2>1. \A d \in due' : d.edge # -1
    <3> SUFFICES ASSUME NEW d \in due', d.edge = -1 PROVE FALSE
      OBVIOUS
    <3>1. d \in due /\ d.at = Sec * 1000 + delay /\ d # e
      BY <1>1, <1>2, <1>a DEF DueInv
    <3>2. d \in [at: Nat, edge: -1 .. 1] /\ e \in [at: Nat, edge: -1 .. 1]
      BY <3>1 DEF TypeOK
    <3> QED BY <1>1, <1>2, <3>1, <3>2
  <2>2. Trails /\ (\E d \in due' : d.edge = Leading) => \E d \in due' : d.edge = Trailing
    <3>1. Trailing # -1
      BY WaveIs
    <3> QED BY <1>1, <1>2, <1>a, <3>1 DEF SignalInv
  <2>3. main' = "launch" => pc' = "none" /\ streak' <= 0
    BY <1>1, <1>b, <1>a DEF SignalInv, KeepsUp
  <2>4. fix_in'.real <= Sec
    BY <1>1, <1>2
  <2> QED BY <1>1, <1>2, <1>3, <1>a, <2>1, <2>2, <2>3, <2>4 DEF SignalInv
<1>6. CASE ~(KeepsUp /\ \E k \in 0 .. 1 : kernel[k].true = (e.at \div 1000) * 1000)
  BY <1>5, <1>6, <1>b, SpoiltKeeps
<1>7. CASE KeepsUp /\ \E k \in 0 .. 1 : kernel[k].true = (e.at \div 1000) * 1000
  <2>1. Came
    BY <1>2, <1>7, <1>a DEF SignalInv, Came
  <2>2. /\ Depth = streak /\ Depth' = streak' - 1 /\ Depth \in Int /\ Depth' \in Int
        /\ Depth' <= Depth
    BY <1>4, <1>7, <1>b DEF Depth, TypeOK
  <2>3. pc = "wait" /\ ~fresh /\ Handled /\ Handled' /\ pc' = "wait"
    BY <1>1, <1>7 DEF KeepsUp, Handled
  <2>4. KnownInv'
    <3>1. Depth' >= 0 => kernel'[Lead'] = Stamped(Sec * 1000)'
      BY <1>1, <1>2, <1>3, <1>a, <2>1, <2>2 DEF KnownInv, Stamped
    <3>2. Depth' >= 0 /\ TrailCame' => kernel'[Trailing'] = Stamped(Sec * 1000 + Offset)'
      BY <1>1, <1>2, <1>3, <1>4, <1>a, <2>2 DEF KnownInv, Stamped
    <3>3. Depth' >= 0 /\ Trails' => TrailCame' \/ \E d \in due' : d.edge = Trailing'
      <4>1. Trailing # -1
        BY WaveIs
      <4> QED BY <1>1, <1>3, <1>4, <1>a, <2>1, <2>2, <4>1 DEF KnownInv
    <3>4. Depth' >= 1 /\ wave' = "half" => kernel'[LastLead'] = Stamped((Sec - 1) * 1000)'
      BY <1>1, <1>2, <1>3, <1>a, <2>2 DEF KnownInv, Stamped
    <3>5. Depth' >= 1 /\ Trails' /\ ~TrailCame' => kernel'[Trailing'] = Stamped((Sec - 1) * 1000 + Offset)'
      BY <1>1, <1>2, <1>3, <1>4, <1>a, <2>2 DEF KnownInv, Stamped
    <3>6. fix_in'.stamp = Stamped(Sec * 1000 + delay)'
      BY <1>1, <1>2 DEF Stamped
    <3> QED BY <1>1, <1>2, <1>4, <2>1, <3>1, <3>2, <3>3, <3>4, <3>5, <3>6 DEF KnownInv
  <2>5. FollowInv'
    <3>1. Sure' => Sure
      BY <1>1, <1>4, <2>2 DEF Sure
    <3> QED BY <1>1, <1>4, <1>a, <2>1, <2>2, <2>3, <3>1 DEF FollowInv
  <2>6. ToldInv'
    BY <1>1, <1>2, <1>a, <2>1, <2>2, <2>3 DEF ToldInv
  <2> QED BY <1>5, <2>4, <2>5, <2>6 DEF GoodInv
<1> QED BY <1>6, <1>7

\* What time_pps_fetch returns, once the stamps are known, is the last edge.
LEMMA FetchFollows ==
  ASSUME TypeOK, TypeOK', SecondInv, GoodInv, Fetch
  PROVE  GoodInv'
<1> DEFINE e == IF kernel[1].at > kernel[0].at THEN 1 ELSE 0
           prev == IF e = 1 /\ kernel[0] = Never THEN kernel[1] ELSE kernel[1 - e]
<1>a. SignalInv /\ KnownInv /\ FollowInv /\ ToldInv /\ DueInv /\ KernelInv
  BY DEF GoodInv, SecondInv
<1>1. /\ pc = "wait" /\ fresh /\ pc' = "grab"
      /\ cur'.edge = e /\ cur'.this = kernel[e] /\ cur'.prev = prev
      /\ UNCHANGED <<wave, delay, now, due, skew, kernel, fix_in, streak, hook, main, pulse,
                     state_last, out>>
  BY DEF Fetch, env, world, shared, locals
<1>2. /\ Lead' = Lead /\ Before' = Before /\ Trails' = Trails
      /\ Sec' = Sec /\ Latched' = Latched /\ Came' = Came /\ TrailCame' = TrailCame
      /\ Depth' = Depth /\ Latest' = Latest /\ Sure' = Sure /\ KnownInv'
  BY <1>1, <1>a, WorldStays
<1>3. SignalInv'
  BY <1>1, <1>a, WorldStays DEF SignalInv
<1>4. ~Handled /\ ~Handled' /\ Depth \in Int
  BY <1>1 DEF Handled, Depth, TypeOK
<1>5. ASSUME Came, Sure PROVE e = Latest
  <2>1. /\ Depth >= 0 /\ (TrailCame \/ wave = "single" \/ Depth >= 1)
    BY <1>4, <1>5 DEF Sure
  <2>2. /\ Lead \in 0 .. 1 /\ Sec \in Nat /\ skew \in Int
        /\ Trails => /\ wave \notin {"half", "single"} /\ Trailing = 1 - Lead /\ Offset \in 1 .. 500
        /\ wave = "single" => Lead = 1 /\ ~Trails
        /\ wave = "half" => LastLead = 1 - Lead /\ ~Trails
        /\ Trails \/ wave = "single" \/ wave = "half"
    BY LeadIs, PpsAssumption DEF TypeOK
  <2>3. kernel[Lead].at = Sec * 1000 + skew
    BY <1>5, <1>a, <2>1 DEF KnownInv, Stamped
  <2>4. \A k \in 0 .. 1 : k = Lead \/ k = 1 - Lead
    BY <2>2
  <2>5. kernel[0].at \in Int /\ kernel[1].at \in Int
    BY DEF TypeOK, Stamps
  <2>6. CASE TrailCame
    <3>1. kernel[1 - Lead].at = Sec * 1000 + Offset + skew /\ Trailing = 1 - Lead /\ Offset \in 1 .. 500
      BY <1>a, <2>1, <2>2, <2>6 DEF KnownInv, Stamped, TrailCame
    <3>2. Latest = 1 - Lead
      BY <2>6, <3>1 DEF Latest
    <3>3. e = 1 - Lead
      <4>1. CASE Lead = 0
        BY <2>2, <2>3, <2>5, <3>1, <4>1
      <4>2. CASE Lead = 1
        BY <2>2, <2>3, <2>5, <3>1, <4>2
      <4> QED BY <2>2, <4>1, <4>2
    <3> QED BY <3>2, <3>3
  <2>7. CASE ~TrailCame
    <3>1. Latest = Lead
      BY <1>5, <2>7 DEF Latest
    <3>2. CASE wave = "single"
      <4>1. kernel[0].at = 0 /\ kernel[1].at > 0
        <5>1. kernel[0] = Never
          BY <1>a, <3>2 DEF SignalInv
        <5>2. Stamp(kernel[1])
          BY <1>5, <1>a, <2>2, <3>2, CameIs
        <5> QED BY <2>5, <5>1, <5>2 DEF Never, Stamp
      <4> QED BY <2>2, <3>1, <3>2, <4>1
    <3>3. CASE wave = "half"
      <4>1. kernel[1 - Lead].at = (Sec - 1) * 1000 + skew
        BY <1>a, <2>1, <2>2, <2>7, <3>3 DEF KnownInv, Stamped
      <4> QED BY <2>2, <2>3, <2>5, <3>1, <4>1
    <3>4. CASE Trails
      <4>1. kernel[1 - Lead].at = (Sec - 1) * 1000 + Offset + skew
        BY <1>a, <2>1, <2>2, <2>7, <3>4 DEF KnownInv, Stamped
      <4> QED BY <2>2, <2>3, <2>5, <3>1, <3>4, <4>1
    <3> QED BY <2>2, <3>2, <3>3, <3>4
  <2> QED BY <2>6, <2>7
<1>6. FollowInv'
  <2>1. cur'.this = kernel'[cur'.edge]
    BY <1>1
  <2>2. cur'.prev = IF cur'.edge = 1 /\ kernel'[0] = Never THEN kernel'[1] ELSE kernel'[1 - cur'.edge]
    BY <1>1
  <2>3. Came /\ Sure => cur'.edge = Latest
    BY <1>1, <1>5
  <2>4. Depth >= 1 => Came
    BY <1>4, <1>a DEF FollowInv
  <2>5. Depth >= 2 /\ ~TrailCame /\ ~Latched =>
          /\ pulse'[Lead] = Stamped(Before)
          /\ state_last' = IF wave' = "single" THEN 1 ELSE 1 - Lead
    BY <1>1, <1>4, <1>a DEF FollowInv
  <2>6. Stamped(Before)' = Stamped(Before)
    BY <1>1, <1>2 DEF Stamped
  <2> HIDE DEF e, prev
  <2> QED BY <1>2, <1>4, <2>1, <2>2, <2>3, <2>4, <2>5, <2>6 DEF FollowInv
<1>7. ToldInv'
  BY <1>1, <1>2, <1>4, <1>a DEF ToldInv
<1> QED BY <1>2, <1>3, <1>6, <1>7 DEF GoodInv

\* After two good seconds the opening edge passes for one, and the fix is current.
LEMMA GrabTakes ==
  ASSUME TypeOK, SecondInv, GoodInv, Grab, Depth >= 2, Came, ~TrailCame, ~Latched,
         wave = "inverted" => Width <= 445
  PROVE  pc' # "top"
<1>a. SignalInv /\ KnownInv /\ FollowInv /\ KernelInv /\ DueInv
  BY DEF GoodInv, SecondInv
<1>b. /\ Lead \in 0 .. 1 /\ Sec \in Nat /\ skew \in Int /\ delay \in 1 .. 899
      /\ Trails => /\ Lead = Leading /\ LastLead = Leading /\ wave \notin {"half", "single"}
                   /\ Trailing = 1 - Lead /\ Trailing # Lead
      /\ wave = "single" => Lead = 1 /\ ~Trails
      /\ wave = "half" => LastLead = 1 - Lead /\ ~Trails
      /\ Trails \/ wave = "single" \/ wave = "half"
  BY LeadIs, PpsAssumption DEF TypeOK
<1>1. Sec > 3 /\ Depth \in Int
  BY <1>a, CameIs DEF Depth, TypeOK
<1>2. pc = "grab" /\ ~Handled
  BY DEF Grab, Handled
<1>3. /\ cur.edge = Lead /\ cur.this = Stamped(Sec * 1000) /\ cur.this = kernel[Lead]
      /\ cur.prev = IF Lead = 1 /\ kernel[0] = Never THEN kernel[1] ELSE kernel[1 - Lead]
  <2>1. Depth >= 0 /\ Sure
    BY <1>1 DEF Sure
  <2>2. Latest = Lead
    BY DEF Latest
  <2>3. cur.edge = Latest /\ cur.this = kernel[cur.edge]
        /\ cur.prev = IF cur.edge = 1 /\ kernel[0] = Never THEN kernel[1] ELSE kernel[1 - cur.edge]
    BY <1>2, <1>a, <2>1 DEF FollowInv
  <2>4. kernel[Lead] = Stamped(Sec * 1000)
    BY <1>a, <2>1 DEF KnownInv
  <2> QED BY <2>2, <2>3, <2>4
<1>4. /\ pulse[Lead] = Stamped(Before)
      /\ state_last = IF wave = "single" THEN 1 ELSE 1 - Lead
  BY <1>2, <1>a DEF FollowInv
<1>5. fix_in.real = Sec - 1 /\ fix_in.stamp = Stamped((Sec - 1) * 1000 + delay)
  BY <1>1, <1>a DEF KnownInv
<1> DEFINE cycle   == cur.this.at - pulse[cur.edge].at
           short   == ~(cur.edge # state_last) /\ PlausibleCycle(cycle)
           strange == ~(cur.edge # state_last) /\ ~short /\ unchanged # 0
           length  == IF short THEN 0 ELSE cur.this.at - cur.prev.at
<1>6. /\ cycle = IF wave = "half" THEN 2000 ELSE 1000
  BY <1>b, <1>3, <1>4 DEF Stamped, Before
<1>7. ~strange /\ LeadingEdge(cur.edge, cycle, length)
  <2>1. CASE wave = "single"
    <3>1. cycle = 1000 /\ short /\ length = 0
      BY <1>b, <1>3, <1>4, <1>6, <2>1 DEF PlausibleCycle, Inside
    <3> HIDE DEF cycle, length
    <3> QED BY <3>1 DEF LeadingEdge, Within
  <2>2. CASE wave = "half"
    <3>1. cycle = 2000 /\ ~short /\ cur.edge # state_last
      BY <1>b, <1>3, <1>4, <1>6, <2>2
    <3>2. kernel[1 - Lead] = Stamped((Sec - 1) * 1000)
      BY <1>1, <1>a, <1>b, <2>2 DEF KnownInv
    <3>3. kernel[1 - Lead] # Never /\ cur.prev = kernel[1 - Lead]
      BY <1>1, <1>b, <1>3, <3>2 DEF Stamped, Never
    <3>4. length = 1000
      BY <1>b, <1>3, <3>1, <3>2, <3>3 DEF Stamped
    <3> HIDE DEF cycle, length
    <3> QED BY <3>1, <3>4 DEF LeadingEdge, Within
  <2>3. CASE Trails
    <3>1. cycle = 1000 /\ ~short /\ cur.edge # state_last
      BY <1>b, <1>3, <1>4, <1>6, <2>3
    <3>2. kernel[1 - Lead] = Stamped((Sec - 1) * 1000 + Offset)
      BY <1>1, <1>a, <1>b, <2>3 DEF KnownInv
    <3>3. Offset \in 1 .. 445 \/ (Offset \in 446 .. 500 /\ Lead = 1)
      <4>1. Width \in 1 .. 449 /\ (wave # "inverted" => Trailing = 0)
        BY PpsAssumption DEF Trailing
      <4> QED BY <1>b, <2>3, <4>1 DEF Offset, Trails
    <3>4. kernel[1 - Lead] # Never /\ cur.prev = kernel[1 - Lead]
      BY <1>1, <1>b, <1>3, <3>2, <3>3 DEF Stamped, Never
    <3>5. length = 1000 - Offset
      BY <1>b, <1>3, <3>1, <3>2, <3>3, <3>4 DEF Stamped
    <3> HIDE DEF cycle, length
    <3> QED BY <1>3, <3>1, <3>3, <3>5 DEF LeadingEdge, Within
  <2> QED BY <1>b, <2>1, <2>2, <2>3
<1>8. fix_in.real # 0 /\ CurrentFix(cur.this.at - fix_in.stamp.at)
  <2>1. cur.this.at - fix_in.stamp.at = 1000 - delay
    BY <1>b, <1>3, <1>5 DEF Stamped
  <2> QED BY <1>b, <1>1, <1>5, <2>1 DEF CurrentFix, Inside
<1>9. Classify(cur, fix_in)
  BY DEF Grab
<1> QED BY <1>7, <1>8, <1>9 DEF Classify

\* A round leaves the thread with the kernel's stamps.
LEMMA GrabFollows ==
  ASSUME TypeOK, TypeOK', SecondInv, GoodInv, Grab
  PROVE  GoodInv'
<1>a. SignalInv /\ KnownInv /\ FollowInv /\ ToldInv /\ DueInv /\ KernelInv
  BY DEF GoodInv, SecondInv
<1>1. /\ pc = "grab" /\ pc' \in {"top", "call", "report"} /\ state_last' = cur.edge
      /\ pulse' = [pulse EXCEPT ![cur.edge] = cur.this, ![1 - cur.edge] = cur.prev]
      /\ UNCHANGED <<wave, delay, now, due, skew, kernel, fix_in, streak, hook, main, out>>
  BY DEF Grab, Classify, env, world, shared
<1>2. /\ Lead' = Lead /\ Before' = Before /\ Trails' = Trails
      /\ Sec' = Sec /\ Latched' = Latched /\ Came' = Came /\ TrailCame' = TrailCame
      /\ Depth' = Depth /\ Latest' = Latest /\ Sure' = Sure /\ KnownInv'
  BY <1>1, <1>a, WorldStays
<1>3. SignalInv'
  BY <1>1, <1>a, WorldStays DEF SignalInv
<1>4. ~Handled /\ Handled' /\ Depth \in Int
  BY <1>1 DEF Handled, Depth, TypeOK
<1>5. (Depth >= 1 => Came) /\ (Sure => Came /\ Depth >= 0)
  <2>1. Depth >= 1 => Came
    BY <1>4, <1>a DEF FollowInv
  <2>2. TrailCame => Came
    BY <1>a, CameIs
  <2> QED BY <1>4, <2>1, <2>2 DEF Sure
<1>6. Depth >= 0 /\ Came =>
        /\ cur.this = kernel[cur.edge]
        /\ cur.prev = IF cur.edge = 1 /\ kernel[0] = Never THEN kernel[1] ELSE kernel[1 - cur.edge]
        /\ Sure => cur.edge = Latest
  BY <1>1, <1>a DEF FollowInv
<1>7. FollowInv'
  <2>1. ASSUME Depth >= 0, Came, NEW k \in 0 .. 1 PROVE kernel[k] = Never \/ pulse'[k] = kernel[k]
    <3>1. cur.edge \in 0 .. 1 /\ pulse \in [0 .. 1 -> Stamps]
      BY DEF TypeOK
    <3>2. k = cur.edge \/ k = 1 - cur.edge
      BY <3>1
    <3>3. pulse'[cur.edge] = cur.this /\ pulse'[1 - cur.edge] = cur.prev
      BY <1>1, <3>1
    <3> QED BY <1>6, <2>1, <3>1, <3>2, <3>3
  <2>2. Sure => state_last' = Latest
    BY <1>1, <1>5, <1>6
  <2> QED BY <1>1, <1>2, <1>4, <1>5, <2>1, <2>2 DEF FollowInv
<1>8. ToldInv'
  <2> SUFFICES ASSUME Depth >= 2, wave = "inverted" => Width <= 445
               PROVE  /\ pc' # "top" => cur'.this.true \div 1000 = Sec
                      /\ hook /\ (TrailCame \/ Latched \/ (Came /\ pc' = "top")) =>
                           out.true \div 1000 = Sec
    BY <1>1, <1>2, <1>4 DEF ToldInv
  <2>1. Came /\ Sure /\ cur.edge = Latest /\ cur.this = kernel[Latest]
    BY <1>4, <1>5, <1>6 DEF Sure
  <2>2. cur.this.true \div 1000 = Sec
    <3>1. /\ Sec \in Nat /\ (Trails => Offset \in 1 .. 500)
      BY LeadIs
    <3>2. cur.this.true = Sec * 1000 + 0 \/ (TrailCame /\ cur.this.true = Sec * 1000 + Offset)
      BY <2>1, <3>1 DEF Latest, Came, TrailCame
    <3>3. PICK o \in 0 .. 999 : cur.this.true = Sec * 1000 + o
      BY <3>1, <3>2 DEF TrailCame
    <3>4. (Sec * 1000 + o) \div 1000 = Sec
      BY <3>1, SecOf
    <3> QED BY <3>3, <3>4
  <2>3. pc' # "top" => cur'.this = cur.this
    BY DEF Grab, Classify, TypeOK
  <2>4. TrailCame \/ Latched \/ pc' # "top"
    BY <2>1, GrabTakes
  <2> QED BY <1>a, <2>2, <2>3, <2>4 DEF ToldInv
<1> QED BY <1>2, <1>3, <1>7, <1>8 DEF GoodInv

\* Every step keeps it.
THEOREM PpsGoodInvariant == Spec => []GoodInv
<1>1. Init => GoodInv
  <2> SUFFICES ASSUME Init PROVE GoodInv
    OBVIOUS
  <2>1. /\ FirstSec \in Nat /\ FirstSec > 3 /\ now = FirstSec * 1000 - 1 /\ due = {}
        /\ kernel = [e \in 0 .. 1 |-> Never] /\ fix_in = NoFix /\ streak = -1
        /\ main = "launch" /\ pc = "none"
    BY PpsAssumption DEF Init
  <2>2. Sec \in Nat /\ Sec > 0
    BY <2>1, SecIs DEF Sec
  <2>3. ~(Depth >= 0) /\ Depth \in Int
    BY <2>1 DEF Depth
  <2>4. SignalInv
    BY <2>1, <2>2 DEF SignalInv, Never, NoFix
  <2> QED BY <2>3, <2>4 DEF GoodInv, KnownInv, FollowInv, ToldInv, Sure
<1>2. TypeOK /\ TypeOK' /\ SecondInv /\ GoodInv /\ [Next]_vars => GoodInv'
  <2> SUFFICES ASSUME TypeOK, TypeOK', SecondInv, GoodInv, [Next]_vars PROVE GoodInv'
    OBVIOUS
  <2>a. SignalInv
    BY DEF GoodInv
  <2>b. ASSUME UNCHANGED <<wave, now, due, kernel, fix_in>>, streak' = -1,
               main' = "launch" => main = "launch" /\ pc' = "none"
        PROVE  GoodInv'
    <3>1. Sec' = Sec
      BY <2>b DEF Sec
    <3>2. /\ Lead' = Lead /\ Trails' = Trails /\ Trailing' = Trailing /\ Leading' = Leading
          /\ Latched' = Latched
      BY <2>b, <3>1, SameSecond DEF Latched
    <3>3. SignalInv'
      BY <2>a, <2>b, <3>1, <3>2 DEF SignalInv
    <3> QED BY <2>b, <3>3, SpoiltKeeps
  <2>1. CASE NewSecond
    BY <2>1, NewSecondFollows
  <2>2. ASSUME NEW e \in due, Edge(e) PROVE GoodInv'
    BY <2>2, EdgeFollows
  <2>3. ASSUME NEW e \in due, Latch(e) PROVE GoodInv'
    BY <2>3, LatchFollows
  <2>4. ASSUME NEW s \in Steps, StepClock(s) PROVE GoodInv'
    BY <2>4, <2>a, <2>b DEF StepClock, shared, SignalInv
  <2>5. CASE Activate
    <3>1. /\ main = "launch" /\ main' = "handshake" /\ pc' \in {"start", "start_nowait", "none"}
          /\ UNCHANGED <<wave, delay, now, due, skew, kernel, fix_in, streak, pulse, state_last, out>>
      BY <2>5 DEF Activate, InitKernelPps, world, locals
    <3>2. pc = "none" /\ streak <= 0
      BY <2>a, <3>1 DEF SignalInv
    <3>3. Handled' = Handled /\ Depth < 2
      BY <3>1, <3>2 DEF Handled, Depth, TypeOK
    <3> QED BY <3>1, <3>2, <3>3, QuietKeeps
  <2>6. CASE Deactivate
    <3>1. Handled' = Handled
      BY <2>6 DEF Deactivate, Handled
    <3> QED BY <2>6, <3>1, QuietKeeps DEF Deactivate, world, locals
  <2>7. CASE Start
    <3>1. Handled' = Handled
      BY <2>7 DEF Start, Handled
    <3> QED BY <2>7, <3>1, QuietKeeps DEF Start, world, locals
  <2>8. CASE Top
    <3>1. /\ pc = "top" /\ pc' \in {"exited", "sleep", "wait"} /\ fresh' = FALSE
          /\ UNCHANGED <<wave, delay, now, due, skew, kernel, fix_in, streak, pulse, state_last, out, hook, main>>
      BY <2>8 DEF Top, env, world, shared
    <3>2. main # "launch"
      BY <2>a, <3>1 DEF SignalInv
    <3>3. Handled' = Handled
      BY <3>1 DEF Handled
    <3> QED BY <3>1, <3>2, <3>3, QuietKeeps
  <2>9. CASE Sleep
    <3>1. /\ pc = "sleep" /\ pc' = "wait" /\ fresh' = FALSE
          /\ UNCHANGED <<wave, delay, now, due, skew, kernel, fix_in, streak, pulse, state_last, out, hook, main>>
      BY <2>9 DEF Sleep, env, world, shared, locals
    <3>2. main # "launch"
      BY <2>a, <3>1 DEF SignalInv
    <3>3. Handled' = Handled
      BY <3>1 DEF Handled
    <3> QED BY <3>1, <3>2, <3>3, QuietKeeps
  <2>10. CASE Fetch
    BY <2>10, FetchFollows
  <2>11. CASE FetchTimeout
    <3>1. pc = "wait" /\ streak' = -1 /\ UNCHANGED <<wave, now, due, kernel, fix_in, main>>
      BY <2>11 DEF FetchTimeout, env, world, shared
    <3> QED BY <2>a, <2>b, <3>1 DEF SignalInv
  <2>12. CASE Grab
    BY <2>12, GrabFollows
  <2>13. CASE FetchError
    <3>1. pc = "wait" /\ streak' = -1 /\ UNCHANGED <<wave, now, due, kernel, fix_in, main>>
      BY <2>13 DEF FetchError, env, world, shared
    <3> QED BY <2>a, <2>b, <3>1 DEF SignalInv
  <2>14. CASE CallHook
    <3>1. /\ pc = "call" /\ pc' \in {"report", "crashed"} /\ (pc' = "report" => cur' = cur)
          /\ (pc' = "report" <=> hook)
          /\ UNCHANGED <<wave, delay, now, due, skew, kernel, fix_in, streak, pulse, state_last, out, hook, main>>
      BY <2>14 DEF CallHook, env, world, shared, locals
    <3>2. main # "launch"
      BY <2>a, <3>1 DEF SignalInv
    <3>3. Handled' = Handled
      BY <3>1 DEF Handled
    <3> QED BY <3>1, <3>2, <3>3, QuietKeeps
  <2>15. CASE Report
    <3>1. /\ pc = "report" /\ pc' = "top" /\ out'.true = cur.this.true
          /\ UNCHANGED <<wave, delay, now, due, skew, kernel, fix_in, streak, pulse, state_last, hook, main>>
      BY <2>15 DEF Report, Sample, env, world, shared
    <3>2. KnownInv /\ FollowInv /\ ToldInv
      BY DEF GoodInv
    <3>3. /\ Lead' = Lead /\ Before' = Before
          /\ Sec' = Sec /\ Latched' = Latched /\ Came' = Came /\ TrailCame' = TrailCame
          /\ Depth' = Depth /\ Latest' = Latest /\ Sure' = Sure /\ KnownInv'
      BY <3>1, <3>2, WorldStays
    <3>4. SignalInv'
      BY <2>a, <3>1, WorldStays DEF SignalInv
    <3>5. Handled /\ Handled'
      BY <3>1 DEF Handled
    <3>6. FollowInv'
      BY <3>1, <3>2, <3>3, <3>5 DEF FollowInv
    <3>7. ToldInv'
      BY <3>1, <3>2, <3>3 DEF ToldInv
    <3> QED BY <3>3, <3>4, <3>6, <3>7 DEF GoodInv
  <2>16. CASE UNCHANGED vars
    <3>1. Handled' = Handled
      BY <2>16 DEF vars, Handled
    <3> QED BY <2>16, <3>1, QuietKeeps DEF vars
  <2> QED BY <2>1, <2>2, <2>3, <2>4, <2>5, <2>6, <2>7, <2>8, <2>9, <2>10, <2>11, <2>12, <2>13,
             <2>14, <2>15, <2>16 DEF Next, Thread, World, Main
<1> QED BY <1>1, <1>2, PpsType, PpsSecondInvariant, PTL DEF Spec

\* A pulse after two good seconds is reported.
THEOREM PpsGoodPulseReported == Spec => []GoodPulseReported
<1>1. TypeOK /\ GoodInv => GoodPulseReported
  <2> SUFFICES ASSUME TypeOK, GoodInv, streak = 3, KeepsUp, hook, fix_in.real = Sec,
                      wave = "inverted" => Width <= 445
               PROVE  out.true \div 1000 = Sec
    BY DEF GoodPulseReported
  <2>1. Depth = 2 /\ Latched
    BY DEF Depth, Latched
  <2> QED BY <2>1 DEF GoodInv, ToldInv
<1> QED BY <1>1, PpsType, PpsGoodInvariant, PTL

=============================================================================
