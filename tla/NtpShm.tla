------------------------------- MODULE NtpShm -------------------------------
(***************************************************************************)
(* A time segment of the NTP shared memory protocol, mode 1: ntp_write     *)
(* (src/ntpshm/ntpshmwrite.c) puts the samples of the PPS thread there,    *)
(* ntp_read (src/ntpshm/ntpshmread.c), as ntpd, copies them, in other      *)
(* processes and without a lock.  ntpshm_alloc (src/ntpshm/timehint.c)     *)
(* initialises the segment, which outlives the daemon: a daemon that is    *)
(* restarted clears it under the eyes of its readers.                      *)
(*                                                                         *)
(* Samples are numbered by the order of their writing, and a field holds   *)
(* the number of the sample it comes from, 0 after the initialisation.     *)
(* Every access to the segment that another process can observe is a step. *)
(***************************************************************************)
EXTENDS Naturals, FiniteSets

CONSTANTS
  Readers,     \* processes that read the segment
  Consumers,   \* the ones that call ntp_read with consume, as ntpd does
  MaxSamples,  \* bound: samples written
  MaxRestarts  \* bound: crashes and restarts of the daemon

ASSUME NtpShmAssumption ==
  /\ Consumers \subseteq Readers
  /\ MaxSamples \in Nat
  /\ MaxRestarts \in Nat

\* What ntp_write stores between its two barriers, in the order of its
\* assignments: the GPS time, the system time, the leap notification.
Fields == {"clock", "receive", "leap"}
FieldAfter == [clock |-> "receive", receive |-> "leap", leap |-> "none"]

\* The contents that a reader copies; mode is 1 once ntpshm_alloc is done.
Contents == [Fields -> Nat]

VARIABLES
  valid, count, mode, data,  \* struct shmTime
  wpc,                       \* control point of the daemon's PPS thread
  sample,                    \* the sample it writes, or wrote last
  restarts,                  \* restarts so far
  rpc,                       \* control point of each reader
  cnt, copied, copy, cmode,  \* its cnt, and its shmcopy as far as copied
  got,                       \* the last sample it accepted: status OK
  cleared,                   \* history: the segment was initialised since the
                             \* reader found it valid
  early                      \* history: what it copied was not valid any more, or
                             \* not yet, when it marked it as taken

segment == <<valid, count, mode, data>>
writer  == <<wpc, sample, restarts>>
reader  == <<rpc, cnt, copied, copy, cmode, got>>
shmVars    == <<valid, count, mode, data, wpc, sample, restarts, rpc, cnt, copied,
                copy, cmode, got, cleared, early>>

Zeros == [f \in Fields |-> 0]
NoSample == [contents |-> Zeros, cnt |-> 0, cleared |-> FALSE, early |-> FALSE]

\* A segment that ntpshm_context_init attached and nobody initialised yet.
ShmInit ==
  /\ valid = FALSE /\ count = 0 /\ mode = 0 /\ data = Zeros
  /\ wpc = "alloc" /\ sample = 0 /\ restarts = 0
  /\ rpc = [r \in Readers |-> "idle"]
  /\ cnt = [r \in Readers |-> 0] /\ copied = [r \in Readers |-> {}]
  /\ copy = [r \in Readers |-> Zeros] /\ cmode = [r \in Readers |-> 0]
  /\ got = [r \in Readers |-> NoSample]
  /\ cleared = [r \in Readers |-> FALSE] /\ early = [r \in Readers |-> FALSE]

-----------------------------------------------------------------------------
(* The daemon                                                              *)

\* ntpshm_alloc: memset, then mode = 1 (and LEAP_NOTINSYNC).
AllocClear ==
  /\ wpc = "alloc"
  /\ valid' = FALSE /\ count' = 0 /\ mode' = 0 /\ data' = Zeros
  /\ cleared' = [r \in Readers |-> rpc[r] # "idle"]
  /\ wpc' = "mode"
  /\ UNCHANGED <<sample, restarts, reader, early>>

AllocMode ==
  /\ wpc = "mode"
  /\ mode' = 1
  /\ wpc' = "idle"
  /\ UNCHANGED <<valid, count, data, sample, restarts, reader, cleared, early>>

\* ntpshm_put calls ntp_write, which first withdraws the old sample.
WriteInvalidate ==
  /\ wpc = "idle" /\ sample < MaxSamples
  /\ valid' = FALSE
  /\ sample' = sample + 1
  /\ wpc' = "count"
  /\ UNCHANGED <<count, mode, data, restarts, reader, cleared, early>>

\* Fault: the first increment of the count is left out.
FaultWriteCount ==
  /\ wpc = "count"
  /\ wpc' = "clock"
  /\ UNCHANGED <<segment, sample, restarts, reader, cleared, early>>

WriteCount ==
  /\ wpc = "count"
  /\ count' = count + 1
  /\ wpc' = "clock"
  /\ UNCHANGED <<valid, mode, data, sample, restarts, reader, cleared, early>>

\* The fields, one after the other.
WriteField ==
  /\ wpc \in Fields
  /\ data' = [data EXCEPT ![wpc] = sample]
  /\ wpc' = IF FieldAfter[wpc] = "none" THEN "recount" ELSE FieldAfter[wpc]
  /\ UNCHANGED <<valid, count, mode, sample, restarts, reader, cleared, early>>

WriteRecount ==
  /\ wpc = "recount"
  /\ count' = count + 1
  /\ wpc' = "valid"
  /\ UNCHANGED <<valid, mode, data, sample, restarts, reader, cleared, early>>

WriteValid ==
  /\ wpc = "valid"
  /\ valid' = TRUE
  /\ wpc' = "idle"
  /\ UNCHANGED <<count, mode, data, sample, restarts, reader, cleared, early>>

\* The daemon dies anywhere, or ends after ntpshm_link_deactivate, which does
\* not touch the segment; it comes back and allocates the segment again.
Restart ==
  /\ restarts < MaxRestarts /\ wpc # "alloc"
  /\ restarts' = restarts + 1
  /\ wpc' = "alloc"
  /\ UNCHANGED <<segment, sample, reader, cleared, early>>

-----------------------------------------------------------------------------
(* ntp_read                                                                *)

\* valid == 0 is NOT_READY, nothing happens; otherwise go on.
ReadValid(r) ==
  /\ rpc[r] = "idle" /\ valid
  /\ rpc' = [rpc EXCEPT ![r] = "cnt"]
  /\ cleared' = [cleared EXCEPT ![r] = FALSE]
  /\ UNCHANGED <<segment, writer, cnt, copied, copy, cmode, got, early>>

ReadCount(r) ==
  /\ rpc[r] = "cnt"
  /\ cnt' = [cnt EXCEPT ![r] = count]
  /\ copied' = [copied EXCEPT ![r] = {}]
  /\ rpc' = [rpc EXCEPT ![r] = "copy"]
  /\ UNCHANGED <<segment, writer, copy, cmode, got, cleared, early>>

\* memcpy of the segment: word by word, in whatever order.
ReadCopy(r, f) ==
  /\ rpc[r] = "copy" /\ f \notin copied[r]
  /\ copied' = [copied EXCEPT ![r] = @ \cup {f}]
  /\ copy' = IF f \in Fields THEN [copy EXCEPT ![r][f] = data[f]] ELSE copy
  /\ cmode' = IF f = "mode" THEN [cmode EXCEPT ![r] = mode] ELSE cmode
  /\ UNCHANGED <<segment, writer, rpc, cnt, got, cleared, early>>

\* Fault: a consumer leaves the sample where it is.
FaultReadConsume(r) ==
  /\ rpc[r] = "copy" /\ copied[r] = Fields \cup {"mode"}
  /\ early' = [early EXCEPT ![r] = ~valid]
  /\ rpc' = [rpc EXCEPT ![r] = "compare"]
  /\ UNCHANGED <<segment, writer, cnt, copied, copy, cmode, got, cleared>>

\* All is copied: a consumer marks the sample as taken.
ReadConsume(r) ==
  /\ rpc[r] = "copy" /\ copied[r] = Fields \cup {"mode"}
  /\ valid' = (valid /\ r \notin Consumers)
  /\ early' = [early EXCEPT ![r] = ~valid]
  /\ rpc' = [rpc EXCEPT ![r] = "compare"]
  /\ UNCHANGED <<count, mode, data, writer, cnt, copied, copy, cmode, got, cleared>>

Reading(r) == [contents |-> copy[r], cnt |-> cnt[r], cleared |-> cleared[r],
               early |-> early[r]]

\* The count moved, which is looked at in mode 1.
Clash(r) == cmode[r] > 0 /\ cnt[r] # count

\* CLASH, or OK: the copy is the sample, its nanosecond parts being those of the
\* same timestamps.
ReadCompare(r) ==
  /\ rpc[r] = "compare"
  /\ got' = IF Clash(r) THEN got ELSE [got EXCEPT ![r] = Reading(r)]
  /\ rpc' = [rpc EXCEPT ![r] = "idle"]
  /\ UNCHANGED <<segment, writer, cnt, copied, copy, cmode, cleared, early>>

Daemon == \/ AllocClear \/ AllocMode \/ WriteInvalidate \/ WriteCount
          \/ WriteField \/ WriteRecount \/ WriteValid
Read(r) == \/ ReadValid(r) \/ ReadCount(r) \/ ReadConsume(r) \/ ReadCompare(r)
           \/ \E f \in Fields \cup {"mode"} : ReadCopy(r, f)

ShmNext == Daemon \/ Restart \/ \E r \in Readers : Read(r)

ShmSpec == ShmInit /\ [][ShmNext]_shmVars

-----------------------------------------------------------------------------
(* Properties                                                              *)

ReaderPoints == {"idle", "cnt", "copy", "compare"}
Readings == [contents: Contents, cnt: Nat, cleared: BOOLEAN, early: BOOLEAN]

ShmTypeOK ==
  /\ valid \in BOOLEAN /\ count \in Nat /\ mode \in {0, 1} /\ data \in Contents
  /\ wpc \in {"alloc", "mode", "idle", "count", "recount", "valid"} \cup Fields
  /\ sample \in 0 .. MaxSamples /\ restarts \in 0 .. MaxRestarts
  /\ rpc \in [Readers -> ReaderPoints] /\ cnt \in [Readers -> Nat]
  /\ copied \in [Readers -> SUBSET (Fields \cup {"mode"})]
  /\ copy \in [Readers -> Contents] /\ cmode \in [Readers -> {0, 1}]
  /\ got \in [Readers -> Readings] /\ cleared \in [Readers -> BOOLEAN]
  /\ early \in [Readers -> BOOLEAN]

Whole(c) == \A f \in Fields : c[f] = c["clock"]

\* A sample that ntp_read accepted mixes two samples only if the reader took
\* an odd count, in the middle of an update that had begun after it saw valid,
\* or if a restarted daemon initialised the segment during the read: in every
\* other case comparing the two counts is enough.  ntpshmread.c calls the scheme
\* "proof against concurrency issues".
TornExplained ==
  \A r \in Readers : Whole(got[r].contents) \/ got[r].cnt % 2 = 1 \/ got[r].cleared

\* A consumer does not go back in time, and uses a sample twice only if it was
\* early the first time: it saw the sample before valid, copied the new one and
\* cleared a flag that ntp_write had yet to set.  With the two exceptions of
\* TornExplained, clearing valid takes the sample away, and only a complete new
\* update brings it back.
Clean(g) == g.cnt % 2 = 0 /\ ~g.cleared
ReturnsOK(r) == rpc[r] = "compare" /\ rpc'[r] = "idle" /\ ~Clash(r)
ConsumedOnce ==
  [][\A r \in Consumers :
       ReturnsOK(r) /\ Clean(got[r]) /\ Clean(got'[r]) =>
         \/ got'[r].contents["clock"] > got[r].contents["clock"]
         \/ got[r].early /\ got'[r].contents["clock"] = got[r].contents["clock"]]_shmVars

=============================================================================
