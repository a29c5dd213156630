------------------------------- MODULE Eeprom -------------------------------
(***************************************************************************)
(* The disciplining parameters in the card's EEPROM                        *)
(* (common/eeprom_config.c, src/oscillatord.c): two files hold them, the   *)
(* disciplining configuration and the temperature table.  The daemon reads *)
(* both when it starts; the main thread, any number of save threads and    *)
(* the shutdown write them, first the one and then the other, with no lock *)
(* between the writers.  Writes fail, the process dies between any two     *)
(* steps and is started again.                                             *)
(*                                                                         *)
(* The contents of a file are abstracted to their format and to the        *)
(* generation of the parameters in it: the algorithm makes a new           *)
(* generation whenever it learns something.                                *)
(***************************************************************************)
EXTENDS Integers

CONSTANTS
  Savers,   \* save threads that may exist at once
  MaxGen,   \* bound: generations of parameters
  MaxBoots  \* bound: starts of the daemon

MAIN == "main"
None == "none"   \* the handle before the first save thread

ASSUME EepromAssumption ==
  /\ MAIN \notin Savers
  /\ None \notin Savers
  /\ MaxGen \in Nat
  /\ MaxBoots \in Nat

DSC  == "disciplining_config"
TEMP == "temperature_table"
Files == {DSC, TEMP}

\* Headers: a valid one is always of version 1, no file has another version.
Formats == {"V0", "V1"}

\* Garbage: a partial write, or a buffer that read_file left uninitialised.
Garbage == -1
Gens == {Garbage} \cup 0 .. MaxGen
Params == [Files -> Gens]
Params0 == [f \in Files |-> 0]

Writers == Savers \cup {MAIN}

VARIABLES
  file,     \* EEPROM: format and generation of each file
  conf,     \* configuration file: calibrate_first set ("first"), cleared
            \* ("done"), or the file truncated ("lost")
  main,     \* control point of the main thread
  od,       \* parameters inside the disciplining algorithm
  writer,   \* each writer: its step, its dsc_params, and (history) whether all of
            \* its calls succeeded: getting od's parameters and both writes
  handle,   \* save_dsc_params_thread
  boots,    \* starts so far
  trouble   \* history: what went wrong

vars == <<file, conf, main, od, writer, handle, boots, trouble>>

Idle(params) == [pc |-> "idle", params |-> params, ok |-> TRUE]

\* A card whose two files are in the same format.
Init ==
  /\ \E fmt \in Formats : file = [f \in Files |-> [fmt |-> fmt, gen |-> 0]]
  /\ conf \in {"first", "done"}
  /\ main = "off" /\ od = Params0
  /\ writer = [w \in Writers |-> Idle(Params0)]
  /\ handle = None /\ boots = 0 /\ trouble = {}

\* History that a start of the daemon forgets, but for one bit: that an earlier
\* run of the daemon had two saves at once, or read a file it could not read.
PerBoot == {"overwritten", "late", "overlap", "get_failed", "read_failed"}
Earlier == IF trouble \cap {"overlap", "read_failed"} = {} THEN {} ELSE {"earlier"}

-----------------------------------------------------------------------------
(* Start of the daemon.                                                    *)

\* Fault: files without a header are no longer taken for version 0.
FaultAccepted(hdr) == hdr[DSC] = "V1" /\ hdr[TEMP] = "V1"

\* Both headers valid, or neither (version 0 is assumed and converted).
Accepted(hdr) == hdr[DSC] = hdr[TEMP]

\* config_init, then read_disciplining_parameters_from_eeprom.  A file that
\* cannot be read is only logged: its buffer holds anything, header included.
Boot ==
  /\ main \in {"off", "exited", "refused"} /\ boots < MaxBoots
  /\ boots' = boots + 1
  /\ handle' = None
  /\ \E bad \in SUBSET Files : \E hdr \in [Files -> Formats] :
       LET params == [f \in Files |-> IF f \in bad THEN Garbage ELSE file[f].gen]
       IN /\ \A f \in Files \ bad : hdr[f] = file[f].fmt
          /\ main' = IF conf # "lost" /\ Accepted(hdr) THEN "run" ELSE "refused"
          /\ od' = params
          /\ writer' = [w \in Writers |-> Idle(IF w = MAIN THEN params ELSE Params0)]
          /\ trouble' = (trouble \ PerBoot) \cup Earlier
                         \cup (IF bad = {} THEN {} ELSE {"read_failed"})
  /\ UNCHANGED <<file, conf>>

\* A save that the end of the process cuts short.
CutShort == IF \E w \in Writers : writer[w].pc \in Files THEN {"cut_short"} ELSE {}

\* The process ends at any point: a crash, a second signal, error(EXIT_FAILURE).
Crash ==
  /\ main \notin {"off", "exited", "refused"}
  /\ main' = "off"
  /\ writer' = [w \in Writers |-> Idle(Params0)]
  /\ handle' = None
  /\ trouble' = trouble \cup CutShort
  /\ UNCHANGED <<file, conf, od, boots>>

-----------------------------------------------------------------------------
(* write_disciplining_parameters_in_eeprom, by the main thread or by       *)
(* save_disciplining_parameters in a thread of its own.                    *)

Alive == main \notin {"off", "exited", "refused"}
Active(w) == writer[w].pc # "idle"

\* The next step of w.  Nothing is left of a save thread that ended.
Step(w, pc, params, ok) ==
  writer' = [writer EXCEPT ![w] = IF w # MAIN /\ pc = "idle" THEN Idle(Params0)
                                  ELSE [pc |-> pc, params |-> params, ok |-> ok]]

\* A save thread that runs after the main thread has joined `the' thread.
Late(w) == IF w \in Savers /\ main \in {"final", "destroyed"} THEN {"late"} ELSE {}

Overlap(w) == IF \E v \in Writers \ {w} : writer[v].pc \in Files THEN {"overlap"} ELSE {}

\* Fault: the main thread writes the dsc_params it has, without asking od.
FaultGetParameters(w) ==
  /\ Alive /\ writer[w].pc = "get"
  /\ Step(w, DSC, IF w = MAIN THEN writer[w].params ELSE od, TRUE)
  /\ trouble' = trouble \cup Late(w) \cup Overlap(w)
  /\ UNCHANGED <<file, conf, main, od, handle, boots>>

\* od_get_disciplining_parameters.  Of a destroyed od it reads freed memory.
GetParameters(w) ==
  /\ Alive /\ writer[w].pc = "get"
  /\ Step(w, DSC, IF main = "destroyed" THEN [f \in Files |-> Garbage] ELSE od, TRUE)
  /\ trouble' = trouble \cup Late(w) \cup Overlap(w)
  /\ UNCHANGED <<file, conf, main, od, handle, boots>>

\* It fails: a save thread and the shutdown give up; the main thread's
\* SAVE_DISCIPLINING_PARAMETERS writes the dsc_params it has from before.
GetParametersFails(w) ==
  /\ Alive /\ writer[w].pc = "get"
  /\ Step(w, IF w = MAIN /\ main = "save" THEN DSC ELSE "idle", writer[w].params, FALSE)
  /\ trouble' = trouble \cup {"get_failed"} \cup Late(w) \cup Overlap(w)
  /\ UNCHANGED <<file, conf, main, od, handle, boots>>

\* Fault: the second file is not written.
FaultAfterWrite(f) == "idle"

\* A failed write is only logged, the next file is written all the same.
AfterWrite(f) == IF f = DSC THEN TEMP ELSE "idle"

\* write_file: the whole file is written; or nothing is (fopen fails, or the
\* flush in fclose, whose result is not looked at); or a part of it, which
\* starts with the header.
WriteFile(w) ==
  /\ Alive /\ writer[w].pc \in Files
  /\ LET f == writer[w].pc
     IN \/ /\ file' = [file EXCEPT ![f] = [fmt |-> "V1", gen |-> writer[w].params[f]]]
           /\ Step(w, AfterWrite(f), writer[w].params, writer[w].ok)
           /\ trouble' = trouble \cup Late(w)
        \/ /\ \/ UNCHANGED file
              \/ file' = [file EXCEPT ![f] = [fmt |-> "V1", gen |-> Garbage]]
           /\ Step(w, AfterWrite(f), writer[w].params, FALSE)
           /\ trouble' = trouble \cup {"write_failed"} \cup Late(w)
  /\ UNCHANGED <<conf, main, od, handle, boots>>

-----------------------------------------------------------------------------
(* The main thread.                                                        *)

\* od_process changes the parameters.
Learn ==
  /\ main = "run"
  /\ \A f \in Files : od[f] < MaxGen
  /\ od' = [f \in Files |-> IF od[f] = Garbage THEN Garbage ELSE od[f] + 1]
  /\ UNCHANGED <<file, conf, main, writer, handle, boots, trouble>>

\* Periodically and on REQUEST_SAVE_EEPROM: the handle of a save thread that
\* may still run is overwritten.
CreateSaveThread(s) ==
  /\ main = "run" /\ ~Active(s)
  /\ writer' = [writer EXCEPT ![s].pc = "get"]
  /\ handle' = s
  /\ trouble' = trouble \cup (IF \E r \in Savers : Active(r) THEN {"overwritten"} ELSE {})
  /\ UNCHANGED <<file, conf, main, od, boots>>

\* The algorithm asks for SAVE_DISCIPLINING_PARAMETERS after a calibration.
SaveParameters ==
  /\ main = "run"
  /\ main' = "save"
  /\ writer' = [writer EXCEPT ![MAIN].pc = "get"]
  /\ UNCHANGED <<file, conf, od, handle, boots, trouble>>

\* Fault: the configuration is saved while the parameters are being written.
FaultConfigOpen ==
  /\ main = "save"
  /\ \/ conf' = "lost" /\ main' = "config"
     \/ UNCHANGED conf /\ main' = "run"
  /\ UNCHANGED <<file, od, writer, handle, boots, trouble>>

\* config_save truncates the configuration file (or cannot open it) ...
ConfigOpen ==
  /\ main = "save" /\ ~Active(MAIN)
  /\ \/ conf' = "lost" /\ main' = "config"
     \/ UNCHANGED conf /\ main' = "run"
  /\ UNCHANGED <<file, od, writer, handle, boots, trouble>>

\* ... and writes it with calibrate_first cleared.  Neither fwrite's result nor
\* fclose's is looked at: the file may stay truncated.  Of the configuration
\* only calibrate_first is modelled, not what a cut at 1024 bytes removes.
ConfigWrite ==
  /\ main = "config"
  /\ conf' \in {"done", "lost"} /\ main' = "run"
  /\ UNCHANGED <<file, od, writer, handle, boots, trouble>>

\* Fault: the shutdown does not wait for the save thread.
FaultJoinSaver ==
  /\ main = "run"
  /\ main' = "final"
  /\ writer' = [writer EXCEPT ![MAIN].pc = "get"]
  /\ UNCHANGED <<file, conf, od, handle, boots, trouble>>

\* Shutdown: wait for the thread the handle names, then save a last time.  The
\* crash of joining no thread at all is a Crash; see module Oscillatord.
JoinSaver ==
  /\ main = "run"
  /\ handle # None => ~Active(handle)
  /\ main' = "final"
  /\ writer' = [writer EXCEPT ![MAIN].pc = "get"]
  /\ UNCHANGED <<file, conf, od, handle, boots, trouble>>

\* od_destroy, while save threads that were not joined may still run.
DestroyOd ==
  /\ main = "final" /\ ~Active(MAIN)
  /\ main' = "destroyed"
  /\ UNCHANGED <<file, conf, od, writer, handle, boots, trouble>>

\* main() returns: the process and every thread left end.
Exit ==
  /\ main = "destroyed"
  /\ main' = "exited"
  /\ writer' = [w \in Writers |-> IF w = MAIN THEN writer[w] ELSE Idle(Params0)]
  /\ trouble' = trouble \cup CutShort
  /\ UNCHANGED <<file, conf, od, handle, boots>>

-----------------------------------------------------------------------------

MainThread == \/ Learn \/ SaveParameters \/ ConfigOpen \/ ConfigWrite
              \/ JoinSaver \/ DestroyOd \/ Exit

Next ==
  \/ Boot \/ Crash \/ MainThread
  \/ \E s \in Savers : CreateSaveThread(s)
  \/ \E w \in Writers : GetParameters(w) \/ GetParametersFails(w) \/ WriteFile(w)

Spec == Init /\ [][Next]_vars

-----------------------------------------------------------------------------
(* Properties                                                              *)

\* Types; in particular the step of the main thread as a writer goes with
\* what the main thread is doing.
TypeOK ==
  /\ file \in [Files -> [fmt: Formats, gen: Gens]]
  /\ conf \in {"first", "done", "lost"}
  /\ main \in {"off", "run", "save", "config", "final", "destroyed", "exited", "refused"}
  /\ od \in Params
  /\ writer \in [Writers -> [pc: {"idle", "get"} \cup Files, params: Params, ok: BOOLEAN]]
  /\ Active(MAIN) => main \in {"save", "final"}
  /\ handle \in Savers \cup {None}
  /\ boots \in 0 .. MaxBoots
  /\ trouble \subseteq PerBoot \cup {"earlier", "cut_short", "write_failed"}

\* As long as no handle was overwritten the only save thread is the one the
\* handle names ...
OneSaver ==
  "overwritten" \notin trouble => \A s \in Savers : Active(s) => s = handle

\* ... none is left once the main thread has joined it ...
QuietAfterJoin ==
  main \in {"final", "destroyed"} /\ "overwritten" \notin trouble
    => \A s \in Savers : ~Active(s)

\* ... and none has taken a step since, when od is about to be destroyed or is
\* destroyed already: the join protects exactly the last thread created.
LateSaverEscaped == "late" \in trouble => "overwritten" \in trouble

\* A save thread runs after the shutdown's pthread_join only if its handle was
\* overwritten, with the two facts that make this inductive.
EepromInv == OneSaver /\ QuietAfterJoin /\ LateSaverEscaped

\* A shutdown whose own writes succeed leaves in both files the parameters
\* the algorithm ended with, whatever was saved, interrupted or lost before
\* and by earlier runs of the daemon, unless a save thread escaped the join.
FinalParametersStored ==
  main \in {"destroyed", "exited"} /\ writer[MAIN].ok /\ "late" \notin trouble
    => file = [f \in Files |-> [fmt |-> "V1", gen |-> od[f]]]

\* The two files hold the parameters of one save, unless a save is between the
\* two: across starts, late save threads, failed calls and crashes outside a save.
\* There is no lock and no marker in the files that would say so: excepted are
\* saves that overlapped, were cut short or failed to write, and a file that
\* could not be read, in this run of the daemon or an earlier one.
OneGeneration ==
  trouble \cap {"overlap", "read_failed", "earlier", "cut_short", "write_failed"} = {} =>
    file[DSC].gen = file[TEMP].gen \/ \E w \in Writers : writer[w].pc = TEMP

\* The daemon refuses to start only after an upgrade of version 0 files that
\* was interrupted or failed half-way, when a file cannot be read, or when it
\* died while it rewrote its configuration: version 1 files survive crashes
\* and failed writes at any point.
RefusalExplained ==
  main = "refused" =>
    \/ "read_failed" \in trouble
    \/ conf = "lost"
    \/ /\ trouble \cap {"cut_short", "write_failed"} # {}
       /\ \E f \in Files : file[f].fmt = "V0"

\* Without failures, stored parameters are never replaced by older ones as
\* long as no two writers overlap and none outlives the join: each save reads
\* od after its predecessor.
NeverOlder ==
  [][trouble' \cap {"overlap", "late", "get_failed", "read_failed", "write_failed"} = {}
       => \A f \in Files : file'[f].gen >= file[f].gen]_vars

\* calibrate_first is cleared in the configuration only after the parameters
\* that the algorithm has, the calibrated ones, are in both files: a crash in
\* between calibrates again, it does not lose the calibration.  Excepted are a
\* save whose od_get_disciplining_parameters failed or whose writes failed, after
\* which the code clears calibrate_first all the same and the calibration is
\* lost; and files that other writers damaged or wrote at the same time.
CalibrationSavedFirst ==
  [][conf' = "done" /\ conf # "done"
     /\ writer[MAIN].ok /\ trouble \cap {"overlap", "write_failed"} = {}
       => \A f \in Files : file[f].fmt = "V1" /\ file[f].gen >= od[f]]_vars

=============================================================================
