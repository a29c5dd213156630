-------------------------------- MODULE MRo50 --------------------------------
(***************************************************************************)
(* The driver of the mRO50 oscillator (src/oscillators/mRo50_oscillator.c) *)
(* in the disciplining loop of src/oscillatord.c: commands and answers on  *)
(* a serial line.  Nothing in an answer says which command it answers; the *)
(* driver takes for it what arrives until the line is silent for 50 ms.    *)
(* An answer may be late, cut in two by a silence, or "?"; what misses its *)
(* own exchange is heard in the next one.  When something is wrong the     *)
(* driver opens the line again, sends an empty command and throws away     *)
(* what comes (mRo50_clean_serial).                                        *)
(*                                                                         *)
(* Of the controls, the coarse one has its value here, modulo Width in the *)
(* place of 2^32; the fine one only tells which command it was read with.  *)
(* Calibration, and the round left out after a phase jump, are part of     *)
(* Oscillatord.                                                            *)
(***************************************************************************)
EXTENDS Naturals, Sequences

CONSTANTS
  Width,      \* values of the coarse control, 2^32 in the code
  MaxFaults,  \* bound: answers that are late, cut or refused, failed opens
  MaxMoves    \* bound: changes of the coarse control

ASSUME MRo50Assumption == Width \in Nat \ {0, 1} /\ MaxFaults \in Nat /\ MaxMoves \in Nat

Commands == {"A", "B", "status", "coarse", "fine", "write", "newline"}
Parts == {"whole", "head", "tail", "refused"}
Answer(c, part) == [cmd |-> c, part |-> part]

\* What one exchange may leave for the next: nothing, or one answer.
Pendings == {<< >>} \cup {<<Answer(c, p)>> : c \in Commands, p \in Parts}

VARIABLES
  pc,           \* control point: the next command, or what main does
  open,         \* serial_fd is an open descriptor
  pending,      \* answers, or rests, that will be heard in the next exchange
  coarse,       \* the control of the oscillator
  coarse_ctrl,  \* ctrl_values: the value, and the commands whose answers were
  coarseOf,     \* taken for the coarse and the fine control
  fineOf,
  setpoint,     \* of the command to be written, Width for a fine one
  moves, faults,
  adjusted      \* history: the algorithm moved the coarse control in this round

vars == <<pc, open, pending, coarse, coarse_ctrl, coarseOf, fineOf, setpoint, moves, faults,
          adjusted>>
values == <<coarse, coarse_ctrl, coarseOf, fineOf, setpoint, moves, adjusted>>

\* mRo50_oscillator_new has opened the line.
Init ==
  /\ pc = "reset" /\ open = TRUE /\ pending = << >>
  /\ coarse \in 0 .. 1 /\ coarse_ctrl = 0 /\ coarseOf = "coarse" /\ fineOf = "fine"
  /\ setpoint = Width /\ moves = 0 /\ faults = 0 /\ adjusted = FALSE

Failing == faults < MaxFaults /\ faults' = faults + 1
Working == UNCHANGED faults

-----------------------------------------------------------------------------
(* Exchanges                                                               *)

\* What becomes of the answer to a command: "unsent" without a descriptor.
Fates == {"prompt", "late", "cut", "refused", "unsent"}
Fate(own) == IF own = "unsent" THEN ~open /\ Working
             ELSE open /\ (IF own = "prompt" THEN Working ELSE Failing)

\* The answers that mRo50_oscillator_cmd collects, and the ones it misses.
Heard(c, own) ==
  CASE own = "unsent" -> << >>
    [] own = "late" -> pending
    [] own = "cut" -> Append(pending, Answer(c, "head"))
    [] own = "refused" -> Append(pending, Answer(c, "refused"))
    [] OTHER -> Append(pending, Answer(c, "whole"))
Missed(c, own) ==
  CASE own = "late" -> <<Answer(c, "whole")>>
    [] own = "cut" -> <<Answer(c, "tail")>>
    [] OTHER -> << >>

\* mRo50_oscillator_cmd returns a length: not nothing, not "?", an end.
Good(heard) ==
  heard # << >> /\ heard[1].part # "refused" /\ heard[Len(heard)].part # "head"

\* The answer that sscanf takes its number from: line feeds are skipped.
Numbers(heard) == {i \in DOMAIN heard : heard[i].cmd # "write"}
Taken(heard) == heard[CHOOSE i \in Numbers(heard) : \A j \in Numbers(heard) : i <= j]
Parses(heard) == Numbers(heard) # {} /\ Taken(heard).part # "refused"

\* Fault: a line that could not be opened is not opened again.
FaultCleanSerial ==
  /\ pc = "clean"
  /\ \/ open' = FALSE /\ pending' = << >> /\ (IF open THEN Failing ELSE Working)
     \/ open /\ open' = TRUE /\ pending' = << >> /\ Working
  /\ pc' = "status"
  /\ UNCHANGED values

\* mRo50_clean_serial: a failed open leaves the old number in serial_fd, and one
\* whose attributes cannot be set takes no command either.  The number may by then
\* be another part's descriptor: no answer comes from it, as from a closed one; what
\* the commands do to its owner is not modelled.
CleanSerial ==
  /\ pc = "clean"
  /\ \/ open' = FALSE /\ pending' = << >> /\ Failing
     \/ open' = TRUE /\ pending' = << >> /\ Working
     \/ open' = TRUE /\ pending' = <<Answer("newline", "whole")>> /\ Failing
  /\ pc' = "status"
  /\ UNCHANGED values

-----------------------------------------------------------------------------
(* Start                                                                   *)

\* mRo50_reset: lines are read until the last one of a start; "?" repeats the
\* command.  A timeout ends the daemon.
Reset ==
  /\ pc = "reset"
  /\ \/ pc' = "A" /\ Working
     \/ pc' = "reset" /\ Failing
     \/ pc' = "failed" /\ Failing
  /\ UNCHANGED <<open, pending, values>>

\* read_temperature_compensation_parameters: two numbers for the log.
ReadParameter(c) ==
  /\ pc = c
  /\ \E own \in Fates :
       LET heard == Heard(c, own)
       IN  /\ Fate(own) /\ pending' = Missed(c, own)
           /\ pc' = CASE ~Good(heard) -> "clean"
                      [] Good(heard) /\ Parses(heard) /\ c = "A" -> "B"
                      [] OTHER -> "status"
  /\ UNCHANGED <<open, values>>

-----------------------------------------------------------------------------
(* A round of the main loop                                                *)

\* Fault: an answer that begins or ends with others' bytes is not noticed.
FaultReadStatus ==
  /\ pc = "status"
  /\ \E own \in Fates :
       LET heard == Heard("status", own)
       IN  /\ Fate(own) /\ pending' = Missed("status", own)
           /\ pc' = IF Good(heard) THEN "coarse" ELSE "clean"
  /\ UNCHANGED <<open, values>>

\* mRo50_oscillatord_get_attributes: the answer has STATUS_ANSWER_SIZE bytes, or
\* the round is over.
ReadStatus ==
  /\ pc = "status"
  /\ \E own \in Fates :
       LET heard == Heard("status", own)
       IN  /\ Fate(own) /\ pending' = Missed("status", own)
           /\ pc' = IF Good(heard) /\ heard = <<Answer("status", "whole")>>
                    THEN "coarse" ELSE "clean"
  /\ UNCHANGED <<open, values>>

\* The temperature is off the table of compute_temp: the round is over.
TemperatureUnknown ==
  /\ pc = "status" /\ open /\ pending = << >>
  /\ Failing
  /\ UNCHANGED <<pc, open, pending, values>>

\* mRo50_oscillator_get_ctrl, a number each; a failed parse ends the round
\* without a look at the line.
ReadCoarse ==
  /\ pc = "coarse"
  /\ \E own \in Fates :
       LET heard == Heard("coarse", own)
       IN  /\ Fate(own) /\ pending' = Missed("coarse", own)
           /\ IF Good(heard) /\ Parses(heard)
              THEN /\ coarseOf' = Taken(heard).cmd /\ coarse_ctrl' = coarse
                   /\ pc' = "fine"
              ELSE /\ UNCHANGED <<coarseOf, coarse_ctrl>>
                   /\ pc' = IF Good(heard) THEN "status" ELSE "clean"
  /\ adjusted' = FALSE
  /\ UNCHANGED <<open, coarse, fineOf, setpoint, moves>>

ReadFine ==
  /\ pc = "fine"
  /\ \E own \in Fates :
       LET heard == Heard("fine", own)
       IN  /\ Fate(own) /\ pending' = Missed("fine", own)
           /\ IF Good(heard) /\ Parses(heard)
              THEN fineOf' = Taken(heard).cmd /\ pc' = "process"
              ELSE UNCHANGED fineOf /\ pc' = IF Good(heard) THEN "status" ELSE "clean"
  /\ UNCHANGED <<open, coarse, coarse_ctrl, coarseOf, setpoint, moves, adjusted>>

Move == moves < MaxMoves /\ moves' = moves + 1

\* od_process: nothing to do, or a fine or coarse control to be written.
Process ==
  /\ pc = "process"
  /\ \/ pc' = "request" /\ UNCHANGED <<setpoint, moves>>
     \/ pc' = "apply" /\ setpoint' = Width /\ UNCHANGED moves
     \/ pc' = "apply" /\ setpoint' \in 0 .. Width - 1 /\ Move
  /\ UNCHANGED <<open, pending, coarse, coarse_ctrl, coarseOf, fineOf, faults, adjusted>>

\* Fault: the request is relative to the value of the command before.
FaultCoarseRequest ==
  /\ pc = "request" /\ Move
  /\ setpoint' \in IF setpoint = Width THEN {(coarse_ctrl + 1) % Width}
                   ELSE {(setpoint + 2) % Width}
  /\ pc' = "applyRequest"
  /\ UNCHANGED <<open, pending, coarse, coarse_ctrl, coarseOf, fineOf, faults, adjusted>>

\* REQUEST_MRO_COARSE_INC and _DEC: unsigned, from the value that was read.
CoarseRequest ==
  /\ pc = "request" /\ Move
  /\ setpoint' \in {(coarse_ctrl + 1) % Width, (coarse_ctrl + Width - 1) % Width}
  /\ pc' = "applyRequest"
  /\ UNCHANGED <<open, pending, coarse, coarse_ctrl, coarseOf, fineOf, faults, adjusted>>

NoRequest ==
  /\ pc = "request"
  /\ pc' = "status"
  /\ UNCHANGED <<open, pending, values, faults>>

\* mRo50_oscillator_apply_output: the oscillator obeys a command that it does
\* not refuse.  An answer of another length than 2 is an error, which main only
\* logs; the line is not cleaned.
ApplyOutput ==
  /\ pc \in {"apply", "applyRequest"}
  /\ \E own \in Fates :
       /\ Fate(own) /\ pending' = Missed("write", own)
       /\ coarse' = IF setpoint = Width \/ own \in {"refused", "unsent"} THEN coarse ELSE setpoint
  /\ adjusted' = (adjusted \/ (pc = "apply" /\ setpoint # Width))
  /\ pc' = IF pc = "apply" THEN "request" ELSE "status"
  /\ UNCHANGED <<open, coarse_ctrl, coarseOf, fineOf, setpoint, moves>>

Next ==
  \/ Reset \/ ReadParameter("A") \/ ReadParameter("B") \/ CleanSerial
  \/ ReadStatus \/ TemperatureUnknown \/ ReadCoarse \/ ReadFine
  \/ Process \/ CoarseRequest \/ NoRequest \/ ApplyOutput

\* Every exchange ends, with the silence of the line if not with an answer.
Spec == Init /\ [][Next]_vars /\ WF_vars(Next)

-----------------------------------------------------------------------------
(* Properties                                                              *)

TypeOK ==
  /\ pc \in {"reset", "failed", "clean", "process", "apply", "request", "applyRequest"}
             \cup Commands
  /\ open \in BOOLEAN /\ adjusted \in BOOLEAN
  /\ pending \in Pendings
  /\ coarse \in 0 .. Width - 1 /\ coarse_ctrl \in 0 .. Width - 1 /\ setpoint \in 0 .. Width
  /\ coarseOf \in Commands /\ fineOf \in Commands
  /\ moves \in 0 .. MaxMoves /\ faults \in 0 .. MaxFaults

\* The algorithm gets the coarse control as the coarse one and the fine as the
\* fine one, though answers do not name their command: an answer that missed
\* its exchange is thrown away, or noticed by the length of the next status,
\* before a number is read.
ReadingsAreOwn == pc = "process" => coarseOf = "coarse" /\ fineOf = "fine"

\* A request of a client moves the coarse control by one, as long as the
\* algorithm has not moved it in the same round (the request starts from the
\* value before, and undoes that) and it does not pass zero, or its maximum.
CoarseByOne ==
  [][pc = "applyRequest" /\ coarse' # coarse /\ ~adjusted =>
       coarse' \in {coarse + 1, coarse - 1} \/ {coarse, coarse'} = {0, Width - 1}]_vars

\* When answers come in time, inputs for the algorithm come for ever, whatever
\* had gone wrong with the line.
InputsGoOn == []<>(pc \in {"process", "failed"})

=============================================================================
