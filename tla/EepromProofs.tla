---------------------------- MODULE EepromProofs ----------------------------
(***************************************************************************)
(* Proofs about module Eeprom, for any number of save threads, any number  *)
(* of generations and of restarts.                                         *)
(***************************************************************************)
EXTENDS Eeprom, TLAPS

(***************************************************************************)
(* Type correctness.                                                       *)
(***************************************************************************)

\* The records a writer goes through.
WriterState == [pc: {"idle", "get"} \cup Files, params: Params, ok: BOOLEAN]

\* A writer that does nothing is well typed.
LEMMA IdleType ==
  ASSUME NEW p \in Params
  PROVE  Idle(p) \in WriterState
BY DEF Idle, WriterState

\* No generation, the first one and garbage included, is outside Gens.
LEMMA ParamsTypes ==
  /\ Params0 \in Params
  /\ [f \in Files |-> Garbage] \in Params
BY EepromAssumption DEF Params0, Params, Gens, Garbage

\* The next step of a writer keeps the table of writers well typed and leaves
\* the other writers alone.
LEMMA StepType ==
  ASSUME writer \in [Writers -> WriterState],
         NEW w \in Writers, NEW pc \in {"idle", "get"} \cup Files,
         NEW p \in Params, NEW ok \in BOOLEAN,
         Step(w, pc, p, ok)
  PROVE  /\ writer' \in [Writers -> WriterState]
         /\ \A v \in Writers \ {w} : writer'[v] = writer[v]
         /\ writer'[w].pc = pc
<1>1. Idle(Params0) \in WriterState /\ Idle(Params0).pc = "idle"
  BY IdleType, ParamsTypes DEF Idle
<1>2. [pc |-> pc, params |-> p, ok |-> ok] \in WriterState
  BY DEF WriterState
<1> QED
  BY <1>1, <1>2 DEF Step

\* What write_file can do, whichever way it ends.
LEMMA WriteFileEffect ==
  ASSUME NEW w \in Writers, WriteFile(w)
  PROVE  /\ writer[w].pc \in Files
         /\ \/ file' = file
            \/ file' = [file EXCEPT ![writer[w].pc] = [fmt |-> "V1", gen |-> Garbage]]
            \/ file' = [file EXCEPT ![writer[w].pc] =
                         [fmt |-> "V1", gen |-> writer[w].params[writer[w].pc]]]
         /\ \/ Step(w, AfterWrite(writer[w].pc), writer[w].params, writer[w].ok)
            \/ Step(w, AfterWrite(writer[w].pc), writer[w].params, FALSE)
         /\ trouble' \subseteq trouble \cup {"write_failed"} \cup Late(w)
         /\ UNCHANGED <<conf, main, od, handle, boots>>
BY DEF WriteFile

\* The type invariant with the writers' records named.
LEMMA TypeUnfold ==
  TypeOK <=> /\ file \in [Files -> [fmt: Formats, gen: Gens]]
             /\ conf \in {"first", "done", "lost"}
             /\ main \in {"off", "run", "save", "config", "final", "destroyed",
                          "exited", "refused"}
             /\ od \in Params
             /\ writer \in [Writers -> WriterState]
             /\ Active(MAIN) => main \in {"save", "final"}
             /\ handle \in Savers \cup {None}
             /\ boots \in 0 .. MaxBoots
             /\ trouble \subseteq PerBoot \cup {"earlier", "cut_short", "write_failed"}
BY DEF TypeOK, WriterState

\* Every state of the specification is well typed.
THEOREM EepromType == Spec => []TypeOK
<1>1. Init => TypeOK
  <2> SUFFICES ASSUME Init PROVE TypeOK
    OBVIOUS
  <2>1. /\ Params0 \in Params /\ 0 \in Gens
        /\ writer = [w \in Writers |-> Idle(Params0)]
        /\ Idle(Params0) \in WriterState /\ Idle(Params0).pc = "idle"
    BY IdleType, ParamsTypes, EepromAssumption DEF Init, Gens, Idle
  <2>2. MAIN \in Writers
    BY DEF Writers
  <2>3. file \in [Files -> [fmt: Formats, gen: Gens]]
    BY <2>1 DEF Init
  <2> QED
    BY <2>1, <2>2, <2>3, TypeUnfold, EepromAssumption DEF Init, Active
<1>2. TypeOK /\ [Next]_vars => TypeOK'
  <2> SUFFICES ASSUME TypeOK, [Next]_vars PROVE TypeOK'
    OBVIOUS
  <2>0. /\ file \in [Files -> [fmt: Formats, gen: Gens]]
        /\ conf \in {"first", "done", "lost"}
        /\ main \in {"off", "run", "save", "config", "final", "destroyed",
                     "exited", "refused"}
        /\ od \in Params
        /\ writer \in [Writers -> WriterState]
        /\ Active(MAIN) => main \in {"save", "final"}
        /\ handle \in Savers \cup {None}
        /\ boots \in 0 .. MaxBoots
        /\ trouble \subseteq PerBoot \cup {"earlier", "cut_short", "write_failed"}
        /\ MAIN \in Writers /\ MAIN \notin Savers /\ MaxGen \in Nat /\ MaxBoots \in Nat
    BY TypeUnfold, EepromAssumption DEF Writers
  <2>T. ASSUME file' \in [Files -> [fmt: Formats, gen: Gens]],
               conf' \in {"first", "done", "lost"},
               main' \in {"off", "run", "save", "config", "final", "destroyed",
                          "exited", "refused"},
               od' \in Params,
               writer' \in [Writers -> WriterState],
               writer'[MAIN].pc # "idle" => main' \in {"save", "final"},
               handle' \in Savers \cup {None},
               boots' \in 0 .. MaxBoots,
               trouble' \subseteq PerBoot \cup {"earlier", "cut_short", "write_failed"}
        PROVE  TypeOK'
    BY <2>T DEF TypeOK, WriterState, Active
  <2>I. \A p \in Params : Idle(p) \in WriterState /\ Idle(p).pc = "idle"
    BY IdleType DEF Idle
  <2>P. Params0 \in Params /\ [f \in Files |-> Garbage] \in Params
    BY ParamsTypes
  <2>1. CASE Boot
    <3>1. PICK bad \in SUBSET Files, hdr \in [Files -> Formats] :
            LET params == [f \in Files |-> IF f \in bad THEN Garbage ELSE file[f].gen]
            IN /\ main' = IF conf # "lost" /\ Accepted(hdr) THEN "run" ELSE "refused"
               /\ od' = params
               /\ writer' = [w \in Writers |-> Idle(IF w = MAIN THEN params ELSE Params0)]
               /\ trouble' = (trouble \ PerBoot) \cup Earlier
                             \cup (IF bad = {} THEN {} ELSE {"read_failed"})
      BY <2>1 DEF Boot
    <3>2. od' \in Params
      BY <2>0, <3>1 DEF Params, Gens, Garbage
    <3>3. writer' \in [Writers -> WriterState] /\ writer'[MAIN].pc = "idle"
      BY <2>0, <2>I, <2>P, <3>1, <3>2
    <3>4. trouble' \subseteq PerBoot \cup {"earlier", "cut_short", "write_failed"}
      BY <2>0, <3>1 DEF PerBoot, Earlier
    <3>5. boots' \in 0 .. MaxBoots /\ handle' \in Savers \cup {None}
          /\ UNCHANGED <<file, conf>> /\ main' \in {"run", "refused"}
      BY <2>0, <2>1, <3>1 DEF Boot
    <3> QED
      BY <2>0, <2>T, <3>2, <3>3, <3>4, <3>5
  <2>2. CASE Crash
    <3>1. writer' \in [Writers -> WriterState] /\ writer'[MAIN].pc = "idle"
      BY <2>0, <2>2, <2>I, <2>P DEF Crash
    <3>2. trouble' \subseteq PerBoot \cup {"earlier", "cut_short", "write_failed"}
      BY <2>0, <2>2 DEF Crash, CutShort
    <3> QED
      BY <2>0, <2>2, <2>T, <3>1, <3>2 DEF Crash
  <2>3. CASE Learn
    <3>1. od' \in Params
      BY <2>0, <2>3 DEF Learn, Params, Gens, Garbage
    <3> QED
      BY <2>0, <2>3, <2>T, <3>1 DEF Learn, Active
  <2>4. CASE SaveParameters
    <3>1. writer' \in [Writers -> WriterState]
      BY <2>0, <2>4 DEF SaveParameters, WriterState
    <3> QED
      BY <2>0, <2>4, <2>T, <3>1 DEF SaveParameters
  <2>5. CASE ConfigOpen \/ ConfigWrite
    BY <2>0, <2>5, <2>T DEF ConfigOpen, ConfigWrite, Active
  <2>6. CASE JoinSaver
    <3>1. writer' \in [Writers -> WriterState]
      BY <2>0, <2>6 DEF JoinSaver, WriterState
    <3> QED
      BY <2>0, <2>6, <2>T, <3>1 DEF JoinSaver
  <2>7. CASE DestroyOd
    BY <2>0, <2>7, <2>T DEF DestroyOd, Active
  <2>8. CASE Exit
    <3>1. writer' \in [Writers -> WriterState] /\ writer'[MAIN] = writer[MAIN]
      BY <2>0, <2>8, <2>I, <2>P DEF Exit
    <3>2. trouble' \subseteq PerBoot \cup {"earlier", "cut_short", "write_failed"}
      BY <2>0, <2>8 DEF Exit, CutShort
    <3> QED
      BY <2>0, <2>8, <2>T, <3>1, <3>2 DEF Exit, Active
  <2>9. ASSUME NEW s \in Savers, CreateSaveThread(s)
        PROVE  TypeOK'
    <3>1. writer' \in [Writers -> WriterState] /\ writer'[MAIN] = writer[MAIN]
      BY <2>0, <2>9 DEF CreateSaveThread, WriterState, Writers
    <3>2. trouble' \subseteq PerBoot \cup {"earlier", "cut_short", "write_failed"}
      BY <2>0, <2>9 DEF CreateSaveThread, PerBoot
    <3> QED
      BY <2>0, <2>9, <2>T, <3>1, <3>2 DEF CreateSaveThread, Active
  <2>10. ASSUME NEW w \in Writers,
                GetParameters(w) \/ GetParametersFails(w) \/ WriteFile(w)
         PROVE  TypeOK'
    <3>1. /\ writer[w] \in WriterState /\ writer[w].params \in Params
          /\ writer[w].ok \in BOOLEAN /\ writer[w].pc # "idle"
          /\ w = MAIN => main \in {"save", "final"}
      BY <2>0, <2>10 DEF GetParameters, GetParametersFails, WriteFile, WriterState,
                         Active, Files, DSC, TEMP
    <3>2. Late(w) \cup Overlap(w) \cup {"get_failed", "write_failed"}
            \subseteq PerBoot \cup {"earlier", "cut_short", "write_failed"}
      BY DEF Late, Overlap, PerBoot
    <3>3. CASE GetParameters(w)
      <4>1. writer' \in [Writers -> WriterState]
            /\ \A v \in Writers \ {w} : writer'[v] = writer[v]
        BY <2>0, <2>P, <3>3, StepType DEF GetParameters, Files
      <4> QED
        BY <2>0, <2>T, <3>1, <3>2, <3>3, <4>1 DEF GetParameters, Active
    <3>4. CASE GetParametersFails(w)
      <4>1. writer' \in [Writers -> WriterState]
            /\ \A v \in Writers \ {w} : writer'[v] = writer[v]
        BY <2>0, <3>1, <3>4, StepType DEF GetParametersFails, Files
      <4> QED
        BY <2>0, <2>T, <3>1, <3>2, <3>4, <4>1 DEF GetParametersFails, Active
    <3>5. CASE WriteFile(w)
      <4>1. /\ AfterWrite(writer[w].pc) \in {"idle", "get"} \cup Files
            /\ writer[w].pc \in Files
        BY <3>5, WriteFileEffect DEF AfterWrite, Files
      <4>2. writer' \in [Writers -> WriterState]
            /\ \A v \in Writers \ {w} : writer'[v] = writer[v]
        <5>1. CASE Step(w, AfterWrite(writer[w].pc), writer[w].params, writer[w].ok)
          <6>1. [pc |-> AfterWrite(writer[w].pc), params |-> writer[w].params,
                 ok |-> writer[w].ok] \in WriterState
            BY <3>1, <4>1 DEF WriterState
          <6> QED
            BY <2>0, <2>I, <2>P, <5>1, <6>1 DEF Step
        <5>2. CASE Step(w, AfterWrite(writer[w].pc), writer[w].params, FALSE)
          BY <2>0, <3>1, <4>1, <5>2, StepType
        <5> QED
          BY <3>5, <5>1, <5>2, WriteFileEffect
      <4>3. file' \in [Files -> [fmt: Formats, gen: Gens]]
        <5>1. /\ [fmt |-> "V1", gen |-> Garbage] \in [fmt: Formats, gen: Gens]
              /\ [fmt |-> "V1", gen |-> writer[w].params[writer[w].pc]]
                   \in [fmt: Formats, gen: Gens]
          BY <3>1, <4>1 DEF Formats, Gens, Params
        <5>2. PICK f \in Files :
                \/ file' = file
                \/ file' = [file EXCEPT ![f] = [fmt |-> "V1", gen |-> Garbage]]
                \/ file' = [file EXCEPT ![f] =
                             [fmt |-> "V1", gen |-> writer[w].params[writer[w].pc]]]
          BY <3>5, WriteFileEffect
        <5> QED
          BY <2>0, <5>1, <5>2
      <4>4. trouble' \subseteq PerBoot \cup {"earlier", "cut_short", "write_failed"}
        BY <2>0, <3>2, <3>5, WriteFileEffect
      <4> QED
        BY <2>0, <2>T, <3>1, <3>5, <4>2, <4>3, <4>4, WriteFileEffect DEF Active
    <3> QED
      BY <2>10, <3>3, <3>4, <3>5
  <2>11. CASE UNCHANGED vars
    BY <2>0, <2>11, <2>T DEF vars, Active
  <2> QED
    BY <2>1, <2>2, <2>3, <2>4, <2>5, <2>6, <2>7, <2>8, <2>9, <2>10, <2>11
    DEF Next, MainThread
<1> QED
  BY <1>1, <1>2, PTL DEF Spec


(***************************************************************************)
(* The join of the last save thread protects every save thread, as long as *)
(* no handle was overwritten.                                              *)
(***************************************************************************)

\* EepromInv is an invariant: what CreateSaveThread records when it overwrites
\* the handle of a running thread is the only way past the join.
THEOREM EepromInvariant == Spec => []EepromInv
<1>1. Init => EepromInv
  BY DEF Init, EepromInv, OneSaver, QuietAfterJoin, LateSaverEscaped, Active, Idle, Writers
<1>2. TypeOK /\ EepromInv /\ [Next]_vars => EepromInv'
  <2> SUFFICES ASSUME TypeOK, EepromInv, [Next]_vars PROVE EepromInv'
    OBVIOUS
  <2>0. /\ writer \in [Writers -> WriterState]
        /\ handle \in Savers \cup {None} /\ None \notin Savers
        /\ Savers \subseteq Writers /\ MAIN \in Writers /\ MAIN \notin Savers
    BY TypeUnfold, EepromAssumption DEF Writers
  <2>I. \A p : Idle(p).pc = "idle"
    BY DEF Idle
  <2>1. CASE Boot
    <3>1. \A s \in Savers : writer'[s].pc = "idle"
      BY <2>0, <2>1, <2>I DEF Boot
    <3>2. "late" \notin trouble'
      BY <2>1 DEF Boot, PerBoot, Earlier
    <3> QED
      BY <3>1, <3>2 DEF EepromInv, OneSaver, QuietAfterJoin, LateSaverEscaped, Active
  <2>2. CASE Crash
    <3>1. \A s \in Savers : writer'[s].pc = "idle"
      BY <2>0, <2>2, <2>I DEF Crash
    <3>2. "late" \in trouble' => "late" \in trouble
      BY <2>2 DEF Crash, CutShort
    <3>3. "overwritten" \in trouble => "overwritten" \in trouble'
      BY <2>2 DEF Crash
    <3> QED
      BY <3>1, <3>2, <3>3 DEF EepromInv, OneSaver, QuietAfterJoin, LateSaverEscaped, Active
  <2>3. CASE Learn \/ ConfigOpen \/ ConfigWrite
    BY <2>3 DEF Learn, ConfigOpen, ConfigWrite, EepromInv, OneSaver, QuietAfterJoin,
                LateSaverEscaped, Active
  <2>4. CASE SaveParameters \/ JoinSaver
    <3>1. \A s \in Savers : writer'[s] = writer[s]
      BY <2>0, <2>4 DEF SaveParameters, JoinSaver
    <3>2. UNCHANGED <<handle, trouble>>
      BY <2>4 DEF SaveParameters, JoinSaver
    <3>3. main' = "save" \/ (main' = "final" /\ (handle # None => ~Active(handle)))
      BY <2>4 DEF SaveParameters, JoinSaver
    <3> QED
      BY <2>0, <3>1, <3>2, <3>3 DEF EepromInv, OneSaver, QuietAfterJoin, LateSaverEscaped,
                                    Active
  <2>5. CASE DestroyOd
    BY <2>5 DEF DestroyOd, EepromInv, OneSaver, QuietAfterJoin, LateSaverEscaped, Active
  <2>6. CASE Exit
    <3>1. \A s \in Savers : writer'[s].pc = "idle"
      BY <2>0, <2>6, <2>I DEF Exit
    <3>2. "late" \in trouble' => "late" \in trouble
      BY <2>6 DEF Exit, CutShort
    <3>3. "overwritten" \in trouble => "overwritten" \in trouble'
      BY <2>6 DEF Exit
    <3> QED
      BY <3>1, <3>2, <3>3 DEF EepromInv, OneSaver, QuietAfterJoin, LateSaverEscaped, Active
  <2>7. ASSUME NEW s \in Savers, CreateSaveThread(s)
        PROVE  EepromInv'
    <3>1. /\ main = "run" /\ main' = "run" /\ handle' = s
          /\ \A r \in Savers \ {s} : writer'[r] = writer[r]
      BY <2>0, <2>7 DEF CreateSaveThread
    <3>2. "overwritten" \notin trouble' => \A r \in Savers : ~Active(r)
      BY <2>7 DEF CreateSaveThread
    <3>3. /\ "late" \in trouble' => "late" \in trouble
          /\ "overwritten" \in trouble => "overwritten" \in trouble'
      BY <2>7 DEF CreateSaveThread
    <3> QED
      BY <3>1, <3>2, <3>3 DEF EepromInv, OneSaver, QuietAfterJoin, LateSaverEscaped, Active
  <2>8. ASSUME NEW w \in Writers,
               GetParameters(w) \/ GetParametersFails(w) \/ WriteFile(w)
        PROVE  EepromInv'
    <3>1. /\ UNCHANGED <<main, handle>> /\ Active(w)
          /\ \A v \in Writers \ {w} : writer'[v] = writer[v]
      BY <2>0, <2>8 DEF GetParameters, GetParametersFails, WriteFile, Step, Active, Files,
                        DSC, TEMP
    <3>2. /\ "overwritten" \in trouble <=> "overwritten" \in trouble'
          /\ "late" \in trouble' => "late" \in trouble \/ "late" \in Late(w)
      BY <2>8 DEF GetParameters, GetParametersFails, WriteFile, Late, Overlap
    <3>3. "late" \in Late(w) => w \in Savers /\ main \in {"final", "destroyed"}
      BY DEF Late
    <3> QED
      BY <2>0, <3>1, <3>2, <3>3 DEF EepromInv, OneSaver, QuietAfterJoin, LateSaverEscaped,
                                    Active
  <2>9. CASE UNCHANGED vars
    BY <2>9 DEF vars, EepromInv, OneSaver, QuietAfterJoin, LateSaverEscaped, Active
  <2> QED
    BY <2>1, <2>2, <2>3, <2>4, <2>5, <2>6, <2>7, <2>8, <2>9 DEF Next, MainThread
<1> QED
  BY <1>1, <1>2, EepromType, PTL DEF Spec

(***************************************************************************)
(* What the two files hold: the invariants.                                *)
(***************************************************************************)

Running == main \in {"run", "save", "config", "final"}
Writing(w) == writer[w].pc \in Files

\* The files of an upgrade: the second one is written after the first, so their
\* formats differ only while a save is at the second file, or after a save that
\* was cut short or failed.
UpgradeInv ==
  /\ ~Alive => \A w \in Writers : ~Active(w)
  /\ \A w \in Writers : writer[w].pc = TEMP => file[DSC].fmt = "V1" \/ "write_failed" \in trouble
  /\ file[DSC].fmt # file[TEMP].fmt =>
       \/ trouble \cap {"cut_short", "write_failed"} # {}
       \/ \E w \in Writers : writer[w].pc = TEMP
  /\ RefusalExplained

\* The last save, as far as it has got.
Current(f) == file[f] = [fmt |-> "V1", gen |-> od[f]]
FinalInv ==
  main \in {"final", "destroyed", "exited"} =>
    /\ Writing(MAIN) => writer[MAIN].params = od
    /\ writer[MAIN].ok /\ "late" \notin trouble =>
         /\ writer[MAIN].pc = TEMP => Current(DSC)
         /\ writer[MAIN].pc = "idle" => Current(DSC) /\ Current(TEMP)

\* Two writers between their first and their last write have overlapped.
OneWriting ==
  "overlap" \notin trouble => \A v, w \in Writers : Writing(v) /\ Writing(w) => v = w

\* Generations only grow: what is written, or is in the files, od has passed.
OdNewest ==
  Running =>
    \A f \in Files :
      /\ \A w \in Writers : w = MAIN \/ Writing(w) => od[f] >= writer[w].params[f]
      /\ "read_failed" \notin trouble => od[f] >= file[f].gen

\* A writer with nobody beside it writes nothing older than the files hold,
\* nor than what the main thread got last.
WriterNewest ==
  /\ trouble \cap {"overlap", "late", "get_failed", "read_failed", "write_failed"} = {} =>
       \A w \in Writers : Writing(w) => \A f \in Files : writer[w].params[f] >= file[f].gen
  /\ "overlap" \notin trouble /\ Running =>
       \A w \in Writers :
         Writing(w) => \A f \in Files : writer[w].params[f] >= writer[MAIN].params[f]

\* The save that follows a calibration, as far as it has got.
Saved(f) == file[f].fmt = "V1" /\ file[f].gen >= od[f]
CalibrationInv ==
  (main \in {"save", "config"} /\ writer[MAIN].ok
   /\ trouble \cap {"overlap", "write_failed"} = {}) =>
    /\ writer[MAIN].pc # "get" => writer[MAIN].params = od
    /\ writer[MAIN].pc = TEMP => Saved(DSC)
    /\ writer[MAIN].pc = "idle" => Saved(DSC) /\ Saved(TEMP)

\* Nothing that may mix the parameters of two saves has happened.  What is written
\* is then of one save; between the two files, the first is already of this one.
Unmixed == trouble \cap {"overlap", "read_failed", "earlier", "cut_short", "write_failed"} = {}
Uniform(params) == params[DSC] = params[TEMP]
GenerationInv ==
  Unmixed =>
    /\ Uniform(od) /\ (Running => Uniform(writer[MAIN].params))
    /\ \A w \in Writers : Writing(w) => Uniform(writer[w].params)
    /\ \A w \in Writers : writer[w].pc = TEMP => file[DSC].gen = writer[w].params[DSC]
    /\ OneGeneration

SaveInv == OneWriting /\ OdNewest /\ WriterNewest /\ CalibrationInv

-----------------------------------------------------------------------------
(* What the steps of a writer do, without the records.                     *)

\* A writer gets the parameters, of a destroyed od only when it is late, and says
\* so when another one is writing.
LEMMA GetEffect ==
  ASSUME TypeOK, NEW w \in Writers, GetParameters(w)
  PROVE  /\ Alive /\ writer[w].pc = "get" /\ writer'[w].pc = DSC /\ writer'[w].ok
         /\ writer'[w].params = IF main = "destroyed" THEN [f \in Files |-> Garbage] ELSE od
         /\ \A v \in Writers \ {w} : writer'[v] = writer[v]
         /\ trouble \subseteq trouble' /\ trouble' \subseteq trouble \cup {"late", "overlap"}
         /\ "overlap" \notin trouble' => \A v \in Writers \ {w} : ~Writing(v)
         /\ main = "destroyed" => "late" \in trouble'
         /\ UNCHANGED <<file, conf, main, od, handle, boots>>
<1>0. writer \in [Writers -> WriterState] /\ MAIN \notin Savers
      /\ (Active(MAIN) => main \in {"save", "final"})
  BY TypeUnfold, EepromAssumption
<1>1. /\ Alive /\ writer[w].pc = "get"
      /\ Step(w, DSC, IF main = "destroyed" THEN [f \in Files |-> Garbage] ELSE od, TRUE)
      /\ trouble' = trouble \cup Late(w) \cup Overlap(w)
      /\ UNCHANGED <<file, conf, main, od, handle, boots>>
  BY DEF GetParameters
<1>2. /\ writer'[w].pc = DSC /\ writer'[w].ok
      /\ writer'[w].params = IF main = "destroyed" THEN [f \in Files |-> Garbage] ELSE od
      /\ \A v \in Writers \ {w} : writer'[v] = writer[v]
  BY <1>0, <1>1 DEF Step, DSC
<1>3. main = "destroyed" => w \in Savers
  BY <1>0, <1>1 DEF Active, Writers
<1> QED
  BY <1>1, <1>2, <1>3 DEF Late, Overlap, Writing

\* When it cannot get them, only the main thread's save goes on, with what it has.
LEMMA GetFailsEffect ==
  ASSUME TypeOK, NEW w \in Writers, GetParametersFails(w)
  PROVE  /\ Alive /\ writer[w].pc = "get"
         /\ \/ /\ w = MAIN /\ main = "save"
               /\ writer'[w].pc = DSC /\ writer'[w].params = writer[w].params
               /\ ~writer'[w].ok
            \/ /\ ~(w = MAIN /\ main = "save") /\ writer'[w].pc = "idle"
               /\ w = MAIN => writer'[w].params = writer[w].params /\ ~writer'[w].ok
         /\ \A v \in Writers \ {w} : writer'[v] = writer[v]
         /\ trouble \cup {"get_failed"} \subseteq trouble'
         /\ trouble' \subseteq trouble \cup {"late", "overlap", "get_failed"}
         /\ "overlap" \notin trouble' => \A v \in Writers \ {w} : ~Writing(v)
         /\ UNCHANGED <<file, conf, main, od, handle, boots>>
<1>0. writer \in [Writers -> WriterState]
  BY TypeUnfold
<1>1. /\ Alive /\ writer[w].pc = "get"
      /\ Step(w, IF w = MAIN /\ main = "save" THEN DSC ELSE "idle", writer[w].params, FALSE)
      /\ trouble' = trouble \cup {"get_failed"} \cup Late(w) \cup Overlap(w)
      /\ UNCHANGED <<file, conf, main, od, handle, boots>>
  BY DEF GetParametersFails
<1>2. \A v \in Writers \ {w} : writer'[v] = writer[v]
  BY <1>0, <1>1 DEF Step
<1>3. CASE w = MAIN /\ main = "save"
  <2>1. writer'[w].pc = DSC /\ writer'[w].params = writer[w].params /\ ~writer'[w].ok
    BY <1>0, <1>1, <1>3 DEF Step, DSC
  <2> QED
    BY <1>1, <1>2, <1>3, <2>1 DEF Late, Overlap, Writing
<1>4. CASE ~(w = MAIN /\ main = "save")
  <2>1. /\ writer'[w].pc = "idle"
        /\ w = MAIN => writer'[w].params = writer[w].params /\ ~writer'[w].ok
    BY <1>0, <1>1, <1>4 DEF Step, Idle
  <2> QED
    BY <1>1, <1>2, <1>4, <2>1 DEF Late, Overlap, Writing
<1> QED
  BY <1>3, <1>4

\* A writer writes the next file, or fails to and says so.
LEMMA WriteEffect ==
  ASSUME TypeOK, NEW w \in Writers, WriteFile(w)
  PROVE  LET f == writer[w].pc
         IN /\ Alive /\ f \in Files /\ writer'[w].pc = AfterWrite(f)
            /\ w = MAIN \/ f = DSC => writer'[w].params = writer[w].params
            /\ \A g \in Files \ {f} : file'[g] = file[g]
            /\ \/ /\ file'[f] = [fmt |-> "V1", gen |-> writer[w].params[f]]
                  /\ w = MAIN => writer'[w].ok = writer[w].ok
                  /\ "write_failed" \in trouble' => "write_failed" \in trouble
               \/ /\ file'[f] \in {file[f], [fmt |-> "V1", gen |-> Garbage]}
                  /\ w = MAIN => ~writer'[w].ok
                  /\ "write_failed" \in trouble'
            /\ \A v \in Writers \ {w} : writer'[v] = writer[v]
            /\ trouble \subseteq trouble' /\ trouble' \subseteq trouble \cup {"late", "write_failed"}
            /\ w # MAIN /\ main \in {"final", "destroyed"} => "late" \in trouble'
            /\ UNCHANGED <<conf, main, od, handle, boots>>
<1>0. writer \in [Writers -> WriterState]
  BY TypeUnfold
<1> DEFINE f == writer[w].pc
<1>1. /\ Alive /\ f \in Files
      /\ \/ /\ file' = [file EXCEPT ![f] = [fmt |-> "V1", gen |-> writer[w].params[f]]]
            /\ Step(w, AfterWrite(f), writer[w].params, writer[w].ok)
            /\ trouble' = trouble \cup Late(w)
         \/ /\ \/ file' = file
               \/ file' = [file EXCEPT ![f] = [fmt |-> "V1", gen |-> Garbage]]
            /\ Step(w, AfterWrite(f), writer[w].params, FALSE)
            /\ trouble' = trouble \cup {"write_failed"} \cup Late(w)
      /\ UNCHANGED <<conf, main, od, handle, boots>>
  BY DEF WriteFile
<1>2. ASSUME NEW ok, Step(w, AfterWrite(f), writer[w].params, ok)
      PROVE  /\ writer'[w].pc = AfterWrite(f)
             /\ w = MAIN \/ f = DSC => writer'[w].params = writer[w].params
             /\ w = MAIN => writer'[w].ok = ok
             /\ \A v \in Writers \ {w} : writer'[v] = writer[v]
  BY <1>0, <1>2 DEF Step, Idle, AfterWrite, TEMP
<1>3. w # MAIN => w \in Savers
  BY DEF Writers
<1>4. /\ trouble \subseteq trouble' /\ trouble' \subseteq trouble \cup {"late", "write_failed"}
      /\ w # MAIN /\ main \in {"final", "destroyed"} => "late" \in trouble'
  BY <1>1, <1>3 DEF Late
<1>F. file \in [Files -> [fmt: Formats, gen: Gens]]
  BY TypeUnfold
<1>5. CASE /\ file' = [file EXCEPT ![f] = [fmt |-> "V1", gen |-> writer[w].params[f]]]
           /\ Step(w, AfterWrite(f), writer[w].params, writer[w].ok)
           /\ trouble' = trouble \cup Late(w)
  <2>1. "write_failed" \in trouble' => "write_failed" \in trouble
    BY <1>5 DEF Late
  <2>2. /\ file'[f] = [fmt |-> "V1", gen |-> writer[w].params[f]]
        /\ \A g \in Files \ {f} : file'[g] = file[g]
    BY <1>1, <1>5, <1>F
  <2> QED
    BY <1>1, <1>2, <1>4, <1>5, <2>1, <2>2
<1>6. CASE /\ \/ file' = file
              \/ file' = [file EXCEPT ![f] = [fmt |-> "V1", gen |-> Garbage]]
           /\ Step(w, AfterWrite(f), writer[w].params, FALSE)
           /\ trouble' = trouble \cup {"write_failed"} \cup Late(w)
  <2>1. /\ file'[f] \in {file[f], [fmt |-> "V1", gen |-> Garbage]}
        /\ \A g \in Files \ {f} : file'[g] = file[g]
    BY <1>1, <1>6, <1>F
  <2> QED
    BY <1>1, <1>2, <1>4, <1>6, <2>1
<1> QED
  BY <1>1, <1>5, <1>6

\* A start of the daemon: no writer is at work, and the parameters are those of
\* the files unless one could not be read.
LEMMA BootEffect ==
  ASSUME TypeOK, Boot
  PROVE  /\ ~Alive /\ \A w \in Writers : writer'[w].pc = "idle"
         /\ writer'[MAIN].params = od'
         /\ "read_failed" \notin trouble' => \A f \in Files : od'[f] = file[f].gen
         /\ \A x \in {"cut_short", "write_failed"} : x \in trouble => x \in trouble'
         /\ Unmixed' => Unmixed
         /\ main' \in {"run", "refused"}
         /\ main' = "refused" => \/ "read_failed" \in trouble' \/ conf = "lost"
                                 \/ file[DSC].fmt # file[TEMP].fmt
         /\ UNCHANGED <<file, conf>>
<1>1. PICK bad \in SUBSET Files, hdr \in [Files -> Formats] :
        LET params == [f \in Files |-> IF f \in bad THEN Garbage ELSE file[f].gen]
        IN /\ \A f \in Files \ bad : hdr[f] = file[f].fmt
           /\ main' = IF conf # "lost" /\ Accepted(hdr) THEN "run" ELSE "refused"
           /\ od' = params
           /\ writer' = [w \in Writers |-> Idle(IF w = MAIN THEN params ELSE Params0)]
           /\ trouble' = (trouble \ PerBoot) \cup Earlier
                          \cup (IF bad = {} THEN {} ELSE {"read_failed"})
  BY DEF Boot
<1>2. ~Alive /\ UNCHANGED <<file, conf>>
  BY DEF Boot, Alive
<1>3. \A p : Idle(p).pc = "idle" /\ Idle(p).params = p
  BY DEF Idle
<1>4. \A w \in Writers : writer'[w].pc = "idle"
  BY <1>1, <1>3
<1>5. writer'[MAIN].params = od'
  BY <1>1, <1>3 DEF Writers
<1>6. "read_failed" \notin trouble' => bad = {}
  BY <1>1
<1>7. \A x \in {"cut_short", "write_failed"} : x \in trouble => x \in trouble'
  BY <1>1 DEF PerBoot
<1>10. Unmixed' => Unmixed
  BY <1>1 DEF Unmixed, Earlier, PerBoot
<1>8. "read_failed" \notin trouble' => \A f \in Files : od'[f] = file[f].gen
  BY <1>1, <1>6
<1>9. main' = "refused" => \/ "read_failed" \in trouble' \/ conf = "lost"
                           \/ file[DSC].fmt # file[TEMP].fmt
  BY <1>1, <1>6 DEF Accepted, Files
<1> QED
  BY <1>1, <1>2, <1>4, <1>5, <1>7, <1>8, <1>9, <1>10

\* The process ends, in a crash or at the end of main(): every writer is gone, and
\* one that was writing was cut short.
LEMMA EndEffect ==
  ASSUME TypeOK, Crash \/ Exit
  PROVE  /\ Alive /\ \A w \in Writers : writer'[w].pc = "idle"
         /\ trouble \subseteq trouble' /\ trouble' \subseteq trouble \cup {"cut_short"}
         /\ (\E w \in Writers : Writing(w)) => "cut_short" \in trouble'
         /\ \/ main' = "off"
            \/ main = "destroyed" /\ main' = "exited" /\ writer'[MAIN] = writer[MAIN]
         /\ UNCHANGED <<file, conf, od>>
<1>1. \A p : Idle(p).pc = "idle"
  BY DEF Idle
<1>2. MAIN \in Writers /\ (main = "destroyed" => writer[MAIN].pc = "idle")
  BY DEF TypeOK, Active, Writers
<1>3. /\ \A w \in Writers : writer'[w].pc = "idle"
      /\ \/ main' = "off"
         \/ main = "destroyed" /\ main' = "exited" /\ writer'[MAIN] = writer[MAIN]
  BY <1>1, <1>2 DEF Crash, Exit
<1>4. trouble' = trouble \cup CutShort /\ UNCHANGED <<file, conf, od>> /\ Alive
  BY DEF Crash, Exit, Alive
<1> QED
  BY <1>3, <1>4 DEF CutShort, Writing

\* The main thread starts a save of its own.
LEMMA StartEffect ==
  ASSUME TypeOK, SaveParameters \/ JoinSaver
  PROVE  /\ main = "run" /\ main' \in {"save", "final"}
         /\ writer[MAIN].pc = "idle" /\ writer'[MAIN].pc = "get"
         /\ writer'[MAIN].params = writer[MAIN].params
         /\ \A v \in Writers \ {MAIN} : writer'[v] = writer[v]
         /\ UNCHANGED <<file, conf, od, trouble>>
<1>1. writer \in [Writers -> WriterState] /\ MAIN \in Writers
  BY TypeUnfold DEF Writers
<1>2. main = "run" /\ main' \in {"save", "final"} /\ UNCHANGED <<file, conf, od, trouble>>
      /\ writer' = [writer EXCEPT ![MAIN].pc = "get"]
  BY DEF SaveParameters, JoinSaver
<1>3. writer[MAIN].pc = "idle"
  BY <1>2 DEF TypeOK, Active
<1> QED
  BY <1>1, <1>2, <1>3 DEF WriterState

\* It starts a save thread.
LEMMA CreateEffect ==
  ASSUME TypeOK, NEW s \in Savers, CreateSaveThread(s)
  PROVE  /\ main = "run" /\ writer[s].pc = "idle" /\ writer'[s].pc = "get"
         /\ s \in Writers /\ s # MAIN /\ \A v \in Writers \ {s} : writer'[v] = writer[v]
         /\ trouble \subseteq trouble' /\ trouble' \subseteq trouble \cup {"overwritten"}
         /\ UNCHANGED <<file, conf, main, od>>
<1>1. writer \in [Writers -> WriterState] /\ s \in Writers /\ s # MAIN
  BY TypeUnfold, EepromAssumption DEF Writers
<1> QED
  BY <1>1 DEF CreateSaveThread, Active, WriterState

-----------------------------------------------------------------------------
(* Version 1 files survive; a refusal has a reason.                        *)

\* UpgradeInv is inductive.
LEMMA UpgradeStep ==
  ASSUME TypeOK, UpgradeInv, [Next]_vars
  PROVE  UpgradeInv'
<1>0. /\ file \in [Files -> [fmt: Formats, gen: Gens]] /\ DSC \in Files /\ TEMP \in Files
      /\ DSC # TEMP /\ MAIN \in Writers
  BY TypeUnfold DEF Files, DSC, TEMP, Writers
<1> USE DEF UpgradeInv, RefusalExplained, Alive, Active
<1>1. CASE Boot
  <2>1. file[DSC].fmt # file[TEMP].fmt =>
          trouble' \cap {"cut_short", "write_failed"} # {} /\ \E f \in Files : file[f].fmt = "V0"
    BY <1>0, <1>1, BootEffect DEF Formats, TEMP
  <2> QED
    BY <1>1, <2>1, BootEffect DEF TEMP
<1>2. CASE Crash \/ Exit
  BY <1>0, <1>2, EndEffect DEF Writing, TEMP
<1>3. CASE Learn \/ ConfigOpen \/ ConfigWrite \/ DestroyOd
  BY <1>3 DEF Learn, ConfigOpen, ConfigWrite, DestroyOd
<1>4. CASE SaveParameters \/ JoinSaver
  BY <1>0, <1>4, StartEffect DEF TEMP
<1>5. ASSUME NEW s \in Savers, CreateSaveThread(s) PROVE UpgradeInv'
  BY <1>0, <1>5, CreateEffect DEF TEMP
<1>6. ASSUME NEW w \in Writers, GetParameters(w) PROVE UpgradeInv'
  BY <1>0, <1>6, GetEffect DEF TEMP
<1>7. ASSUME NEW w \in Writers, GetParametersFails(w) PROVE UpgradeInv'
  BY <1>0, <1>7, GetFailsEffect DEF TEMP
<1>8. ASSUME NEW w \in Writers, WriteFile(w) PROVE UpgradeInv'
  <2>0. \/ file'[writer[w].pc] = [fmt |-> "V1", gen |-> writer[w].params[writer[w].pc]]
        \/ "write_failed" \in trouble'
    BY <1>8, WriteEffect
  <2>1. CASE writer[w].pc = DSC
    <3>1. writer'[w].pc = TEMP
      BY <1>8, <2>1, WriteEffect DEF AfterWrite
    <3>2. file'[DSC].fmt = "V1" \/ "write_failed" \in trouble'
      BY <2>0, <2>1
    <3> QED
      BY <1>0, <1>8, <3>1, <3>2, WriteEffect
  <2>2. CASE writer[w].pc = TEMP
    <3>1. writer'[w].pc = "idle"
      BY <1>0, <1>8, <2>2, WriteEffect DEF AfterWrite
    <3>2. file'[DSC] = file[DSC]
      BY <1>0, <1>8, <2>2, WriteEffect
    <3>3. \/ "write_failed" \in trouble'
          \/ file'[DSC].fmt = "V1" /\ file'[TEMP].fmt = "V1"
      BY <1>8, <2>0, <2>2, <3>2, WriteEffect
    <3> QED
      BY <1>0, <1>8, <3>1, <3>2, <3>3, WriteEffect DEF TEMP
  <2> QED
    BY <1>8, <2>1, <2>2, WriteEffect DEF Files
<1>9. CASE UNCHANGED vars
  BY <1>9 DEF vars
<1> QED
  BY <1>1, <1>2, <1>3, <1>4, <1>5, <1>6, <1>7, <1>8, <1>9 DEF Next, MainThread

\* The invariant of an upgrade, whatever number of savers and starts.
THEOREM EepromUpgradeInvariant == Spec => []UpgradeInv
<1>1. Init => UpgradeInv
  BY DEF Init, UpgradeInv, RefusalExplained, Active, Idle, Files, DSC, TEMP
<1>2. TypeOK /\ UpgradeInv /\ [Next]_vars => UpgradeInv'
  BY UpgradeStep
<1> QED
  BY <1>1, <1>2, EepromType, PTL DEF Spec

\* The daemon refuses to start only when a file cannot be read, when it died while
\* it rewrote its configuration, or after an upgrade of version 0 files that was
\* cut short or failed, whatever number of savers and starts.
THEOREM EepromRefusalExplained == Spec => []RefusalExplained
<1>1. UpgradeInv => RefusalExplained
  BY DEF UpgradeInv
<1> QED
  BY <1>1, EepromUpgradeInvariant, PTL

-----------------------------------------------------------------------------
(* The last save of a shutdown.                                            *)

\* FinalInv is inductive.
LEMMA FinalStep ==
  ASSUME TypeOK, FinalInv, [Next]_vars
  PROVE  FinalInv'
<1>0. /\ file \in [Files -> [fmt: Formats, gen: Gens]] /\ DSC \in Files /\ TEMP \in Files
      /\ DSC # TEMP /\ MAIN \in Writers /\ DSC # "idle" /\ TEMP # "idle"
      /\ "get" \notin Files /\ "idle" \notin Files
  BY TypeUnfold DEF Files, DSC, TEMP, Writers
<1>T. writer[MAIN].pc # "idle" => main \in {"save", "final"}
  BY DEF TypeOK, Active
<1> USE DEF FinalInv, Writing, Current
<1>1. CASE Boot
  BY <1>1, BootEffect
<1>2. CASE Crash \/ Exit
  BY <1>0, <1>2, EndEffect
<1>3. CASE Learn \/ ConfigOpen \/ ConfigWrite \/ DestroyOd
  BY <1>3 DEF Learn, ConfigOpen, ConfigWrite, DestroyOd
<1>4. CASE SaveParameters \/ JoinSaver
  BY <1>0, <1>4, StartEffect
<1>5. ASSUME NEW s \in Savers, CreateSaveThread(s) PROVE FinalInv'
  BY <1>0, <1>5, CreateEffect
<1>6. ASSUME NEW w \in Writers, GetParameters(w) PROVE FinalInv'
  BY <1>0, <1>6, <1>T, GetEffect
<1>7. ASSUME NEW w \in Writers, GetParametersFails(w) PROVE FinalInv'
  BY <1>0, <1>7, <1>T, GetFailsEffect
<1>8. ASSUME NEW w \in Writers, WriteFile(w) PROVE FinalInv'
  <2>1. CASE w # MAIN
    BY <1>0, <1>8, <2>1, WriteEffect DEF Alive
  <2>2. CASE w = MAIN
    <3>1. /\ writer'[MAIN].ok /\ "late" \notin trouble' =>
               /\ writer[MAIN].ok /\ "late" \notin trouble
               /\ file'[writer[w].pc] = [fmt |-> "V1", gen |-> writer[w].params[writer[w].pc]]
          /\ writer'[MAIN].params = writer[MAIN].params
          /\ \A g \in Files \ {writer[w].pc} : file'[g] = file[g]
          /\ UNCHANGED <<main, od>>
      BY <1>8, <2>2, WriteEffect
    <3>2. main' = "final" \/ main' \notin {"final", "destroyed", "exited"}
      BY <1>0, <1>8, <1>T, <2>2, <3>1, WriteEffect
    <3>3. CASE writer[w].pc = DSC
      <4>1. writer'[w].pc = TEMP
        BY <1>8, <3>3, WriteEffect DEF AfterWrite
      <4> QED
        BY <1>0, <2>2, <3>1, <3>2, <3>3, <4>1
    <3>4. CASE writer[w].pc = TEMP
      <4>1. writer'[w].pc = "idle"
        BY <1>0, <1>8, <3>4, WriteEffect DEF AfterWrite
      <4> QED
        BY <1>0, <2>2, <3>1, <3>2, <3>4, <4>1
    <3> QED
      BY <1>8, <3>3, <3>4, WriteEffect DEF Files
  <2> QED
    BY <2>1, <2>2
<1>9. CASE UNCHANGED vars
  BY <1>9 DEF vars
<1> QED
  BY <1>1, <1>2, <1>3, <1>4, <1>5, <1>6, <1>7, <1>8, <1>9 DEF Next, MainThread

\* A shutdown whose own writes succeed leaves in both files the parameters the
\* algorithm ended with, unless a save thread escaped the join.
THEOREM EepromFinalParametersStored == Spec => []FinalParametersStored
<1>1. Init => FinalInv
  BY DEF Init, FinalInv
<1>2. TypeOK /\ FinalInv /\ [Next]_vars => FinalInv'
  BY FinalStep
<1>3. TypeOK /\ FinalInv => FinalParametersStored
  <2> SUFFICES ASSUME TypeOK, FinalInv, main \in {"destroyed", "exited"}, writer[MAIN].ok,
                      "late" \notin trouble
               PROVE  file = [f \in Files |-> [fmt |-> "V1", gen |-> od[f]]]
    BY DEF FinalParametersStored
  <2>1. Current(DSC) /\ Current(TEMP)
    BY DEF FinalInv, TypeOK, Active
  <2> QED
    BY <2>1 DEF Current, TypeOK, Files
<1> QED
  BY <1>1, <1>2, <1>3, EepromType, PTL DEF Spec

-----------------------------------------------------------------------------
(* Saves replace older parameters, and a calibration is saved first.       *)

\* Generations are integers: the order of two of them is that of the integers.
LEMMA GenerationTypes ==
  ASSUME TypeOK
  PROVE  /\ od \in [Files -> Int]
         /\ \A w \in Writers : writer[w].params \in [Files -> Int]
         /\ \A f \in Files : file[f].gen \in Int /\ file[f].gen >= -1
         /\ \A f \in Files : od[f] >= -1
BY EepromAssumption DEF TypeOK, Params, Gens, Garbage

\* Who is between its first and its last write: a writer starts to write when it
\* has got the parameters, and says so when it is not the only one.
LEMMA OneWritingStep ==
  ASSUME TypeOK, OneWriting, [Next]_vars
  PROVE  OneWriting'
<1>0. "get" \notin Files /\ "idle" \notin Files /\ MAIN \in Writers
  BY DEF Files, DSC, TEMP, Writers
<1> USE DEF OneWriting, Writing
<1>1. CASE Boot
  BY <1>0, <1>1, BootEffect
<1>2. CASE Crash \/ Exit
  BY <1>0, <1>2, EndEffect
<1>3. CASE Learn \/ ConfigOpen \/ ConfigWrite \/ DestroyOd
  BY <1>3 DEF Learn, ConfigOpen, ConfigWrite, DestroyOd
<1>4. CASE SaveParameters \/ JoinSaver
  BY <1>0, <1>4, StartEffect
<1>5. ASSUME NEW s \in Savers, CreateSaveThread(s) PROVE OneWriting'
  BY <1>0, <1>5, CreateEffect
<1>6. ASSUME NEW w \in Writers, GetParameters(w) PROVE OneWriting'
  BY <1>0, <1>6, GetEffect
<1>7. ASSUME NEW w \in Writers, GetParametersFails(w) PROVE OneWriting'
  BY <1>0, <1>7, GetFailsEffect
<1>8. ASSUME NEW w \in Writers, WriteFile(w) PROVE OneWriting'
  BY <1>0, <1>8, WriteEffect
<1>9. CASE UNCHANGED vars
  BY <1>9 DEF vars
<1> QED
  BY <1>1, <1>2, <1>3, <1>4, <1>5, <1>6, <1>7, <1>8, <1>9 DEF Next, MainThread

\* od_process only makes newer generations, and nothing but od's is written.
LEMMA OdNewestStep ==
  ASSUME TypeOK, OdNewest, [Next]_vars
  PROVE  OdNewest'
<1>0. "get" \notin Files /\ "idle" \notin Files /\ MAIN \in Writers
  BY DEF Files, DSC, TEMP, Writers
<1>T. /\ od \in [Files -> Int]
      /\ \A w \in Writers : writer[w].params \in [Files -> Int]
      /\ \A f \in Files : file[f].gen \in Int /\ file[f].gen >= -1
      /\ \A f \in Files : od[f] >= -1
  BY GenerationTypes
<1>U. writer[MAIN].pc # "idle" => main \in {"save", "final"}
  BY DEF TypeOK, Active
<1> USE DEF OdNewest, Writing, Running
<1>1. CASE Boot
  <2>1. /\ \A w \in Writers : writer'[w].pc = "idle"
        /\ writer'[MAIN].params = od' /\ file' = file
        /\ "read_failed" \notin trouble' => \A f \in Files : od'[f] = file[f].gen
    BY <1>1, BootEffect
  <2>2. \A f \in Files : od'[f] \in Int
    BY <1>1, <1>T DEF Boot, Garbage
  <2> QED
    BY <1>0, <1>T, <2>1, <2>2
<1>2. CASE Crash \/ Exit
  BY <1>0, <1>2, EndEffect
<1>3. CASE Learn
  <2>1. \A f \in Files : od'[f] >= od[f] /\ od'[f] \in Int
    BY <1>3, <1>T DEF Learn, Garbage
  <2>2. main = "run" /\ UNCHANGED <<main, file, writer, trouble>>
    BY <1>3 DEF Learn
  <2> QED
    BY <1>T, <2>1, <2>2
<1>4. CASE ConfigOpen \/ ConfigWrite \/ DestroyOd
  BY <1>4 DEF ConfigOpen, ConfigWrite, DestroyOd
<1>5. CASE SaveParameters \/ JoinSaver
  BY <1>0, <1>5, StartEffect
<1>6. ASSUME NEW s \in Savers, CreateSaveThread(s) PROVE OdNewest'
  BY <1>0, <1>6, CreateEffect
<1>7. ASSUME NEW w \in Writers, GetParameters(w) PROVE OdNewest'
  BY <1>0, <1>7, <1>T, GetEffect
<1>8. ASSUME NEW w \in Writers, GetParametersFails(w) PROVE OdNewest'
  BY <1>0, <1>8, GetFailsEffect
<1>9. ASSUME NEW w \in Writers, WriteFile(w) PROVE OdNewest'
  <2>1. /\ UNCHANGED <<main, od>> /\ writer[w].pc \in Files
        /\ trouble \subseteq trouble'
        /\ \A v \in Writers \ {w} : writer'[v] = writer[v]
        /\ writer'[w].params = writer[w].params \/ (writer'[w].pc = "idle" /\ w # MAIN)
        /\ \A g \in Files : \/ file'[g] = file[g]
                            \/ file'[g] = [fmt |-> "V1", gen |-> writer[w].params[g]]
                            \/ file'[g] = [fmt |-> "V1", gen |-> Garbage]
    BY <1>9, WriteEffect DEF AfterWrite, Files
  <2>2. \A g \in Files : \/ file'[g].gen = file[g].gen
                         \/ file'[g].gen = writer[w].params[g]
                         \/ file'[g].gen = -1
    <3> TAKE g \in Files
    <3>1. CASE file'[g] = [fmt |-> "V1", gen |-> writer[w].params[g]]
      BY <3>1
    <3>2. CASE file'[g] = [fmt |-> "V1", gen |-> Garbage]
      BY <3>2 DEF Garbage
    <3> QED BY <2>1, <3>1, <3>2
  <2> QED
    BY <1>0, <1>T, <2>1, <2>2
<1>10. CASE UNCHANGED vars
  BY <1>10 DEF vars
<1> QED
  BY <1>1, <1>2, <1>3, <1>4, <1>5, <1>6, <1>7, <1>8, <1>9, <1>10 DEF Next, MainThread

\* Without an overlap no other writer gets in the way of the one that is writing,
\* and it got od's parameters after whatever was written before.
LEMMA WriterNewestStep ==
  ASSUME TypeOK, OneWriting, OdNewest, WriterNewest, [Next]_vars
  PROVE  WriterNewest'
<1>0. "get" \notin Files /\ "idle" \notin Files /\ MAIN \in Writers
  BY DEF Files, DSC, TEMP, Writers
<1>T. /\ od \in [Files -> Int]
      /\ \A w \in Writers : writer[w].params \in [Files -> Int]
      /\ \A f \in Files : file[f].gen \in Int /\ file[f].gen >= -1
  BY GenerationTypes
<1>U. writer[MAIN].pc # "idle" => main \in {"save", "final"}
  BY DEF TypeOK, Active
<1> USE DEF WriterNewest, Writing, Running
<1>1. CASE Boot
  BY <1>0, <1>1, BootEffect
<1>2. CASE Crash \/ Exit
  BY <1>0, <1>2, EndEffect
<1>3. CASE Learn \/ ConfigOpen \/ ConfigWrite \/ DestroyOd
  BY <1>3 DEF Learn, ConfigOpen, ConfigWrite, DestroyOd
<1>4. CASE SaveParameters \/ JoinSaver
  BY <1>0, <1>4, StartEffect
<1>5. ASSUME NEW s \in Savers, CreateSaveThread(s) PROVE WriterNewest'
  BY <1>0, <1>5, CreateEffect
<1>6. ASSUME NEW w \in Writers, GetParameters(w) PROVE WriterNewest'
  <2>1. /\ Alive /\ UNCHANGED <<file, main, od>> /\ trouble \subseteq trouble'
        /\ \A v \in Writers \ {w} : writer'[v] = writer[v]
        /\ "overlap" \notin trouble' => \A v \in Writers \ {w} : ~Writing(v)
        /\ main = "destroyed" => "late" \in trouble'
        /\ main # "destroyed" => writer'[w].params = od
    BY <1>6, GetEffect
  <2>2. main \in {"run", "save", "config", "final", "destroyed"}
    BY <2>1 DEF Alive, TypeOK
  <2>3. main # "destroyed" =>
          \A f \in Files : /\ od[f] >= writer[MAIN].params[f]
                           /\ "read_failed" \notin trouble' => od[f] >= file[f].gen
    BY <1>0, <2>1, <2>2 DEF OdNewest
  <2>4. writer'[MAIN].params = writer[MAIN].params \/ w = MAIN
    BY <1>0, <2>1
  <2> QED
    BY <1>0, <1>T, <2>1, <2>2, <2>3, <2>4
<1>7. ASSUME NEW w \in Writers, GetParametersFails(w) PROVE WriterNewest'
  <2>1. /\ trouble \cup {"get_failed"} \subseteq trouble' /\ UNCHANGED <<file, main, od>>
        /\ \A v \in Writers \ {w} : writer'[v] = writer[v]
        /\ "overlap" \notin trouble' => \A v \in Writers \ {w} : ~Writing(v)
        /\ writer'[w].pc = "idle" \/ w = MAIN
        /\ writer'[MAIN].params = writer[MAIN].params
    BY <1>0, <1>7, GetFailsEffect
  <2>2. "overlap" \notin trouble' => \A v \in Writers : writer'[v].pc \in Files => v = MAIN
    BY <1>0, <2>1
  <2>3. \A f \in Files : writer'[MAIN].params[f] >= writer'[MAIN].params[f]
    BY <1>0, <1>T, <2>1
  <2> QED
    BY <2>1, <2>2, <2>3
<1>8. ASSUME NEW w \in Writers, WriteFile(w) PROVE WriterNewest'
  <2>1. /\ UNCHANGED <<main, od>> /\ writer[w].pc \in Files /\ trouble \subseteq trouble'
        /\ \A v \in Writers \ {w} : writer'[v] = writer[v]
        /\ writer'[w].params = writer[w].params \/ (writer'[w].pc = "idle" /\ w # MAIN)
        /\ "write_failed" \notin trouble' =>
             \A g \in Files : \/ file'[g] = file[g]
                             \/ file'[g] = [fmt |-> "V1", gen |-> writer[w].params[g]]
    BY <1>8, WriteEffect DEF AfterWrite, Files
  <2>2. "write_failed" \notin trouble' =>
          \A g \in Files : file'[g].gen = file[g].gen \/ file'[g].gen = writer[w].params[g]
    <3> SUFFICES ASSUME "write_failed" \notin trouble', NEW g \in Files
                 PROVE  file'[g].gen = file[g].gen \/ file'[g].gen = writer[w].params[g]
      OBVIOUS
    <3>1. CASE file'[g] = [fmt |-> "V1", gen |-> writer[w].params[g]]
      BY <3>1
    <3> QED
      BY <2>1, <3>1
  <2>3. "overlap" \notin trouble' => \A v \in Writers \ {w} : writer'[v].pc \notin Files
    BY <2>1 DEF OneWriting
  <2>4. writer'[MAIN].params = writer[MAIN].params
    BY <1>0, <2>1
  <2> QED
    BY <1>0, <1>T, <2>1, <2>2, <2>3, <2>4
<1>9. CASE UNCHANGED vars
  BY <1>9 DEF vars
<1> QED
  BY <1>1, <1>2, <1>3, <1>4, <1>5, <1>6, <1>7, <1>8, <1>9 DEF Next, MainThread

\* What the main thread's save has written stays, or is replaced by newer
\* parameters, until the configuration is rewritten.
LEMMA CalibrationStep ==
  ASSUME TypeOK, OneWriting, WriterNewest, CalibrationInv, [Next]_vars
  PROVE  CalibrationInv'
<1>0. /\ "get" \notin Files /\ "idle" \notin Files /\ MAIN \in Writers
      /\ DSC \in Files /\ TEMP \in Files /\ DSC # TEMP
  BY DEF Files, DSC, TEMP, Writers
<1>T. /\ \A w \in Writers : writer[w].params \in [Files -> Int]
      /\ \A f \in Files : file[f].gen \in Int
  BY GenerationTypes
<1>U. writer[MAIN].pc # "idle" => main \in {"save", "final"}
  BY DEF TypeOK, Active
<1> USE DEF CalibrationInv, Saved
<1>1. CASE Boot
  BY <1>1, BootEffect
<1>2. CASE Crash \/ Exit
  BY <1>2, EndEffect
<1>3. CASE Learn \/ ConfigWrite \/ DestroyOd
  BY <1>3 DEF Learn, ConfigWrite, DestroyOd
<1>4. CASE ConfigOpen
  BY <1>4 DEF ConfigOpen
<1>5. CASE SaveParameters \/ JoinSaver
  BY <1>0, <1>5, StartEffect
<1>6. ASSUME NEW s \in Savers, CreateSaveThread(s) PROVE CalibrationInv'
  BY <1>6, CreateEffect
<1>7. ASSUME NEW w \in Writers, GetParameters(w) PROVE CalibrationInv'
  BY <1>0, <1>7, GetEffect
<1>8. ASSUME NEW w \in Writers, GetParametersFails(w) PROVE CalibrationInv'
  BY <1>0, <1>8, <1>U, GetFailsEffect
<1>9. ASSUME NEW w \in Writers, WriteFile(w) PROVE CalibrationInv'
  <2> SUFFICES ASSUME main \in {"save", "config"}, writer'[MAIN].ok,
                      "overlap" \notin trouble', "write_failed" \notin trouble'
               PROVE  /\ writer'[MAIN].pc # "get" => writer'[MAIN].params = od
                      /\ writer'[MAIN].pc = TEMP => Saved(DSC)'
                      /\ writer'[MAIN].pc = "idle" => Saved(DSC)' /\ Saved(TEMP)'
    BY <1>9, WriteEffect
  <2>0. PICK f \in Files : f = writer[w].pc
    BY <1>9, WriteEffect
  <2>1. /\ trouble \subseteq trouble' /\ writer'[w].pc = AfterWrite(f)
        /\ \A v \in Writers \ {w} : writer'[v] = writer[v]
        /\ file'[f] = [fmt |-> "V1", gen |-> writer[w].params[f]]
        /\ \A g \in Files \ {f} : file'[g] = file[g]
        /\ w = MAIN => writer'[w].params = writer[w].params /\ writer'[w].ok = writer[w].ok
        /\ od' = od
    BY <1>9, <2>0, WriteEffect
  <2>2. writer'[MAIN].params = writer[MAIN].params /\ writer[MAIN].ok
    BY <1>0, <2>1
  <2>3. "overlap" \notin trouble /\ "write_failed" \notin trouble
    BY <2>1
  <2>4. \A g \in Files : writer[w].params[g] >= writer[MAIN].params[g]
    BY <2>0, <2>3 DEF WriterNewest, Running, Writing
  <2>5. writer[MAIN].params = od => Saved(f)'
    <3>1. file'[f].fmt = "V1" /\ file'[f].gen = writer[w].params[f]
      BY <2>1
    <3> QED
      BY <2>1, <2>4, <3>1
  <2>6. CASE w = MAIN
    <3>0. writer[MAIN].params = od
      BY <1>0, <2>0, <2>2, <2>3, <2>6
    <3>1. f = TEMP => Saved(DSC)'
      BY <1>0, <2>0, <2>1, <2>2, <2>3, <2>6
    <3>2. f = DSC => writer'[MAIN].pc = TEMP
      BY <2>1, <2>6 DEF AfterWrite
    <3> QED
      BY <1>0, <2>1, <2>2, <2>5, <2>6, <3>0, <3>1, <3>2 DEF Files
  <2>7. CASE w # MAIN
    <3>1. writer'[MAIN] = writer[MAIN] /\ writer[MAIN].pc \notin Files
      BY <1>0, <2>0, <2>1, <2>3, <2>7 DEF OneWriting, Writing
    <3>2. \A g \in Files \ {f} : Saved(g) => Saved(g)'
      BY <2>1, <2>2
    <3> QED
      BY <1>0, <2>2, <2>3, <2>5, <3>1, <3>2
  <2> QED
    BY <2>6, <2>7
<1>10. CASE UNCHANGED vars
  BY <1>10 DEF vars
<1> QED
  BY <1>1, <1>2, <1>3, <1>4, <1>5, <1>6, <1>7, <1>8, <1>9, <1>10 DEF Next, MainThread

\* The invariant of the saves, for any number of save threads, generations and
\* restarts: who is writing, and in which order generations were got and written.
THEOREM EepromSaveInvariant == Spec => []SaveInv
<1>1. Init => SaveInv
  <2> SUFFICES ASSUME Init PROVE SaveInv
    OBVIOUS
  <2>1. \A w \in Writers : writer[w].pc = "idle"
    BY DEF Init, Idle
  <2> QED
    BY <2>1 DEF Init, SaveInv, OneWriting, OdNewest, WriterNewest, CalibrationInv, Writing,
                Running, Files, DSC, TEMP
<1>2. TypeOK /\ SaveInv /\ [Next]_vars => SaveInv'
  BY OneWritingStep, OdNewestStep, WriterNewestStep, CalibrationStep DEF SaveInv
<1> QED
  BY <1>1, <1>2, EepromType, PTL DEF Spec

\* Without failures, stored parameters are never replaced by older ones as long as
\* no two writers overlap and none outlives the join.
THEOREM EepromNeverOlder == Spec => NeverOlder
<1> DEFINE A == trouble' \cap {"overlap", "late", "get_failed", "read_failed", "write_failed"} = {}
                  => \A f \in Files : file'[f].gen >= file[f].gen
<1>1. TypeOK /\ SaveInv /\ [Next]_vars => [A]_vars
  <2> SUFFICES ASSUME TypeOK, SaveInv, Next,
                      trouble' \cap {"overlap", "late", "get_failed", "read_failed",
                                     "write_failed"} = {},
                      NEW f \in Files
               PROVE  file'[f].gen >= file[f].gen
    OBVIOUS
  <2>1. file[f].gen \in Int
    BY GenerationTypes
  <2>2. ASSUME NEW w \in Writers, WriteFile(w) PROVE file'[f].gen >= file[f].gen
    <3>1. /\ trouble \subseteq trouble' /\ writer[w].pc \in Files
          /\ \/ file'[f] = file[f]
             \/ file'[f] = [fmt |-> "V1", gen |-> writer[w].params[f]]
      BY <2>2, WriteEffect
    <3>2. writer[w].params[f] >= file[f].gen
      BY <3>1 DEF SaveInv, WriterNewest, Writing
    <3>3. CASE file'[f] = [fmt |-> "V1", gen |-> writer[w].params[f]]
      BY <3>2, <3>3
    <3> QED
      BY <2>1, <3>1, <3>3
  <2>3. file' = file \/ \E w \in Writers : WriteFile(w)
    BY DEF Next, MainThread, Boot, Crash, Learn, SaveParameters, ConfigOpen, ConfigWrite,
           JoinSaver, DestroyOd, Exit, CreateSaveThread, GetParameters, GetParametersFails
  <2> QED
    BY <2>1, <2>2, <2>3
<1> QED
  BY <1>1, EepromType, EepromSaveInvariant, PTL DEF Spec, NeverOlder

\* calibrate_first is cleared in the configuration only after what od has, the
\* calibrated parameters, is in both files, if the save got them and wrote them, for
\* any number of save threads, generations and starts.
THEOREM EepromCalibrationSavedFirst == Spec => CalibrationSavedFirst
<1> DEFINE A == conf' = "done" /\ conf # "done"
                /\ writer[MAIN].ok /\ trouble \cap {"overlap", "write_failed"} = {}
                  => \A f \in Files : file[f].fmt = "V1" /\ file[f].gen >= od[f]
<1>1. TypeOK /\ SaveInv /\ [Next]_vars => [A]_vars
  <2> SUFFICES ASSUME TypeOK, SaveInv, Next, conf' = "done", conf # "done",
                      writer[MAIN].ok, trouble \cap {"overlap", "write_failed"} = {}
               PROVE  \A f \in Files : Saved(f)
    BY DEF Saved
  <2>1. main = "config"
    BY DEF Next, MainThread, Boot, Crash, Learn, SaveParameters, ConfigOpen, ConfigWrite,
           JoinSaver, DestroyOd, Exit, CreateSaveThread, GetParameters, GetParametersFails,
           WriteFile
  <2>2. writer[MAIN].pc = "idle"
    BY <2>1 DEF TypeOK, Active
  <2> QED
    BY <2>1, <2>2 DEF SaveInv, CalibrationInv, Files
<1> QED
  BY <1>1, EepromType, EepromSaveInvariant, PTL DEF Spec, CalibrationSavedFirst

\* GenerationInv is inductive: whoever writes has parameters of one generation, and
\* nobody else is at the files until both are written.
LEMMA GenerationStep ==
  ASSUME TypeOK, UpgradeInv, OneWriting, GenerationInv, [Next]_vars
  PROVE  GenerationInv'
<1>0. /\ "get" \notin Files /\ "idle" \notin Files /\ MAIN \in Writers
      /\ DSC \in Files /\ TEMP \in Files /\ DSC # TEMP
  BY DEF Files, DSC, TEMP, Writers
<1>1. CASE Boot
  <2> SUFFICES ASSUME Unmixed' PROVE GenerationInv'
    BY DEF GenerationInv
  <2>1. Unmixed /\ "read_failed" \notin trouble' /\ file' = file /\ writer'[MAIN].params = od'
        /\ \A w \in Writers : writer[w].pc = "idle" /\ writer'[w].pc = "idle"
    BY <1>1, BootEffect DEF UpgradeInv, Unmixed, Active
  <2>2. file[DSC].gen = file[TEMP].gen
    BY <1>0, <2>1 DEF GenerationInv, OneGeneration, Unmixed
  <2>3. Uniform(od')
    BY <1>0, <1>1, <2>1, <2>2, BootEffect DEF Uniform
  <2> QED
    BY <1>0, <2>1, <2>2, <2>3 DEF GenerationInv, OneGeneration, Uniform, Writing
<1>2. CASE Crash \/ Exit
  <2>1. /\ Unmixed' => Unmixed /\ ~\E w \in Writers : Writing(w)
        /\ UNCHANGED <<file, od>> /\ \A w \in Writers : writer'[w].pc = "idle"
        /\ ~Running'
    BY <1>2, EndEffect DEF Unmixed, Running
  <2> QED
    BY <1>0, <2>1 DEF GenerationInv, OneGeneration, Unmixed, Uniform, Writing
<1>3. CASE Learn
  <2>1. Uniform(od) => Uniform(od')
    BY <1>0, <1>3 DEF Learn, Uniform
  <2>2. main' = main /\ UNCHANGED <<file, writer, trouble>>
    BY <1>3 DEF Learn
  <2> QED
    BY <2>1, <2>2 DEF GenerationInv, OneGeneration, Unmixed, Uniform, Writing, Running
<1>4. CASE ConfigOpen \/ ConfigWrite \/ DestroyOd
  <2>1. UNCHANGED <<file, od, writer, trouble>> /\ (Running' => Running)
    BY <1>4 DEF ConfigOpen, ConfigWrite, DestroyOd, Running
  <2> QED
    BY <2>1 DEF GenerationInv, OneGeneration, Unmixed, Uniform, Writing
<1>5. CASE SaveParameters \/ JoinSaver
  BY <1>0, <1>5, StartEffect DEF GenerationInv, OneGeneration, Unmixed, Uniform, Writing, Running
<1>6. ASSUME NEW s \in Savers, CreateSaveThread(s) PROVE GenerationInv'
  <2>1. Unmixed' => Unmixed
    BY <1>6, CreateEffect DEF Unmixed
  <2> QED
    BY <1>0, <1>6, <2>1, CreateEffect
    DEF GenerationInv, OneGeneration, Unmixed, Uniform, Writing, Running
<1>7. ASSUME NEW w \in Writers, GetParameters(w) PROVE GenerationInv'
  <2>1. Unmixed' => Unmixed
    BY <1>7, GetEffect DEF Unmixed
  <2>2. Unmixed' => Uniform(writer'[w].params)
    BY <1>0, <1>7, <2>1, GetEffect DEF GenerationInv, Uniform
  <2> QED
    BY <1>0, <1>7, <2>1, <2>2, GetEffect
    DEF GenerationInv, OneGeneration, Unmixed, Uniform, Writing, Running
<1>8. ASSUME NEW w \in Writers, GetParametersFails(w) PROVE GenerationInv'
  <2>1. Unmixed' => Unmixed
    BY <1>8, GetFailsEffect DEF Unmixed
  <2> QED
    BY <1>0, <1>8, <2>1, GetFailsEffect
    DEF GenerationInv, OneGeneration, Unmixed, Uniform, Writing, Running
<1>9. ASSUME NEW w \in Writers, WriteFile(w) PROVE GenerationInv'
  <2> SUFFICES ASSUME Unmixed' PROVE GenerationInv'
    BY DEF GenerationInv
  <2>1. PICK f \in Files : f = writer[w].pc
    BY <1>9, WriteEffect
  <2>2. /\ Unmixed /\ UNCHANGED <<main, od>> /\ writer'[w].pc = AfterWrite(f)
        /\ w = MAIN \/ f = DSC => writer'[w].params = writer[w].params
        /\ file'[f].gen = writer[w].params[f]
        /\ \A g \in Files \ {f} : file'[g] = file[g]
        /\ \A v \in Writers \ {w} : writer'[v] = writer[v]
    <3>1. /\ UNCHANGED <<main, od>> /\ writer'[w].pc = AfterWrite(f)
          /\ w = MAIN \/ f = DSC => writer'[w].params = writer[w].params
          /\ \A g \in Files \ {f} : file'[g] = file[g]
          /\ \A v \in Writers \ {w} : writer'[v] = writer[v]
          /\ trouble \subseteq trouble'
          /\ \/ file'[f] = [fmt |-> "V1", gen |-> writer[w].params[f]]
             \/ "write_failed" \in trouble'
      BY <1>9, <2>1, WriteEffect
    <3>2. Unmixed /\ "write_failed" \notin trouble'
      BY <3>1 DEF Unmixed
    <3>3. file'[f].gen = writer[w].params[f]
      BY <3>1, <3>2
    <3> QED
      BY <3>1, <3>2, <3>3
  <2>3. Uniform(writer[w].params) /\ \A v \in Writers \ {w} : ~Writing(v)
    BY <2>1, <2>2 DEF GenerationInv, Writing, OneWriting, Unmixed
  <2>4. \A v \in Writers \ {w} : ~Writing(v)'
    BY <2>2, <2>3 DEF Writing
  <2>5. CASE f = DSC
    BY <1>0, <2>2, <2>3, <2>4, <2>5
    DEF GenerationInv, OneGeneration, Uniform, Writing, Running, AfterWrite
  <2>6. CASE f = TEMP
    <3>1. file'[DSC].gen = file'[TEMP].gen
      BY <1>0, <2>1, <2>2, <2>3, <2>6 DEF GenerationInv, Uniform
    <3>2. writer'[w].pc = "idle"
      BY <1>0, <2>2, <2>6 DEF AfterWrite
    <3> QED
      BY <1>0, <2>2, <2>4, <3>1, <3>2 DEF GenerationInv, OneGeneration, Uniform, Writing, Running
  <2> QED
    BY <2>5, <2>6 DEF Files
<1>10. CASE UNCHANGED vars
  BY <1>10 DEF vars, GenerationInv, OneGeneration, Unmixed, Uniform, Writing, Running
<1> QED
  BY <1>1, <1>2, <1>3, <1>4, <1>5, <1>6, <1>7, <1>8, <1>9, <1>10 DEF Next, MainThread

\* The two files hold the parameters of one save unless saves overlapped, were cut
\* short or failed to write, or a file could not be read, in this run of the daemon or
\* an earlier one, for any number of save threads, generations and starts.
THEOREM EepromOneGeneration == Spec => []OneGeneration
<1>1. Init => GenerationInv
  BY DEF Init, GenerationInv, OneGeneration, Uniform, Unmixed, Params0, Idle, Writing, Running,
         Files, DSC, TEMP, Writers
<1>2. TypeOK /\ UpgradeInv /\ SaveInv /\ GenerationInv /\ [Next]_vars => GenerationInv'
  BY GenerationStep DEF SaveInv
<1>3. GenerationInv => OneGeneration
  BY DEF GenerationInv, OneGeneration, Unmixed
<1> QED
  BY <1>1, <1>2, <1>3, EepromType, EepromUpgradeInvariant, EepromSaveInvariant, PTL DEF Spec

=============================================================================
