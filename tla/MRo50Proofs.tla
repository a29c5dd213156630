----------------------------- MODULE MRo50Proofs -----------------------------
(***************************************************************************)
(* Safety of the mRO50 driver for every width of the coarse control and    *)
(* any number of late, cut or refused answers: the readings that reach the *)
(* algorithm are the oscillator's own, and a request of a client moves the *)
(* coarse control by one.                                                  *)
(***************************************************************************)
EXTENDS MRo50, TLAPS

\* What is left of a status answer is thrown away before the next command, so a
\* whole status heard alone answers the status command, and leaves the line empty
\* until both controls are read.
LineInv ==
  /\ pc # "clean" => \A p \in Parts : pending # <<Answer("status", p)>>
  /\ pc \in {"coarse", "fine", "process"} => pending = << >>
  /\ pc \in {"fine", "process"} => coarseOf = "coarse"
  /\ pc = "process" => fineOf = "fine"

\* From the reading of the coarse control to the end of the round the driver
\* knows its value, unless the algorithm moves it; a request starts from there.
ControlInv ==
  /\ pc \in {"fine", "process", "apply"} => ~adjusted
  /\ pc \in {"fine", "process", "apply", "request", "applyRequest"} /\ ~adjusted
       => coarse_ctrl = coarse
  /\ pc = "applyRequest" =>
       setpoint \in {(coarse_ctrl + 1) % Width, (coarse_ctrl + Width - 1) % Width}

-----------------------------------------------------------------------------
(* Lemmas about exchanges and the unsigned arithmetic of a request         *)

\* What an exchange leaves is nothing, or one answer to its own command.
LEMMA MissedIs ==
  ASSUME NEW c \in Commands, NEW own \in Fates
  PROVE  /\ Missed(c, own) \in Pendings
         /\ c # "status" => \A p \in Parts : Missed(c, own) # <<Answer("status", p)>>
         /\ own \in {"prompt", "refused", "unsent"} => Missed(c, own) = << >>
<1>1. CASE own = "late"
  <2>1. Missed(c, own) = <<Answer(c, "whole")>>
    BY <1>1 DEF Missed
  <2> QED BY <1>1, <2>1 DEF Pendings, Parts, Answer
<1>2. CASE own = "cut"
  <2>1. Missed(c, own) = <<Answer(c, "tail")>>
    BY <1>2 DEF Missed
  <2> QED BY <1>2, <2>1 DEF Pendings, Parts, Answer
<1>3. CASE own \in {"prompt", "refused", "unsent"}
  <2>1. Missed(c, own) = << >>
    BY <1>3 DEF Missed
  <2> QED BY <2>1 DEF Pendings
<1> QED BY <1>1, <1>2, <1>3 DEF Fates

\* On an empty line only a prompt answer is good, and it is the command's own.
LEMMA EmptyLine ==
  ASSUME pending = << >>, NEW c \in Commands, NEW own \in Fates, Good(Heard(c, own))
  PROVE  own = "prompt" /\ Heard(c, own) = <<Answer(c, "whole")>>
<1>1. own # "unsent" /\ own # "late"
  BY DEF Good, Heard
<1>2. ASSUME NEW x PROVE Append(pending, x) = <<x>> /\ Len(<<x>>) = 1 /\ <<x>>[1] = x
  OBVIOUS
<1>3. own # "cut"
  <2> SUFFICES ASSUME own = "cut" PROVE FALSE
    OBVIOUS
  <2>1. Heard(c, own) = <<Answer(c, "head")>>
    BY <1>2 DEF Heard
  <2> QED BY <2>1 DEF Good, Answer
<1>4. own # "refused"
  <2> SUFFICES ASSUME own = "refused" PROVE FALSE
    OBVIOUS
  <2>1. Heard(c, own) = <<Answer(c, "refused")>>
    BY <1>2 DEF Heard
  <2> QED BY <2>1 DEF Good, Answer
<1>5. own = "prompt"
  BY <1>1, <1>3, <1>4 DEF Fates
<1>6. Heard(c, own) = Append(pending, Answer(c, "whole"))
  BY <1>5 DEF Heard
<1> QED BY <1>2, <1>5, <1>6

\* The number taken from a single answer is of its command.
LEMMA TakenAlone ==
  ASSUME NEW c \in Commands, c # "write"
  PROVE  Taken(<<Answer(c, "whole")>>).cmd = c
<1> DEFINE h == <<Answer(c, "whole")>>
<1>1. DOMAIN h = {1} /\ h[1].cmd = c
  BY DEF Answer
<1>2. Numbers(h) = {1}
  BY <1>1 DEF Numbers
<1>3. (CHOOSE i \in Numbers(h) : \A j \in Numbers(h) : i <= j) = 1
  BY <1>2
<1> QED BY <1>1, <1>3 DEF Taken

\* A number that parses was taken from an answer to some command.
LEMMA HeardCommands ==
  ASSUME pending \in Pendings, NEW c \in Commands, NEW own \in Fates,
         Parses(Heard(c, own))
  PROVE  Taken(Heard(c, own)).cmd \in Commands
<1> DEFINE h == Heard(c, own)
<1>1. \A x \in DOMAIN pending : x \in {1, 2} /\ pending[x].cmd \in Commands
  BY DEF Pendings, Answer
<1>2. \A x \in DOMAIN h : x \in {1, 2} /\ h[x].cmd \in Commands
  <2>1. CASE own = "unsent"
    BY <2>1 DEF Heard
  <2>2. CASE own = "late"
    BY <1>1, <2>2 DEF Heard
  <2>3. ASSUME NEW q \in Parts, h = Append(pending, Answer(c, q))
        PROVE  \A x \in DOMAIN h : x \in {1, 2} /\ h[x].cmd \in Commands
    <3>1. CASE pending = << >>
      <4>1. h = <<Answer(c, q)>>
        BY <2>3, <3>1
      <4> HIDE DEF h
      <4> QED BY <4>1 DEF Answer
    <3>2. ASSUME NEW d \in Commands, NEW p \in Parts, pending = <<Answer(d, p)>>
          PROVE  \A x \in DOMAIN h : x \in {1, 2} /\ h[x].cmd \in Commands
      <4>1. Len(h) = 2 /\ DOMAIN h = 1 .. 2 /\ h[1] = Answer(d, p) /\ h[2] = Answer(c, q)
        BY <2>3, <3>2
      <4>2. h[1].cmd = d /\ h[2].cmd = c
        BY <4>1 DEF Answer
      <4> HIDE DEF h
      <4> QED BY <4>1, <4>2
    <3> QED BY <3>1, <3>2 DEF Pendings
  <2>4. CASE own = "cut"
    <3>1. h = Append(pending, Answer(c, "head"))
      BY <2>4 DEF Heard
    <3> QED BY <2>3, <3>1 DEF Parts
  <2>5. CASE own = "refused"
    <3>1. h = Append(pending, Answer(c, "refused"))
      BY <2>5 DEF Heard
    <3> QED BY <2>3, <3>1 DEF Parts
  <2>6. CASE own = "prompt"
    <3>1. h = Append(pending, Answer(c, "whole"))
      BY <2>6 DEF Heard
    <3> QED BY <2>3, <3>1 DEF Parts
  <2> QED BY <2>1, <2>2, <2>4, <2>5, <2>6 DEF Fates
<1>3. \E i \in Numbers(h) : \A j \in Numbers(h) : i <= j
  <2>1. Numbers(h) # {}
    BY DEF Parses
  <2>2. Numbers(h) \subseteq {1, 2}
    BY <1>2 DEF Numbers
  <2> HIDE DEF h
  <2>3. CASE 1 \in Numbers(h)
    BY <2>2, <2>3
  <2>4. CASE 1 \notin Numbers(h)
    BY <2>1, <2>2, <2>4
  <2> QED BY <2>3, <2>4
<1> QED BY <1>2, <1>3 DEF Taken, Numbers

\* The status that get_attributes accepts was alone on the line.
LEMMA StatusAlone ==
  ASSUME pending \in Pendings, \A p \in Parts : pending # <<Answer("status", p)>>,
         NEW own \in Fates, Heard("status", own) = <<Answer("status", "whole")>>
  PROVE  own = "prompt"
<1>1. own # "unsent"
  BY DEF Heard
<1>2. own # "late"
  BY DEF Heard, Parts
<1>3. ASSUME NEW q \in Parts, Heard("status", own) = Append(pending, Answer("status", q))
      PROVE  q = "whole"
  <2>1. CASE pending = << >>
    <3>1. Append(pending, Answer("status", q)) = <<Answer("status", q)>>
      BY <2>1
    <3> QED BY <1>3, <3>1 DEF Answer
  <2>2. ASSUME NEW c \in Commands, NEW p \in Parts, pending = <<Answer(c, p)>> PROVE FALSE
    <3>1. Len(Append(pending, Answer("status", q))) = 2
      BY <2>2
    <3>2. Len(<<Answer("status", "whole")>>) = 1
      OBVIOUS
    <3> QED BY <1>3, <3>1, <3>2
  <2> QED BY <2>1, <2>2 DEF Pendings
<1>4. own # "cut" /\ own # "refused"
  BY <1>3 DEF Heard, Parts
<1> QED BY <1>1, <1>2, <1>4 DEF Fates

\* One up or one down, unsigned: the neighbour, or the other end.
LEMMA Neighbours ==
  ASSUME NEW v \in 0 .. Width - 1
  PROVE  /\ (v + 1) % Width = IF v = Width - 1 THEN 0 ELSE v + 1
         /\ (v + Width - 1) % Width = IF v = 0 THEN Width - 1 ELSE v - 1
<1>a. Width \in Nat /\ Width >= 2 /\ v \in Nat /\ v <= Width - 1
  BY MRo50Assumption
<1>1. ASSUME NEW n \in Nat, n < Width PROVE n % Width = n
  BY <1>a, <1>1
<1>2. ASSUME NEW n \in Nat, n < Width PROVE (n + Width) % Width = n
  BY <1>a, <1>2
<1>3. (v + 1) % Width = IF v = Width - 1 THEN 0 ELSE v + 1
  <2>1. CASE v = Width - 1
    BY <1>a, <1>2, <2>1
  <2>2. CASE v # Width - 1
    BY <1>a, <1>1, <2>2
  <2> QED BY <2>1, <2>2
<1>4. (v + Width - 1) % Width = IF v = 0 THEN Width - 1 ELSE v - 1
  <2>1. CASE v = 0
    BY <1>a, <1>1, <2>1
  <2>2. CASE v # 0
    <3>1. v - 1 \in Nat /\ v - 1 < Width /\ v + Width - 1 = (v - 1) + Width
      BY <1>a, <2>2
    <3> QED BY <1>2, <2>2, <3>1
  <2> QED BY <2>1, <2>2
<1> QED BY <1>3, <1>4

-----------------------------------------------------------------------------
(* The theorems                                                            *)

\* Type correctness: in particular at most one answer is ever pending.
THEOREM MRo50Type == Spec => []TypeOK
<1>a. Width \in Nat /\ Width >= 2 /\ MaxFaults \in Nat /\ MaxMoves \in Nat
  BY MRo50Assumption
<1>b. ASSUME TypeOK, Working \/ Failing PROVE faults' \in 0 .. MaxFaults
  BY <1>a, <1>b DEF TypeOK, Working, Failing
<1>c. ASSUME NEW own, Fate(own) PROVE Working \/ Failing
  BY <1>c DEF Fate
<1>1. Init => TypeOK
  <2> SUFFICES ASSUME Init PROVE TypeOK
    OBVIOUS
  <2>1. coarse \in 0 .. Width - 1 /\ coarse_ctrl \in 0 .. Width - 1 /\ setpoint \in 0 .. Width
        /\ moves \in 0 .. MaxMoves /\ faults \in 0 .. MaxFaults
    BY <1>a DEF Init
  <2>2. pending \in Pendings
    BY DEF Init, Pendings
  <2> QED BY <2>1, <2>2 DEF Init, TypeOK, Commands
<1>2. TypeOK /\ [Next]_vars => TypeOK'
  <2> SUFFICES ASSUME TypeOK, [Next]_vars PROVE TypeOK'
    OBVIOUS
  <2>a. ASSUME NEW c \in Commands, NEW own \in Fates, Fate(own), pending' = Missed(c, own)
        PROVE  /\ pending' \in Pendings
               /\ faults' \in 0 .. MaxFaults
    BY <1>b, <1>c, <2>a, MissedIs
  <2>b. {"A", "B", "status", "coarse", "fine", "write"} \subseteq Commands
    BY DEF Commands
  <2>1. CASE Reset
    <3>1. faults' \in 0 .. MaxFaults
      BY <1>b, <2>1 DEF Reset
    <3> QED BY <2>1, <3>1 DEF Reset, TypeOK, values, Commands
  <2>2. ASSUME NEW c \in {"A", "B"}, ReadParameter(c) PROVE TypeOK'
    <3>1. PICK own \in Fates : Fate(own) /\ pending' = Missed(c, own)
      BY <2>2 DEF ReadParameter
    <3>2. pc' \in {"clean", "B", "status"}
      BY <2>2 DEF ReadParameter
    <3>3. /\ pending' \in Pendings
          /\ faults' \in 0 .. MaxFaults
      BY <2>a, <2>b, <3>1
    <3> QED BY <2>2, <3>2, <3>3 DEF ReadParameter, TypeOK, values, Commands
  <2>3. CASE CleanSerial
    <3>1. faults' \in 0 .. MaxFaults
      BY <1>b, <2>3 DEF CleanSerial
    <3>2. /\ pending' \in Pendings
          /\ open' \in BOOLEAN
      <4>1. "newline" \in Commands /\ "whole" \in Parts
        BY DEF Commands, Parts
      <4>2. <<Answer("newline", "whole")>> \in Pendings /\ << >> \in Pendings
        BY <4>1 DEF Pendings
      <4> QED BY <2>3, <4>2 DEF CleanSerial
    <3> QED BY <2>3, <3>1, <3>2 DEF CleanSerial, TypeOK, values, Commands
  <2>4. CASE ReadStatus
    <3>1. PICK own \in Fates : Fate(own) /\ pending' = Missed("status", own)
      BY <2>4 DEF ReadStatus
    <3>2. pc' \in {"coarse", "clean"}
      BY <2>4 DEF ReadStatus
    <3>3. /\ pending' \in Pendings
          /\ faults' \in 0 .. MaxFaults
      BY <2>a, <2>b, <3>1
    <3> QED BY <2>4, <3>2, <3>3 DEF ReadStatus, TypeOK, values, Commands
  <2>5. CASE TemperatureUnknown
    <3>1. faults' \in 0 .. MaxFaults
      BY <1>b, <2>5 DEF TemperatureUnknown
    <3> QED BY <2>5, <3>1 DEF TemperatureUnknown, TypeOK, values
  <2>6. CASE ReadCoarse
    <3>1. PICK own \in Fates :
            /\ Fate(own) /\ pending' = Missed("coarse", own)
            /\ IF Good(Heard("coarse", own)) /\ Parses(Heard("coarse", own))
               THEN coarseOf' = Taken(Heard("coarse", own)).cmd /\ coarse_ctrl' = coarse
                    /\ pc' = "fine"
               ELSE UNCHANGED <<coarseOf, coarse_ctrl>> /\ pc' \in {"status", "clean"}
      BY <2>6 DEF ReadCoarse
    <3>2. /\ pending' \in Pendings
          /\ faults' \in 0 .. MaxFaults
      BY <2>a, <2>b, <3>1
    <3>3. coarseOf' \in Commands
      BY <3>1, <2>b, HeardCommands DEF TypeOK
    <3> QED BY <2>6, <3>1, <3>2, <3>3 DEF ReadCoarse, TypeOK, Commands
  <2>7. CASE ReadFine
    <3>1. PICK own \in Fates :
            /\ Fate(own) /\ pending' = Missed("fine", own)
            /\ IF Good(Heard("fine", own)) /\ Parses(Heard("fine", own))
               THEN fineOf' = Taken(Heard("fine", own)).cmd /\ pc' = "process"
               ELSE UNCHANGED fineOf /\ pc' \in {"status", "clean"}
      BY <2>7 DEF ReadFine
    <3>2. /\ pending' \in Pendings
          /\ faults' \in 0 .. MaxFaults
      BY <2>a, <2>b, <3>1
    <3>3. fineOf' \in Commands
      BY <3>1, <2>b, HeardCommands DEF TypeOK
    <3> QED BY <2>7, <3>1, <3>2, <3>3 DEF ReadFine, TypeOK, Commands
  <2>8. CASE Process
    <3>1. setpoint' \in 0 .. Width /\ moves' \in 0 .. MaxMoves
      BY <1>a, <2>8 DEF Process, TypeOK, Move
    <3> QED BY <2>8, <3>1 DEF Process, TypeOK
  <2>9. CASE CoarseRequest
    <3>1. setpoint' \in 0 .. Width
      <4>1. /\ (coarse_ctrl + 1) % Width \in 0 .. Width - 1
            /\ (coarse_ctrl + Width - 1) % Width \in 0 .. Width - 1
        BY <1>a, Neighbours DEF TypeOK
      <4> QED BY <1>a, <2>9, <4>1 DEF CoarseRequest
    <3>2. moves' \in 0 .. MaxMoves
      BY <1>a, <2>9 DEF CoarseRequest, TypeOK, Move
    <3> QED BY <2>9, <3>1, <3>2 DEF CoarseRequest, TypeOK
  <2>10. CASE NoRequest
    BY <2>10 DEF NoRequest, TypeOK, values, Commands
  <2>11. CASE ApplyOutput
    <3>1. PICK own \in Fates :
            /\ Fate(own) /\ pending' = Missed("write", own)
            /\ coarse' = IF setpoint = Width \/ own \in {"refused", "unsent"}
                         THEN coarse ELSE setpoint
      BY <2>11 DEF ApplyOutput
    <3>2. /\ pending' \in Pendings
          /\ faults' \in 0 .. MaxFaults
      BY <2>a, <2>b, <3>1
    <3>3. coarse' \in 0 .. Width - 1
      BY <1>a, <3>1 DEF TypeOK
    <3>4. adjusted' \in BOOLEAN
      BY <2>11 DEF ApplyOutput, TypeOK
    <3> QED BY <2>11, <3>2, <3>3, <3>4 DEF ApplyOutput, TypeOK, Commands
  <2>12. CASE UNCHANGED vars
    BY <2>12 DEF vars, TypeOK
  <2> QED BY <2>1, <2>2, <2>3, <2>4, <2>5, <2>6, <2>7, <2>8, <2>9, <2>10, <2>11, <2>12 DEF Next
<1> QED BY <1>1, <1>2, PTL DEF Spec

\* LineInv is inductive: the status command is the barrier between what is left
\* of an exchange and the readings.
THEOREM MRo50Line == Spec => []LineInv
<1>1. Init => LineInv
  BY DEF Init, LineInv, Answer
<1>2. TypeOK /\ LineInv /\ [Next]_vars => LineInv'
  <2> SUFFICES ASSUME TypeOK, LineInv, [Next]_vars PROVE LineInv'
    OBVIOUS
  <2>1. CASE Reset
    BY <2>1 DEF Reset, LineInv, values
  <2>2. ASSUME NEW c \in {"A", "B"}, ReadParameter(c) PROVE LineInv'
    <3>1. PICK own \in Fates : pending' = Missed(c, own)
      BY <2>2 DEF ReadParameter
    <3>2. pc' \in {"clean", "B", "status"}
      BY <2>2 DEF ReadParameter
    <3> QED BY <3>1, <3>2, MissedIs DEF LineInv, Commands
  <2>3. CASE CleanSerial
    BY <2>3 DEF CleanSerial, LineInv, Answer
  <2>4. CASE ReadStatus
    <3>1. PICK own \in Fates :
            /\ pending' = Missed("status", own)
            /\ pc' = IF /\ Good(Heard("status", own))
                        /\ Heard("status", own) = <<Answer("status", "whole")>>
                     THEN "coarse" ELSE "clean"
      BY <2>4 DEF ReadStatus
    <3>2. CASE pc' = "coarse"
      <4>1. Heard("status", own) = <<Answer("status", "whole")>>
        BY <3>1, <3>2
      <4>2. own = "prompt"
        BY <2>4, <4>1, StatusAlone DEF ReadStatus, LineInv, TypeOK, Pendings
      <4>3. pending' = << >>
        BY <3>1, <4>2, MissedIs DEF Commands
      <4> QED BY <3>2, <4>3 DEF LineInv
    <3>3. CASE pc' = "clean"
      BY <3>3 DEF LineInv
    <3> QED BY <3>1, <3>2, <3>3
  <2>5. CASE TemperatureUnknown
    BY <2>5 DEF TemperatureUnknown, LineInv, values
  <2>6. CASE ReadCoarse
    <3>1. PICK own \in Fates :
            /\ pending' = Missed("coarse", own)
            /\ IF Good(Heard("coarse", own)) /\ Parses(Heard("coarse", own))
               THEN coarseOf' = Taken(Heard("coarse", own)).cmd /\ pc' = "fine"
               ELSE pc' \in {"status", "clean"}
      BY <2>6 DEF ReadCoarse
    <3>2. CASE pc' = "fine"
      <4>1. own = "prompt" /\ Heard("coarse", own) = <<Answer("coarse", "whole")>>
        BY <2>6, <3>1, <3>2, EmptyLine DEF ReadCoarse, LineInv, Commands
      <4>2. pending' = << >> /\ coarseOf' = "coarse"
        BY <3>1, <3>2, <4>1, MissedIs, TakenAlone DEF Commands
      <4> QED BY <3>2, <4>2 DEF LineInv
    <3>3. CASE pc' \in {"status", "clean"}
      BY <3>1, <3>3, MissedIs DEF LineInv, Commands
    <3> QED BY <3>1, <3>2, <3>3
  <2>7. CASE ReadFine
    <3>1. PICK own \in Fates :
            /\ pending' = Missed("fine", own)
            /\ IF Good(Heard("fine", own)) /\ Parses(Heard("fine", own))
               THEN fineOf' = Taken(Heard("fine", own)).cmd /\ pc' = "process"
               ELSE pc' \in {"status", "clean"}
      BY <2>7 DEF ReadFine
    <3>2. CASE pc' = "process"
      <4>1. own = "prompt" /\ Heard("fine", own) = <<Answer("fine", "whole")>>
        BY <2>7, <3>1, <3>2, EmptyLine DEF ReadFine, LineInv, Commands
      <4>2. pending' = << >> /\ fineOf' = "fine"
        BY <3>1, <3>2, <4>1, MissedIs, TakenAlone DEF Commands
      <4> QED BY <2>7, <3>2, <4>2 DEF ReadFine, LineInv
    <3>3. CASE pc' \in {"status", "clean"}
      BY <3>1, <3>3, MissedIs DEF LineInv, Commands
    <3> QED BY <3>1, <3>2, <3>3
  <2>8. CASE Process \/ CoarseRequest \/ NoRequest
    BY <2>8 DEF Process, CoarseRequest, NoRequest, LineInv, values
  <2>9. CASE ApplyOutput
    <3>1. PICK own \in Fates : pending' = Missed("write", own)
      BY <2>9 DEF ApplyOutput
    <3>2. pc' \in {"request", "status"}
      BY <2>9 DEF ApplyOutput
    <3> QED BY <3>1, <3>2, MissedIs DEF LineInv, Commands
  <2>10. CASE UNCHANGED vars
    BY <2>10 DEF vars, LineInv
  <2> QED BY <2>1, <2>2, <2>3, <2>4, <2>5, <2>6, <2>7, <2>8, <2>9, <2>10 DEF Next
<1> QED BY <1>1, <1>2, MRo50Type, PTL DEF Spec

\* The algorithm never takes another command's answer for one of its readings,
\* however many answers were late, cut or refused.
THEOREM MRo50ReadingsAreOwn == Spec => []ReadingsAreOwn
<1>1. LineInv => ReadingsAreOwn
  BY DEF LineInv, ReadingsAreOwn
<1> QED BY <1>1, MRo50Line, PTL

\* A request moves the coarse control by one, for every width of the control.
THEOREM MRo50CoarseByOne == Spec => CoarseByOne
<1> DEFINE ByOne == pc = "applyRequest" /\ coarse' # coarse /\ ~adjusted =>
              coarse' \in {coarse + 1, coarse - 1} \/ {coarse, coarse'} = {0, Width - 1}
<1>1. Init => ControlInv
  BY DEF Init, ControlInv
<1>2. TypeOK /\ ControlInv /\ [Next]_vars => ControlInv'
  <2> SUFFICES ASSUME TypeOK, ControlInv, [Next]_vars PROVE ControlInv'
    OBVIOUS
  <2>1. CASE Reset \/ ReadParameter("A") \/ ReadParameter("B") \/ CleanSerial \/ ReadStatus
             \/ TemperatureUnknown \/ NoRequest
    <3>1. pc' \notin {"fine", "process", "apply", "request", "applyRequest"}
      BY <2>1 DEF Reset, ReadParameter, CleanSerial, ReadStatus, TemperatureUnknown, NoRequest
    <3> QED BY <3>1 DEF ControlInv
  <2>2. CASE ReadCoarse
    <3>1. /\ pc' \in {"fine", "status", "clean"}
          /\ pc' = "fine" => coarse_ctrl' = coarse
          /\ coarse' = coarse /\ adjusted' = FALSE
      BY <2>2 DEF ReadCoarse
    <3> QED BY <3>1 DEF ControlInv
  <2>3. CASE ReadFine
    <3>1. pc = "fine" /\ pc' \in {"process", "status", "clean"}
          /\ UNCHANGED <<coarse, coarse_ctrl, adjusted>>
      BY <2>3 DEF ReadFine
    <3> QED BY <3>1 DEF ControlInv
  <2>4. CASE Process
    BY <2>4 DEF Process, ControlInv
  <2>5. CASE CoarseRequest
    BY <2>5 DEF CoarseRequest, ControlInv
  <2>6. CASE ApplyOutput
    <3>1. CASE pc = "apply"
      <4>1. pc' = "request" /\ coarse_ctrl' = coarse_ctrl
        BY <2>6, <3>1 DEF ApplyOutput
      <4>2. setpoint = Width => coarse' = coarse
        BY <2>6 DEF ApplyOutput
      <4>3. setpoint # Width => adjusted'
        BY <2>6, <3>1 DEF ApplyOutput
      <4> QED BY <3>1, <4>1, <4>2, <4>3 DEF ControlInv
    <3>2. CASE pc = "applyRequest"
      <4>1. pc' = "status"
        BY <2>6, <3>2 DEF ApplyOutput
      <4> QED BY <4>1 DEF ControlInv
    <3> QED BY <2>6, <3>1, <3>2 DEF ApplyOutput
  <2>7. CASE UNCHANGED vars
    BY <2>7 DEF vars, ControlInv
  <2> QED BY <2>1, <2>2, <2>3, <2>4, <2>5, <2>6, <2>7 DEF Next
<1>3. TypeOK /\ ControlInv /\ [Next]_vars => [ByOne]_vars
  <2> SUFFICES ASSUME TypeOK, ControlInv, Next, pc = "applyRequest", coarse' # coarse, ~adjusted
               PROVE  coarse' \in {coarse + 1, coarse - 1} \/ {coarse, coarse'} = {0, Width - 1}
    OBVIOUS
  <2>1. ApplyOutput
    BY DEF Next, Reset, ReadParameter, CleanSerial, ReadStatus, TemperatureUnknown, NoRequest,
       ReadCoarse, ReadFine, Process, CoarseRequest
  <2>2. coarse' = setpoint
    BY <2>1 DEF ApplyOutput
  <2>3. setpoint \in {(coarse + 1) % Width, (coarse + Width - 1) % Width}
    BY DEF ControlInv
  <2>4. coarse \in 0 .. Width - 1
    BY DEF TypeOK
  <2>5. /\ (coarse + 1) % Width = IF coarse = Width - 1 THEN 0 ELSE coarse + 1
        /\ (coarse + Width - 1) % Width = IF coarse = 0 THEN Width - 1 ELSE coarse - 1
    BY <2>4, Neighbours
  <2> QED BY <2>2, <2>3, <2>5
<1> QED BY <1>1, <1>2, <1>3, MRo50Type, PTL DEF Spec, CoarseByOne

=============================================================================
