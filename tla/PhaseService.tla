---------------------------- MODULE PhaseService ----------------------------
(***************************************************************************)
(* What the phasemeter promises the rest of the daemon, without threads or *)
(* timestamps (the interface of src/phasemeter.h).  A publication is       *)
(* a status and a phase error; a call of get_phase_error waits, and        *)
(* returns what is published at the moment of its return, both fields of   *)
(* the same publication.  After phasemeter_stop there is at most one more  *)
(* publication, after the end of the service none, and nothing is freed    *)
(* before that end.                                                        *)
(***************************************************************************)
EXTENDS Integers

VARIABLES
  shown,  \* the last publication
  got,    \* what the last call returned
  call,   \* the call in progress
  stop,   \* phasemeter_stop was called
  spent,  \* stop was noticed: no publication any more
  over,   \* the service has ended
  freed   \* and its structure is gone

vars == <<shown, got, call, stop, spent, over, freed>>

Publications == [status: {"INIT", "BOTH", "MISSING"}, phase_error: Int]

Init ==
  /\ shown \in Publications /\ shown.status = "INIT" /\ got = shown
  /\ call = "none" /\ stop = FALSE /\ spent = FALSE /\ over = FALSE /\ freed = FALSE

\* A publication without both pulses leaves the phase error as it was.  A call
\* that waits is woken, one that does not is not waited for.
Publish ==
  /\ ~spent /\ ~over
  /\ shown' \in Publications /\ shown'.status # "INIT"
  /\ shown'.status = "MISSING" => shown'.phase_error = shown.phase_error
  /\ call' = IF call = "waiting" THEN "woken" ELSE call
  /\ spent' = stop
  /\ over' \in {FALSE, stop}
  /\ UNCHANGED <<got, stop, freed>>

\* The service notices stop before its first publication, or ends there, for
\* want of its timestamps.
Start ==
  /\ shown.status = "INIT" /\ ~over
  /\ spent' = stop
  /\ over' \in BOOLEAN
  /\ UNCHANGED <<shown, got, call, stop, freed>>

End ==
  /\ spent /\ ~over
  /\ over' = TRUE
  /\ UNCHANGED <<shown, got, call, stop, spent, freed>>

Call ==
  /\ call = "none" /\ ~stop
  /\ call' = "waiting"
  /\ UNCHANGED <<shown, got, stop, spent, over, freed>>

\* A condition variable may wake its waiter by itself.
Wake ==
  /\ call = "waiting"
  /\ call' = "woken"
  /\ UNCHANGED <<shown, got, stop, spent, over, freed>>

Return ==
  /\ call = "woken"
  /\ got' = shown
  /\ call' = "none"
  /\ UNCHANGED <<shown, stop, spent, over, freed>>

Stop ==
  /\ call = "none" /\ ~stop
  /\ stop' = TRUE
  /\ UNCHANGED <<shown, got, call, spent, over, freed>>

Free ==
  /\ stop /\ over /\ ~freed
  /\ freed' = TRUE
  /\ UNCHANGED <<shown, got, call, stop, spent, over>>

Next == Publish \/ Start \/ End \/ Call \/ Wake \/ Return \/ Stop \/ Free

Spec == Init /\ [][Next]_vars

=============================================================================
