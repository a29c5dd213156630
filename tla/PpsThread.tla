----------------------------- MODULE PpsThread -----------------------------
(***************************************************************************)
(* The PPS thread (src/ntpshm/ppsthread.c): it waits for the edges that    *)
(* the kernel timestamps, guesses from their distances which of them opens *)
(* a second, names that second after the last fix that the GNSS thread     *)
(* left (ntp_latch in src/gnss.c), and hands the sample to report_hook     *)
(* (src/ntpshm/timehint.c), hence to NTP.  The main thread launches it and *)
(* takes the hook away at shutdown, without a join.                        *)
(*                                                                         *)
(* Times are in milliseconds: all thresholds of the code are.  `now' is    *)
(* the true time, which counts whole seconds where the receiver does; the  *)
(* system clock is off by `skew' and may be stepped once.  The handshake   *)
(* lines of a serial port (TIOCMIWAIT) are not modelled: devicefd is never *)
(* set to one.                                                             *)
(***************************************************************************)
EXTENDS Integers, FiniteSets

CONSTANTS
  Waves,      \* the shapes of the PPS signal: see EdgesOf
  Width,      \* length of a pulse, for the shapes that have one
  FixDelays,  \* from a second to the GNSS thread's latch of that second's fix
  Steps,      \* sizes of a step of the system clock
  FirstSec,   \* bounds: the seconds modelled
  LastSec,
  SpinLimit   \* useless edges in a row before the thread sleeps (10)

\* A fix later than 900 ms is ambiguous to this code, a pulse of 450 ms or
\* more is a square wave to it.  Times are far from 0.
ASSUME PpsAssumption ==
  /\ Waves \subseteq {"single", "pulse", "inverted", "square", "half"}
  /\ Width \in 1 .. 449 /\ FixDelays \subseteq 1 .. 899 /\ Steps \subseteq Int
  /\ FirstSec \in Nat /\ LastSec \in Nat /\ SpinLimit \in Nat \ {0}
  /\ FirstSec > 3 /\ \A s \in Steps : FirstSec * 1000 + s > 3000

VARIABLES
  wave, delay, \* the shape of the signal, and when fixes are latched
  now, due,    \* the true time; what is still to come in this second
  skew,        \* system clock minus true time
  kernel,      \* timestamps of the last edges, by edge: 1 assert, 0 clear
  fresh,       \* an edge came since time_pps_fetch was called
  fix_in,      \* thread_context->fix_in
  hook,        \* report_hook is not NULL
  main,        \* the main thread
  pc,          \* control point of gpsd_ppsmonitor
  unchanged, state_last, pulse, last_fixtime, \* its variables
  cur,         \* the edge it works on, and the one before
  out,         \* pps_out, with what it was made of
  streak       \* history: good seconds in a row that the thread kept up with,
               \* -1 if this second is spoilt

world  == <<wave, delay, now, due, skew>>
shared == <<fix_in, hook, main>>
locals == <<unchanged, state_last, pulse, last_fixtime>>
vars   == <<wave, delay, now, due, skew, kernel, fresh, fix_in, hook, main, pc,
            unchanged, state_last, pulse, last_fixtime, cur, out, streak>>

\* A timestamp and, for the properties, the true time it was taken at.
Never == [at |-> 0, true |-> 0]
Off(s) == s.at - s.true

NoFix  == [real |-> 0, stamp |-> Never]
NoEdge == [edge |-> 0, this |-> Never, prev |-> Never, missed |-> FALSE]
NoOut  == [real |-> 0, true |-> 0, age |-> 0, stepped |-> FALSE, missed |-> FALSE]

\* The edges of second n: offset in the second and direction.  "single" is a
\* driver that never fills the clear timestamp, "half" a wave of 0.5 Hz.
EdgesOf(n) ==
  CASE wave = "single"   -> {<<0, 1>>}
    [] wave = "pulse"    -> {<<0, 1>>, <<Width, 0>>}
    [] wave = "inverted" -> {<<0, 0>>, <<Width, 1>>}
    [] wave = "square"   -> {<<0, 1>>, <<500, 0>>}
    [] wave = "half"     -> {<<0, n % 2>>}

\* What a second may bring: its edges or none, its fix or none.
Seconds(n) ==
  LET edges == {[at |-> n * 1000 + e[1], edge |-> e[2]] : e \in EdgesOf(n)}
      fixes == {[at |-> n * 1000 + delay, edge |-> -1]}
  IN {E \cup F : E \in {{}, edges}, F \in {{}, fixes}}

Init ==
  /\ wave \in Waves /\ delay \in FixDelays
  /\ now = FirstSec * 1000 - 1 /\ due = {} /\ skew = 0
  /\ kernel = [e \in 0 .. 1 |-> Never] /\ fresh = FALSE /\ fix_in = NoFix
  /\ hook = FALSE /\ main = "launch"
  /\ pc = "none" /\ unchanged = 0 /\ state_last = 0
  /\ pulse = [e \in 0 .. 1 |-> Never] /\ last_fixtime = NoFix /\ cur = NoEdge
  /\ out = NoOut /\ streak = -1

-----------------------------------------------------------------------------
(* Time: the receiver, the kernel and the GNSS thread.                     *)

Sec == now \div 1000

\* Good so far: the thread waits when something happens.
KeepsUp == pc = "wait" /\ ~fresh

\* After its end nothing that happens matters to the thread.
Running == pc \notin {"exited", "crashed"}

\* A second begins.
NewSecond ==
  /\ Running /\ due = {} /\ Sec < LastSec
  /\ due' \in Seconds(Sec + 1)
  /\ now' = (Sec + 1) * 1000
  /\ streak' = IF KeepsUp /\ fix_in.real = Sec THEN streak ELSE 0
  /\ UNCHANGED <<wave, delay, skew, kernel, fresh, shared, pc, locals, cur, out>>

Next1(e) == e \in due /\ \A f \in due : e.at <= f.at

\* The kernel timestamps an edge and wakes a thread in time_pps_fetch.
Edge(e) ==
  /\ Running /\ Next1(e) /\ e.edge >= 0
  /\ now' = e.at /\ due' = due \ {e}
  /\ kernel' = [kernel EXCEPT ![e.edge] = [at |-> e.at + skew, true |-> e.at]]
  /\ fresh' = (pc = "wait")
  /\ streak' = IF KeepsUp THEN streak ELSE -1
  /\ UNCHANGED <<wave, delay, skew, shared, pc, locals, cur, out>>

\* ntp_latch: an epoch with a fix reaches pps_thread_fixin.  A second counts
\* as good when its fix came, and so did its pulse.
Latch(e) ==
  /\ Running /\ Next1(e) /\ e.edge = -1
  /\ now' = e.at /\ due' = due \ {e}
  /\ fix_in' = [real |-> e.at \div 1000, stamp |-> [at |-> e.at + skew, true |-> e.at]]
  /\ streak' = IF KeepsUp /\ \E k \in 0 .. 1 : kernel[k].true = (e.at \div 1000) * 1000
               THEN IF streak < 3 THEN streak + 1 ELSE 3 ELSE -1
  /\ UNCHANGED <<wave, delay, skew, kernel, fresh, hook, main, pc, locals, cur, out>>

\* Somebody sets the system clock.
StepClock(s) ==
  /\ Running /\ skew = 0
  /\ skew' = s
  /\ streak' = -1
  /\ UNCHANGED <<wave, delay, now, due, kernel, fresh, shared, pc, locals, cur, out>>

-----------------------------------------------------------------------------
(* The main thread.                                                        *)

\* init_kernel_pps finds a device that can wait for an edge, or it does not.
InitKernelPps == {"start", "start_nowait"}

\* ntpshm_link_activate, pps_thread_activate: the hook is set and the thread is
\* created; if that fails main waits for ever for the thread to take its copy
\* of the context.
Activate ==
  /\ main = "launch"
  /\ hook' = TRUE
  /\ main' = "handshake"
  /\ pc' \in InitKernelPps \cup {"none"}
  /\ UNCHANGED <<world, kernel, fresh, fix_in, locals, cur, out, streak>>

\* ntpshm_link_deactivate: the hook goes, and the link to the segment, which
\* report_hook and ntpshm_put test for themselves.
Deactivate ==
  /\ main = "up"
  /\ hook' = FALSE
  /\ main' = "down"
  /\ UNCHANGED <<world, kernel, fresh, fix_in, pc, locals, cur, out, streak>>

-----------------------------------------------------------------------------
(* gpsd_ppsmonitor.  Of the edge and the fix that a round works on, cur and *)
(* last_fixtime, nothing is kept for the next one.                          *)

env == <<world, kernel, shared>>

\* The thread copies its context and says so, which ends the wait of main.
\* With no way to wait for an edge it dies in its first round.
Start ==
  /\ pc \in {"start", "start_nowait"}
  /\ pc' = IF pc = "start" THEN "top" ELSE "exited"
  /\ main' = "up"
  /\ UNCHANGED <<world, kernel, fix_in, hook, fresh, locals, cur, out, streak>>

\* The loop condition, and a pause after too many useless edges.
Top ==
  /\ pc = "top"
  /\ fresh' = FALSE
  /\ IF ~hook
     THEN pc' = "exited" /\ UNCHANGED unchanged
     ELSE /\ unchanged' = (unchanged + 1) % SpinLimit
          /\ pc' = IF unchanged' = 0 THEN "sleep" ELSE "wait"
  /\ UNCHANGED <<env, state_last, pulse, last_fixtime, cur, out, streak>>

Sleep ==
  /\ pc = "sleep"
  /\ pc' = "wait" /\ fresh' = FALSE
  /\ UNCHANGED <<env, locals, cur, out, streak>>

\* time_pps_fetch: the last edge, and the last of the other direction.
Fetch ==
  /\ pc = "wait" /\ fresh
  /\ LET e == IF kernel[1].at > kernel[0].at THEN 1 ELSE 0
     IN cur' = [edge |-> e, this |-> kernel[e],
                prev |-> IF e = 1 /\ kernel[0] = Never THEN kernel[1] ELSE kernel[1 - e],
                missed |-> kernel[1 - e] \notin {Never, pulse[1 - e]}]
  /\ pc' = "grab" /\ fresh' = FALSE
  /\ UNCHANGED <<env, locals, out, streak>>

\* Fault: the call waits for an edge without a limit.
FaultFetchTimeout == FALSE /\ UNCHANGED vars

\* Three seconds without an edge, or a signal: the loop continues.
FetchTimeout ==
  /\ pc = "wait"
  /\ pc' = "top" /\ fresh' = FALSE /\ streak' = -1
  /\ UNCHANGED <<env, locals, cur, out>>

Within(x, low, high) == low <= x /\ x < high
Inside(x, low, high) == low < x /\ x < high

PlausibleCycle(cycle) ==
  Inside(cycle, 180, 220) \/ Inside(cycle, 900, 1100) \/ Inside(cycle, 1800, 2200)

\* Fault: a trailing edge of a pulse is taken as well.
FaultLeadingEdge(edge, cycle, duration) ==
  \/ Within(cycle, 180, 201) /\ duration < 100
  \/ Within(cycle, 900, 1100)
  \/ Within(cycle, 1800, 2200) /\ Within(duration, 990, 1100)

\* The edges that open a second: of a 5 Hz signal, of a 1 Hz pulse (invisible,
\* square or proper), of a 0.5 Hz square wave.
LeadingEdge(edge, cycle, duration) ==
  \/ Within(cycle, 180, 201) /\ duration < 100
  \/ /\ Within(cycle, 900, 1100)
     /\ \/ duration = 0
        \/ Within(duration, 450, 555) /\ edge = 1
        \/ duration >= 555
  \/ Within(cycle, 1800, 2200) /\ Within(duration, 990, 1100)

\* Fault: a delay of a second and more is refused.
FaultCurrentFixShort(d) == 0 <= d /\ d < 950

\* Neither "system clock went backwards" nor "no current GPS seconds": the code
\* tests 2 < delay.tv_sec and, one second after the fix, for more than 100 ms.
CurrentFix(d) == 0 <= d /\ ~(3000 <= d \/ Inside(d, 1100, 2000))

\* Stages two to four, up to the first look at the hook, for edge c and fix f.
Classify(c, f) ==
  LET cycle   == c.this.at - pulse[c.edge].at
      visible == c.edge # state_last
      short   == ~visible /\ PlausibleCycle(cycle)     \* "invisible pulse"
      strange == ~visible /\ ~short /\ unchanged # 0
      length  == IF short THEN 0 ELSE c.this.at - c.prev.at
      good    == /\ ~strange /\ LeadingEdge(c.edge, cycle, length)
                 /\ f.real # 0 /\ CurrentFix(c.this.at - f.stamp.at)
  IN /\ unchanged' = IF strange THEN unchanged ELSE 0
     /\ state_last' = c.edge
     /\ pulse' = [pulse EXCEPT ![c.edge] = c.this, ![1 - c.edge] = c.prev]
     /\ pc' = IF ~good THEN "top" ELSE IF hook THEN "call" ELSE "report"
     /\ cur' = IF good THEN [c EXCEPT !.prev = pulse[c.edge]] ELSE NoEdge
     /\ last_fixtime' = IF good THEN f ELSE NoFix

\* "quick, grab a copy of last fixtime before it changes"
Grab ==
  /\ pc = "grab"
  /\ Classify(cur, fix_in)
  /\ UNCHANGED <<env, fresh, out, streak>>

\* Any other error is logged and returns 0 like a success: an edge at time 0,
\* of which no distance to another edge is positive.
FetchError ==
  /\ pc = "wait"
  /\ Classify(NoEdge, NoFix)
  /\ fresh' = FALSE /\ streak' = -1
  /\ UNCHANGED <<env, out>>

\* The sample: the second after that of the last fix.
Sample ==
  [real    |-> last_fixtime.real + 1,
   true    |-> cur.this.true,
   missed  |-> cur.missed,
   age     |-> cur.this.true - last_fixtime.stamp.true,
   stepped |-> Cardinality({Off(cur.this), Off(cur.prev), Off(pulse[1 - cur.edge]),
                            Off(last_fixtime.stamp)}) > 1]

\* The call itself reads the hook again: NULL by now is a crash.
CallHook ==
  /\ pc = "call"
  /\ pc' = IF hook THEN "report" ELSE "crashed"
  /\ cur' = IF hook THEN cur ELSE NoEdge
  /\ UNCHANGED <<env, fresh, locals, out, streak>>

\* report_hook: ntpshm_put (module NtpShm) if the segment is still linked.
\* Then pps_out, in either case.
Report ==
  /\ pc = "report"
  /\ out' = Sample
  /\ cur' = NoEdge /\ last_fixtime' = NoFix
  /\ pc' = "top"
  /\ UNCHANGED <<env, fresh, unchanged, state_last, pulse, streak>>

-----------------------------------------------------------------------------

Thread == Start \/ Top \/ Sleep \/ Fetch \/ FetchTimeout \/ Grab \/ CallHook \/ Report
World == \/ NewSecond \/ \E e \in due : Edge(e) \/ Latch(e)
         \/ \E s \in Steps : StepClock(s)
Main == Activate \/ Deactivate

Next == Thread \/ FetchError \/ World \/ Main

Spec == Init /\ [][Next]_vars

\* The thread is scheduled, and time_pps_fetch gives up after three seconds.
FairSpec == Spec /\ WF_vars(Thread)

-----------------------------------------------------------------------------
(* Properties                                                              *)

Points == {"none", "start", "start_nowait", "top", "sleep", "wait", "grab",
           "call", "report", "exited", "crashed"}
Stamps == [at: Int, true: Int]

TypeOK ==
  /\ wave \in Waves /\ delay \in FixDelays /\ now \in Nat /\ skew \in Steps \cup {0}
  /\ due \subseteq [at: Nat, edge: -1 .. 1]
  /\ kernel \in [0 .. 1 -> Stamps] /\ pulse \in [0 .. 1 -> Stamps]
  /\ fresh \in BOOLEAN /\ hook \in BOOLEAN
  /\ fix_in \in [real: Nat, stamp: Stamps] /\ last_fixtime \in [real: Nat, stamp: Stamps]
  /\ main \in {"launch", "handshake", "up", "down"} /\ pc \in Points
  /\ unchanged \in 0 .. SpinLimit - 1 /\ state_last \in 0 .. 1
  /\ cur \in [edge: 0 .. 1, this: Stamps, prev: Stamps, missed: BOOLEAN]
  /\ out \in [real: Nat, true: Int, age: Int, stepped: BOOLEAN, missed: BOOLEAN]
  /\ streak \in -1 .. 3

RightSecond == out.real * 1000 = out.true

\* NTP is told the right second, and the edge that opens it, whatever the order
\* in which edges, fixes and the thread's own steps come and whichever of them
\* are lost: except across a step of the clock, with a fix that is two seconds
\* old or older, and when the thread was not there to see the leading edge, for
\* then the trailing one has not changed the state and passes for an invisible
\* pulse.
SecondRight ==
  out = NoOut \/ RightSecond \/ out.stepped \/ out.missed \/ out.age >= 2000

\* A receiver that works is reported: when pulse and fix came for two seconds,
\* the thread kept up and the clock was not stepped, the pulse after them gives
\* a sample, whatever happened before (failed fetches, pauses, lost edges).  Only
\* an inverted pulse of more than 445 ms does not: by the distance of its edges
\* it is a square wave, of the wrong direction.
GoodPulseReported ==
  streak = 3 /\ KeepsUp /\ hook /\ fix_in.real = Sec /\ (wave = "inverted" => Width <= 445)
    => out.true \div 1000 = Sec

\* Taking the hook away ends the thread, though nobody wakes it.
ThreadEnds == (main = "down") ~> pc \in {"exited", "crashed"}

=============================================================================
