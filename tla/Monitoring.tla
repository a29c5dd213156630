----------------------------- MODULE Monitoring -----------------------------
(***************************************************************************)
(* The monitoring socket (src/monitoring.c) and the way of a request from  *)
(* a client to the thread that performs it (src/oscillatord.c, src/gnss.c).*)
(* The monitoring thread serves its peers from one epoll loop; an action   *)
(* travels through monitoring->request to the main thread and, when it is  *)
(* for the receiver, through gnss->action to the GNSS thread.              *)
(*                                                                         *)
(* Bytes are abstracted to the two parts of a JSON request: its head,      *)
(* which starts with the opening brace, and its tail, which completes it.  *)
(* A connection is a byte stream: a message sent at once may arrive in two *)
(* pieces, and several may arrive in one.                                  *)
(***************************************************************************)
EXTENDS Integers, Sequences, Functions

CONSTANTS
  Clients,   \* connections that clients open
  Fds,       \* descriptors below MAXFDS that accept may return
  MaxMsgs,   \* bound: requests that the clients send, all together
  Requests   \* the requests that clients make

QUERY        == "NONE"        \* REQUEST_NONE, REQUEST_READ_EEPROM
CALIBRATION  == "CALIBRATION" \* requests that main itself performs
GNSS_COLD    == "GNSS_COLD"   \* the five requests for rxReset
RESET_SERIAL == "RESET_UBLOX_SERIAL"

ASSUME MonitoringAssumption ==
  /\ Requests \subseteq {QUERY, CALIBRATION, GNSS_COLD, RESET_SERIAL}
  /\ MaxMsgs \in Nat

Msgs == [from: Clients, n: Nat, req: Requests]
NoMsg == [from |-> "none", n |-> 0, req |-> QUERY]
NoFd == "no_fd"
WasClosed == "was_closed"
ASSUME NamesApart == "none" \notin Clients /\ {NoFd, WasClosed} \cap Fds = {}

\* monitoring->request is not initialised by monitoring_init: it may name an
\* action nobody asked for.
Uninitialised == {[NoMsg EXCEPT !.req = r] : r \in Requests}

VARIABLES
  client,  \* each connection, seen from its client
  peer,    \* global_state, and what epoll watches the descriptor for
  thread,  \* the monitoring thread: "loop", "dead" (early return), "exited"
  request, \* monitoring->request
  stop,    \* monitoring->stop
  main,    \* the main thread: its loop, the joins of the shutdown, "freed"
  gaction, \* gnss->action
  gthr     \* the GNSS thread: "run", "stopping" (gnss->stop), "exited"

vars == <<client, peer, thread, request, stop, main, gaction, gthr>>

\* History, for the properties: what went wrong on a connection; the answers a
\* client got; its last request that main took.
Marks == {"split", "pipelined", "closed", "send_failed"}

Client0 == [conn |-> "away", fd |-> NoFd, stream |-> << >>, half |-> NoMsg,
            sent |-> 0, answers |-> << >>, taken |-> 0, marks |-> {}]
\* staged: buf_ptr < buf_end.  buf: what recv_buf holds, nothing (the state is
\* WAIT_FOR_MSG), the head of a message (IN_MSG), or a message that parses.
Peer0 == [want |-> "closed", staged |-> FALSE, buf |-> "empty", msg |-> NoMsg]

\* After monitoring_init.  A thread that could not set up epoll has returned.
Init ==
  /\ client = [c \in Clients |-> Client0]
  /\ peer = [f \in Fds |-> Peer0]
  /\ thread \in {"loop", "dead"} /\ request \in Uninitialised /\ stop = FALSE
  /\ main = "loop" /\ gaction = NoMsg /\ gthr = "run"

daemonVars == <<request, stop, main, gaction, gthr>>

-----------------------------------------------------------------------------
(* Clients.  A connection is "queued" until it is accepted, then "up"; the *)
(* client closes it in order or resets it.  Once the monitoring thread has *)
(* returned nobody looks at what they do.                                  *)

Connect(c) ==
  /\ client[c].conn = "away" /\ thread = "loop"
  /\ client' = [client EXCEPT ![c].conn = "queued"]
  /\ UNCHANGED <<peer, thread, daemonVars>>

AtWork(c) == client[c].conn \in {"queued", "up"} /\ thread = "loop"
Outstanding(c) == client[c].sent > Len(client[c].answers)

\* A request, in one piece or its head alone, maybe with an answer still due.
SendRequest(c) ==
  /\ AtWork(c) /\ client[c].half = NoMsg
  /\ SumFunction([d \in Clients |-> client[d].sent]) < MaxMsgs
  /\ \E r \in Requests, whole \in BOOLEAN :
       LET m == [from |-> c, n |-> client[c].sent + 1, req |-> r]
           head == [msg |-> m, part |-> "head"]
           tail == [msg |-> m, part |-> "tail"]
       IN client' = [client EXCEPT
            ![c].stream = IF whole THEN @ \o <<head, tail>> ELSE Append(@, head),
            ![c].half = IF whole THEN NoMsg ELSE m,
            ![c].sent = @ + 1,
            ![c].marks = @ \cup (IF whole THEN {} ELSE {"split"})
                           \cup (IF Outstanding(c) THEN {"pipelined"} ELSE {})]
  /\ UNCHANGED <<peer, thread, daemonVars>>

SendTail(c) ==
  /\ AtWork(c) /\ client[c].half # NoMsg
  /\ client' = [client EXCEPT
       ![c].stream = Append(@, [msg |-> client[c].half, part |-> "tail"]),
       ![c].half = NoMsg]
  /\ UNCHANGED <<peer, thread, daemonVars>>

Close(c) ==
  /\ AtWork(c)
  /\ \E how \in {"closed", "reset"} :
       client' = [client EXCEPT ![c].conn = how, ![c].half = NoMsg,
                                ![c].marks = @ \cup {"closed"}]
  /\ UNCHANGED <<peer, thread, daemonVars>>

-----------------------------------------------------------------------------
(* The monitoring thread.  One action per event of the epoll loop.         *)

\* The connection behind a descriptor.
Owner(f) == CHOOSE c \in Clients : client[c].fd = f
Stream(f) == client[Owner(f)].stream
Watched(f, want) == thread = "loop" /\ peer[f].want = want

\* Fault: the buffer of the last peer on this descriptor is not cleared.
FaultOnPeerConnected(f) == [peer[f] EXCEPT !.want = "R", !.staged = FALSE]

\* on_peer_connected.
OnPeerConnected(f) == [Peer0 EXCEPT !.want = "R"]

Pending == {c \in Clients : client[c].fd = NoFd
                            /\ client[c].conn \in {"queued", "closed", "reset"}}
Free == {f \in Fds : peer[f].want = "closed"}

Accept ==
  /\ thread = "loop"
  /\ \E c \in Pending, f \in Free :
       /\ client' = [client EXCEPT ![c].fd = f,
                       ![c].conn = IF @ = "queued" THEN "up" ELSE @]
       /\ peer' = [peer EXCEPT ![f] = OnPeerConnected(f)]
  /\ UNCHANGED <<thread, daemonVars>>

\* accept fails, or returns a descriptor that is too large: the thread returns.
AcceptFails ==
  /\ thread = "loop" /\ Pending # {}
  /\ thread' = "dead"
  /\ UNCHANGED <<client, peer, daemonVars>>

\* EPOLL_CTL_DEL and close.  (The table keeps what it holds.)
CloseFd(f) ==
  /\ peer' = [peer EXCEPT ![f].want = "closed"]
  /\ client' = [client EXCEPT ![Owner(f)].fd = WasClosed, ![Owner(f)].stream = << >>,
                              ![Owner(f)].marks = {"closed"}]

OnError(f) ==
  /\ thread = "loop" /\ peer[f].want # "closed"
  /\ client[Owner(f)].conn = "reset"
  /\ CloseFd(f)
  /\ UNCHANGED <<thread, daemonVars>>

\* recv returns 0 or an error: only asked for when nothing is staged.
OnDisconnect(f) ==
  /\ Watched(f, "R") /\ ~peer[f].staged /\ Stream(f) = << >>
  /\ client[Owner(f)].conn \in {"closed", "reset"}
  /\ CloseFd(f)
  /\ UNCHANGED <<thread, daemonVars>>

\* The buffer after the bytes of one recv.  Bytes before the first opening
\* brace, and all that follows a complete message, are dropped.
Parsed(p, stream) ==
  LET heads == {i \in DOMAIN stream : stream[i].part = "head"}
      first == CHOOSE i \in heads : \A j \in heads : i <= j
  IN CASE p.buf = "message" -> p
       [] p.buf # "message" /\ heads = {} -> p
       [] OTHER -> [p EXCEPT !.staged = TRUE, !.msg = stream[first].msg,
                             !.buf = IF first < Len(stream) THEN "message" ELSE "head"]

\* on_peer_ready_recv.  With bytes staged it returns before it receives, and
\* level-triggered epoll calls it again.
OnPeerReadyRecv(f) ==
  /\ Watched(f, "R") /\ ~peer[f].staged /\ Stream(f) # << >>
  /\ LET p == Parsed(peer[f], Stream(f)) IN
       peer' = [peer EXCEPT ![f] = IF p.buf = "message" THEN [p EXCEPT !.want = "W"] ELSE p]
  /\ client' = [client EXCEPT ![Owner(f)].stream = << >>]
  /\ UNCHANGED <<thread, daemonVars>>

\* json_handle_request: an action is stored over any pending one.
JsonHandleRequest(m) == request' = IF m.req = QUERY THEN request ELSE m

Cleared(p) == [p EXCEPT !.buf = "empty", !.msg = NoMsg]

\* Fault: buf_end is not reset after an answer.
FaultAnswered(p) == [Cleared(p) EXCEPT !.want = "R"]

\* After an answer the queue is reset and the descriptor watched for reading.
Answered(p) == [Cleared(p) EXCEPT !.want = "R", !.staged = FALSE]

\* on_peer_ready_send: clear the buffer, note the request, send the answer.
OnPeerReadySend(f) ==
  /\ Watched(f, "W") /\ peer[f].buf = "message"   \* otherwise: stays at "W"
  /\ JsonHandleRequest(peer[f].msg)
  /\ \/ /\ peer' = [peer EXCEPT ![f] = Answered(@)]
        /\ client' = [client EXCEPT ![Owner(f)].answers = Append(@, peer[f].msg)]
     \/ /\ peer' = [peer EXCEPT ![f] = Cleared(@)]
        /\ client' = [client EXCEPT ![Owner(f)].marks = @ \cup {"send_failed"}]
  /\ UNCHANGED <<thread, stop, main, gaction, gthr>>

\* The end of a round of the epoll loop.
CheckStop ==
  /\ thread = "loop" /\ stop
  /\ thread' = "exited"
  /\ UNCHANGED <<client, peer, daemonVars>>

-----------------------------------------------------------------------------
(* The main thread and the GNSS thread.                                    *)

\* gnss_set_action lets only the actions for rxReset through.
GnssSetAction(m) == gaction' = IF m.req = GNSS_COLD THEN m ELSE gaction

MarkTaken(m) ==
  client' = [c \in Clients |-> IF m.from = c THEN [client[c] EXCEPT !.taken = m.n]
                                             ELSE client[c]]

\* Fault: the request is not cleared once it is taken.
FaultMonitoringStep ==
  /\ main = "loop" /\ request.req # QUERY
  /\ MarkTaken(request)
  /\ GnssSetAction(request)
  /\ UNCHANGED <<peer, thread, request, stop, main, gthr>>

\* The monitoring step of an iteration of the main loop.
MonitoringStep ==
  /\ main = "loop" /\ request.req # QUERY
  /\ request' = NoMsg
  /\ MarkTaken(request)
  /\ GnssSetAction(request)
  /\ UNCHANGED <<peer, thread, stop, main, gthr>>

\* A round of gnss_thread: publish to monitoring->gnss_info, take the action.
GnssRound ==
  /\ gthr = "run" /\ gaction # NoMsg
  /\ gaction' = NoMsg
  /\ UNCHANGED <<client, peer, thread, request, stop, main, gthr>>

\* It reads stop and the action together, performs the action and returns.
GnssExit ==
  /\ gthr = "stopping"
  /\ gthr' = "exited" /\ gaction' = NoMsg
  /\ UNCHANGED <<client, peer, thread, request, stop, main>>

\* The loop ends; gnss_stop.
StopGnss ==
  /\ main = "loop"
  /\ main' = "join_gnss" /\ gthr' = "stopping"
  /\ UNCHANGED <<client, peer, thread, request, stop, gaction>>

\* Fault: monitoring_stop without waiting for the GNSS thread.
FaultStopMonitoring ==
  /\ main = "join_gnss"
  /\ main' = "join_monitoring" /\ stop' = TRUE
  /\ UNCHANGED <<client, peer, thread, request, gaction, gthr>>

\* Fault: the flag is not raised.
FaultStopFlag ==
  /\ main = "join_gnss" /\ gthr = "exited"
  /\ main' = "join_monitoring"
  /\ UNCHANGED <<client, peer, thread, request, stop, gaction, gthr>>

\* The GNSS thread is joined; monitoring_stop.
StopMonitoring ==
  /\ main = "join_gnss" /\ gthr = "exited"
  /\ main' = "join_monitoring" /\ stop' = TRUE
  /\ UNCHANGED <<client, peer, thread, request, gaction, gthr>>

\* The thread is joined; the listening socket is closed and the structure freed.
FreeMonitoring ==
  /\ main = "join_monitoring" /\ thread \in {"exited", "dead"}
  /\ main' = "freed"
  /\ UNCHANGED <<client, peer, thread, request, stop, gaction, gthr>>

-----------------------------------------------------------------------------

ClientStep == \E c \in Clients : Connect(c) \/ SendRequest(c) \/ SendTail(c) \/ Close(c)
Event(f) == OnError(f) \/ OnDisconnect(f) \/ OnPeerReadyRecv(f) \/ OnPeerReadySend(f)
MonitoringThread == Accept \/ AcceptFails \/ CheckStop \/ \E f \in Fds : Event(f)
Main == MonitoringStep \/ StopGnss \/ StopMonitoring \/ FreeMonitoring
GnssThread == GnssRound \/ GnssExit

Next == ClientStep \/ MonitoringThread \/ Main \/ GnssThread

Spec == Init /\ [][Next]_vars

\* Every round of the epoll loop handles all that is ready and then looks at
\* stop; the GNSS thread gets round to its flag (GNSS_TIMEOUT_MS at the latest).
\* Nothing is assumed of the clients, nor of when the daemon is stopped.
Fairness ==
  /\ WF_vars(Accept \/ AcceptFails) /\ WF_vars(CheckStop)
  /\ \A f \in Fds : WF_vars(Event(f))
  /\ WF_vars(StopMonitoring) /\ WF_vars(FreeMonitoring) /\ WF_vars(GnssExit)

FairSpec == Spec /\ Fairness

-----------------------------------------------------------------------------
(* Properties                                                              *)

Parts == [msg: Msgs, part: {"head", "tail"}]

TypeOK ==
  /\ client \in [Clients ->
                 [conn: {"away", "queued", "up", "closed", "reset"},
                  fd: Fds \cup {NoFd, WasClosed}, stream: Seq(Parts),
                  half: Msgs \cup {NoMsg}, sent: Nat, answers: Seq(Msgs), taken: Nat,
                  marks: SUBSET Marks]]
  /\ peer \in [Fds -> [want: {"closed", "R", "W"}, staged: BOOLEAN,
                       buf: {"empty", "head", "message"}, msg: Msgs \cup {NoMsg}]]
  /\ thread \in {"loop", "dead", "exited"}
  /\ request \in Msgs \cup Uninitialised \cup {NoMsg}
  /\ stop \in BOOLEAN /\ main \in {"loop", "join_gnss", "join_monitoring", "freed"}
  /\ gaction \in Msgs \cup Uninitialised \cup {NoMsg} /\ gthr \in {"run", "stopping", "exited"}

\* A client gets answers to its own requests only, in order and one per request
\* at most, whoever used the descriptor before: on_peer_connected removes "any
\* trace of the old peer on the same fd" (comment above global_state).
AnswersAreYours ==
  \A c \in Clients : \A i \in DOMAIN client[c].answers :
    /\ client[c].answers[i].from = c
    /\ i > 1 => client[c].answers[i - 1].n < client[c].answers[i].n

\* A request waits for the main thread at most once: what main took does not
\* come back, so no action is performed twice.
TakenOnce ==
  \A c \in Clients : request.req # QUERY /\ request.from = c => request.n > client[c].taken

\* The structure is freed only when neither of the two threads that use it (the
\* monitoring thread, and the GNSS thread through gnss_info) can touch it.
FreedUnused == main = "freed" => thread # "loop" /\ gthr = "exited"

\* Excluded from the promise of an answer: the daemon stops or the monitoring
\* thread has returned.
Unserved == thread # "loop" \/ main # "loop"

\* A request sent in one piece, with no answer due, is answered, unless the
\* connection is closed or the answer cannot be sent.
RequestAnswered ==
  \A c \in Clients :
    (Outstanding(c) /\ client[c].marks = {}) ~>
      (~Outstanding(c) \/ client[c].marks # {} \/ Unserved)

\* Once main stops the daemon it gets past both joins; like Fairness, this takes the
\* GNSS thread not to be blocked in the RTCM send (Blocked in Rtcm).
ShutdownCompletes == main # "loop" ~> main = "freed"

=============================================================================
