-------------------------------- MODULE Rtcm --------------------------------
(***************************************************************************)
(* RTCM frames for an NTRIP client (src/gnss.c): rtcm_accept_thread_fn     *)
(* accepts connections on a Unix socket, gnss_thread forwards the frames   *)
(* of the receiver to the last one, and gnss_stop ends both threads.  They *)
(* share struct gnss, under mutex_data, and the descriptor table of the    *)
(* process, under nothing: a descriptor that one thread closes is given    *)
(* to the next connection, of RTCM or of another part of the daemon.       *)
(*                                                                         *)
(* The accept thread is created before mutex_data is initialised, and the  *)
(* GNSS thread frees struct gnss when it ends, before gnss_stop and the    *)
(* accept thread have done with it: what they find there then is still     *)
(* intact, or overwritten, or the process crashes.                         *)
(***************************************************************************)
EXTENDS Naturals

CONSTANTS
  Clients,  \* of the RTCM socket; each connects once
  Fds       \* descriptors that are free at the start

ASSUME RtcmAssumption == Fds \subseteq Nat /\ {"none", "other"} \cap Clients = {}

None == "none"    \* a descriptor that is free
Other == "other"  \* or in use elsewhere in the daemon: a monitoring client
NoFd == 100       \* -1
ASSUME NoFdFree == NoFd \notin Fds

VARIABLES
  client,          \* state of each client
  owner,           \* the connection of each descriptor
  listening,       \* rtcm_listen_fd is open
  rtcm_client_fd,
  running,         \* rtcm_accept_running
  ready,           \* mutex_data is initialised
  freed,           \* struct gnss was freed
  apc, client_fd,  \* control point of the accept thread, its locals
  old_fd,
  gpc, cfd,        \* control point of the GNSS thread, its local
  sending,         \* the connection that its send() goes to
  stop,            \* gnss->stop
  main,            \* control point of the main thread
  early,           \* history: the mutex was used before it was initialised
  replaced         \* history: the accept thread replaced cfd since it was copied

shared == <<rtcm_client_fd, running, ready, freed, stop>>
accept == <<apc, client_fd, old_fd, early>>
gnss   == <<gpc, cfd, sending>>
vars   == <<client, owner, listening, rtcm_client_fd, running, ready, freed, apc, client_fd,
            old_fd, gpc, cfd, sending, stop, main, early, replaced>>

\* gnss_init has created the accept thread, or could not create it or its
\* socket: rtcm_enabled is true in any case.
Init ==
  /\ client = [c \in Clients |-> "away"]
  /\ owner = [f \in Fds |-> None]
  /\ rtcm_client_fd = NoFd /\ ready = FALSE /\ freed = FALSE
  /\ \/ listening = TRUE /\ running = TRUE /\ apc = "loop"
     \/ listening = FALSE /\ running = FALSE /\ apc = "never"
  /\ client_fd = NoFd /\ old_fd = NoFd
  /\ gpc = "new" /\ cfd = NoFd /\ sending = None
  /\ stop = FALSE /\ main = "init"
  /\ early = FALSE /\ replaced = FALSE

Closed(f) == owner' = IF f \in Fds THEN [owner EXCEPT ![f] = None] ELSE owner

-----------------------------------------------------------------------------
(* Clients, and the rest of the daemon                                     *)

\* A client reads what it gets, stops reading, reads again, goes away, perhaps
\* before it is accepted.
ClientStep(c) ==
  /\ \/ client[c] = "away" /\ listening /\ client' = [client EXCEPT ![c] = "waiting"]
     \/ client[c] = "waiting" /\ client' = [client EXCEPT ![c] = "quit"]
     \/ client[c] = "served" /\ client' = [client EXCEPT ![c] = "stalled"]
     \/ client[c] = "stalled" /\ client' = [client EXCEPT ![c] = "served"]
     \/ client[c] \in {"served", "stalled"} /\ client' = [client EXCEPT ![c] = "left"]
  /\ UNCHANGED <<owner, listening, shared, accept, gnss, main, replaced>>

OtherOpen(f) ==
  /\ owner[f] = None /\ Other \notin {owner[g] : g \in Fds}
  /\ owner' = [owner EXCEPT ![f] = Other]
  /\ UNCHANGED <<client, listening, shared, accept, gnss, main, replaced>>

OtherClose(f) ==
  /\ owner[f] = Other
  /\ Closed(f)
  /\ UNCHANGED <<client, listening, shared, accept, gnss, main, replaced>>

-----------------------------------------------------------------------------
(* rtcm_accept_thread_fn                                                   *)

Crashed == main' = "crashed" /\ apc' = "dead" /\ gpc' = "dead"

\* What was freed is used again.
Crash ==
  /\ freed
  /\ apc \in {"loop", "swap"} \/ main \in {"joingnss", "close", "join", "clear"}
  /\ Crashed
  /\ UNCHANGED <<client, owner, listening, shared, client_fd, old_fd, early, cfd, sending,
                 replaced>>

\* The loop's condition; accept() fails at once if the socket was shut down.
AcceptEnds ==
  /\ apc = "loop" /\ (~running \/ ~listening)
  /\ apc' = "ended"
  /\ UNCHANGED <<client, owner, listening, shared, client_fd, old_fd, early, gnss, main,
                 replaced>>

Accept(c, f) ==
  /\ apc = "loop" /\ running /\ listening
  /\ client[c] \in {"waiting", "quit"} /\ owner[f] = None
  /\ client' = [client EXCEPT ![c] = IF @ = "waiting" THEN "served" ELSE "left"]
  /\ owner' = [owner EXCEPT ![f] = c]
  /\ client_fd' = f
  /\ apc' = "swap"
  /\ UNCHANGED <<listening, shared, old_fd, early, gnss, main, replaced>>

\* Fault: the descriptor of the last client is forgotten.
FaultSwap ==
  /\ apc = "swap"
  /\ old_fd' = NoFd /\ rtcm_client_fd' = client_fd
  /\ replaced' = (replaced \/ rtcm_client_fd = cfd)
  /\ apc' = "close"
  /\ early' = (early \/ ~ready)
  /\ UNCHANGED <<client, owner, listening, running, ready, freed, stop, client_fd, gnss,
                 main>>

\* Under the mutex; one that is not initialised may never be obtained.
Swap ==
  /\ apc = "swap"
  /\ \/ /\ old_fd' = rtcm_client_fd /\ rtcm_client_fd' = client_fd
        /\ replaced' = (replaced \/ rtcm_client_fd = cfd)
        /\ apc' = "close"
     \/ /\ ~ready /\ apc' = "stuck"
        /\ UNCHANGED <<old_fd, rtcm_client_fd, replaced>>
  /\ early' = (early \/ ~ready)
  /\ UNCHANGED <<client, owner, listening, running, ready, freed, stop, client_fd, gnss,
                 main>>

CloseOld ==
  /\ apc = "close"
  /\ Closed(old_fd)
  /\ apc' = "loop" /\ client_fd' = NoFd /\ old_fd' = NoFd
  /\ UNCHANGED <<client, listening, shared, early, gnss, main, replaced>>

AcceptThread == \/ AcceptEnds \/ Swap \/ CloseOld
                \/ \E c \in Clients, f \in Fds : Accept(c, f)

-----------------------------------------------------------------------------
(* gnss_thread                                                             *)

\* A round without a frame, or without a client, only looks at stop; on its way
\* out the thread frees struct gnss.
GnssExit ==
  /\ gpc = "idle" /\ stop
  /\ gpc' = "ended" /\ freed' = TRUE
  /\ UNCHANGED <<client, owner, listening, rtcm_client_fd, running, ready, stop, accept,
                 cfd, sending, main, replaced>>

\* A frame: the descriptor is copied under the mutex.
CopyFd ==
  /\ gpc = "idle" /\ ~stop /\ rtcm_client_fd # NoFd
  /\ cfd' = rtcm_client_fd /\ replaced' = FALSE
  /\ gpc' = "send"
  /\ UNCHANGED <<client, owner, listening, shared, accept, sending, main>>

\* send() finds the connection that the descriptor stands for now.
SendStart ==
  /\ gpc = "send"
  /\ sending' = owner[cfd]
  /\ gpc' = "sending"
  /\ UNCHANGED <<client, owner, listening, shared, accept, cfd, main, replaced>>

\* It fails without a connection, or without a peer; it blocks while the client
\* does not read.
SendFails == sending = None \/ (sending \in Clients /\ client[sending] = "left")

\* Fault: a frame that went out in part counts as a failure.
FaultSendDone ==
  /\ gpc = "sending"
  /\ gpc' = IF SendFails \/ (sending \in Clients /\ client[sending] = "stalled")
            THEN "error" ELSE "idle"
  /\ sending' = None
  /\ cfd' = IF gpc' = "error" THEN cfd ELSE NoFd
  /\ UNCHANGED <<client, owner, listening, shared, accept, main, replaced>>

SendDone ==
  /\ gpc = "sending"
  /\ sending \in Clients => client[sending] # "stalled"
  /\ gpc' = IF SendFails THEN "error" ELSE "idle"
  /\ sending' = None
  /\ cfd' = IF SendFails THEN cfd ELSE NoFd
  /\ UNCHANGED <<client, owner, listening, shared, accept, main, replaced>>

\* Fault: the descriptor is closed without a look at rtcm_client_fd.
FaultForget ==
  /\ gpc = "error"
  /\ rtcm_client_fd' = NoFd
  /\ gpc' = "close" /\ UNCHANGED cfd
  /\ UNCHANGED <<client, owner, listening, running, ready, freed, stop, accept, sending,
                 main, replaced>>

\* A client that is still the one of the copy, by its number, is forgotten.
Forget ==
  /\ gpc = "error"
  /\ IF rtcm_client_fd = cfd
     THEN rtcm_client_fd' = NoFd /\ gpc' = "close" /\ UNCHANGED cfd
     ELSE UNCHANGED rtcm_client_fd /\ gpc' = "idle" /\ cfd' = NoFd
  /\ UNCHANGED <<client, owner, listening, running, ready, freed, stop, accept, sending,
                 main, replaced>>

\* And its descriptor closed, outside the mutex.
CloseClient ==
  /\ gpc = "close"
  /\ Closed(cfd)
  /\ gpc' = "idle" /\ cfd' = NoFd
  /\ UNCHANGED <<client, listening, shared, accept, sending, main, replaced>>

GnssThread == GnssExit \/ CopyFd \/ SendStart \/ SendDone \/ Forget \/ CloseClient

-----------------------------------------------------------------------------
(* gnss_init, the end of it, and gnss_stop                                 *)

InitMutex ==
  /\ main = "init"
  /\ ready' = TRUE
  /\ gpc' = "idle" /\ main' = "run"
  /\ UNCHANGED <<client, owner, listening, rtcm_client_fd, running, freed, stop, accept, cfd,
                 sending, replaced>>

StopRequest ==
  /\ main = "run"
  /\ stop' = TRUE /\ main' = "joingnss"
  /\ UNCHANGED <<client, owner, listening, rtcm_client_fd, running, ready, freed, accept,
                 gnss, replaced>>

\* pthread_join, after which rtcm_enabled is read, true as it was or overwritten.
JoinGnss ==
  /\ main = "joingnss" /\ gpc = "ended"
  /\ main' \in {"close", "skipped"}
  /\ UNCHANGED <<client, owner, listening, shared, accept, gnss, replaced>>

\* Fault: the accept thread is joined before its socket is closed.
FaultCloseListening ==
  /\ main = "close" /\ apc \in {"ended", "never"}
  /\ running' = FALSE /\ listening' = FALSE /\ main' = "join"
  /\ UNCHANGED <<client, owner, rtcm_client_fd, ready, freed, stop, accept, gnss, replaced>>

\* rtcm_sock_cleanup: the socket is shut down and closed,
CloseListening ==
  /\ main = "close"
  /\ running' = FALSE /\ listening' = FALSE /\ main' = "join"
  /\ UNCHANGED <<client, owner, rtcm_client_fd, ready, freed, stop, accept, gnss, replaced>>

\* the accept thread joined (one that never was: undefined, fails or crashes),
JoinAccept ==
  /\ main = "join"
  /\ \/ apc \in {"ended", "never"} /\ main' = "clear" /\ UNCHANGED <<apc, gpc>>
     \/ apc = "never" /\ Crashed
  /\ UNCHANGED <<client, owner, listening, shared, client_fd, old_fd, early, cfd, sending,
                 replaced>>

\* and the last client closed.
CleanUp ==
  /\ main = "clear"
  /\ Closed(rtcm_client_fd) /\ rtcm_client_fd' = NoFd
  /\ main' = "done"
  /\ UNCHANGED <<client, listening, running, ready, freed, stop, accept, gnss, replaced>>

Main == InitMutex \/ JoinGnss \/ CloseListening \/ JoinAccept \/ CleanUp

Next ==
  \/ AcceptThread \/ GnssThread \/ Main \/ StopRequest \/ Crash
  \/ \E c \in Clients : ClientStep(c)
  \/ \E f \in Fds : OtherOpen(f) \/ OtherClose(f)

\* The threads run; nothing is assumed of the clients.
Spec ==
  /\ Init /\ [][Next]_vars
  /\ WF_vars(AcceptThread) /\ WF_vars(GnssThread) /\ WF_vars(Main)

-----------------------------------------------------------------------------
(* Properties                                                              *)

Descriptors == Fds \cup {NoFd}

TypeOK ==
  /\ client \in [Clients -> {"away", "waiting", "quit", "served", "stalled", "left"}]
  /\ owner \in [Fds -> Clients \cup {None, Other}]
  /\ {listening, running, ready, freed, stop, early, replaced} \subseteq BOOLEAN
  /\ {rtcm_client_fd, client_fd, old_fd, cfd} \subseteq Descriptors
  /\ apc \in {"loop", "swap", "close", "stuck", "ended", "never", "dead"}
  /\ gpc \in {"new", "idle", "send", "sending", "error", "close", "ended", "dead"}
  /\ sending \in Clients \cup {None, Other}
  /\ main \in {"init", "run", "joingnss", "close", "join", "clear", "done", "skipped",
             "crashed"}

\* What belongs to another part of the daemon is left alone: no thread closes
\* its descriptor, and a frame gets there only if the client was replaced, and
\* its descriptor given away, between the copy and the send.
OthersLeftAlone ==
  [][\A f \in Fds :
       owner[f] = Other =>
         /\ owner'[f] = None => OtherClose(f)
         /\ sending' = Other /\ sending # Other => replaced]_vars

\* The GNSS thread drops a client that has not left only if its copy was
\* out of date: a new client got the number of the one that failed.
HealthyClientKept ==
  [][\A f \in Fds :
       gpc = "error" /\ gpc' = "close" /\ cfd = f /\ owner[f] \in Clients
         => client[owner[f]] = "left" \/ replaced]_vars

\* A shutdown that finds rtcm_enabled set closes every client that was accepted.
NoneLeftOpen ==
  main = "done" => \A f \in Fds : owner[f] \notin Clients

\* gnss_stop returns, or the process crashes on what was freed or never created;
\* unless the GNSS thread is blocked by a client that does not read, or a client
\* came before the mutex was initialised.
Blocked == gpc = "sending" /\ sending \in Clients /\ client[sending] = "stalled"
StopEnds == stop ~> (main \in {"done", "skipped", "crashed"} \/ Blocked \/ early)

=============================================================================
