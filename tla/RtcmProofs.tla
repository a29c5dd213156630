----------------------------- MODULE RtcmProofs -----------------------------
(***************************************************************************)
(* Safety of the RTCM socket for any number of clients and descriptors:    *)
(* the two threads and gnss_stop share the descriptor table of the process *)
(* without a lock, and yet each open client has exactly one holder, which  *)
(* alone will close it.                                                    *)
(***************************************************************************)
EXTENDS Rtcm, TLAPS

\* Who holds a descriptor besides rtcm_client_fd: the accept thread, of the
\* client it accepted or of the one it replaced, and the GNSS thread, of a client
\* that it has forgotten.
Accepted == IF apc \in {"swap", "stuck"} THEN client_fd ELSE NoFd
Replaced == IF apc = "close" THEN old_fd ELSE NoFd
Forgotten == IF gpc = "close" THEN cfd ELSE NoFd
Holders == {rtcm_client_fd, Accepted, Replaced, Forgotten}

\* A descriptor that is held is a client's, no descriptor has two holders, and
\* until a crash every client has one.
HolderInv ==
  /\ \A x \in Holders : x # NoFd => owner[x] \in Clients
  /\ rtcm_client_fd # NoFd => rtcm_client_fd \notin {Accepted, Replaced, Forgotten}
  /\ Forgotten # NoFd => Forgotten \notin {Accepted, Replaced}
  /\ main # "crashed" => \A f \in Fds : owner[f] \in Clients => f \in Holders

\* How far the threads are when gnss_init and gnss_stop get on.
ShutdownInv ==
  /\ main = "init" => gpc = "new"
  /\ main \in {"close", "join", "clear", "done", "skipped"} => gpc = "ended"
  /\ main \in {"clear", "done"} => apc \in {"ended", "never"}
  /\ main = "done" => rtcm_client_fd = NoFd

\* send() is called with a descriptor, never with -1.
CopyHeld == gpc \in {"send", "sending", "error", "close"} => cfd # NoFd

\* The GNSS thread's copy of the descriptor: as long as the accept thread has not
\* replaced the client it stands for the one that the frame goes to.
CopyInv ==
  /\ gpc \in {"send", "sending", "error"} /\ ~replaced => rtcm_client_fd = cfd
  /\ gpc = "sending" /\ ~replaced => sending = owner[cfd]
  /\ gpc = "error" /\ ~replaced => client[owner[cfd]] = "left"

RtcmInv == HolderInv /\ ShutdownInv /\ CopyInv

-----------------------------------------------------------------------------
\* Every step of the threads, of gnss_stop and of the clients keeps the types;
\* that of send()'s connection because the GNSS thread copies a descriptor only
\* when there is one.
THEOREM RtcmType == Spec => [](TypeOK /\ CopyHeld)
<1>1. Init => TypeOK /\ CopyHeld
  BY RtcmAssumption, NoFdFree DEF Init, TypeOK, CopyHeld, Descriptors, None, Other
<1>2. TypeOK /\ CopyHeld /\ [Next]_vars => TypeOK' /\ CopyHeld'
  <2> SUFFICES ASSUME TypeOK, CopyHeld, [Next]_vars PROVE TypeOK' /\ CopyHeld'
    OBVIOUS
  <2> USE NoFdFree DEF TypeOK, CopyHeld, Descriptors, None, Other, shared, accept, gnss
  <2>1. CASE AcceptThread
    <3>1. CASE AcceptEnds
      BY <3>1 DEF AcceptEnds
    <3>2. CASE Swap
      BY <3>2 DEF Swap
    <3>3. CASE CloseOld
      BY <3>3 DEF CloseOld, Closed
    <3>4. ASSUME NEW c \in Clients, NEW f \in Fds, Accept(c, f) PROVE TypeOK' /\ CopyHeld'
      BY <3>4 DEF Accept
    <3> QED BY <2>1, <3>1, <3>2, <3>3, <3>4 DEF AcceptThread
  <2>2. CASE GnssThread
    <3>1. CASE GnssExit
      BY <3>1 DEF GnssExit
    <3>2. CASE CopyFd
      BY <3>2 DEF CopyFd
    <3>3. CASE SendStart
      BY <3>3 DEF SendStart
    <3>4. CASE SendDone
      BY <3>4 DEF SendDone
    <3>5. CASE Forget
      BY <3>5 DEF Forget
    <3>6. CASE CloseClient
      BY <3>6 DEF CloseClient, Closed
    <3> QED BY <2>2, <3>1, <3>2, <3>3, <3>4, <3>5, <3>6 DEF GnssThread
  <2>3. CASE Main
    <3>1. CASE InitMutex
      BY <3>1 DEF InitMutex
    <3>2. CASE JoinGnss
      BY <3>2 DEF JoinGnss
    <3>3. CASE CloseListening
      BY <3>3 DEF CloseListening
    <3>4. CASE JoinAccept
      BY <3>4 DEF JoinAccept, Crashed
    <3>5. CASE CleanUp
      BY <3>5 DEF CleanUp, Closed
    <3> QED BY <2>3, <3>1, <3>2, <3>3, <3>4, <3>5 DEF Main
  <2>4. CASE StopRequest
    BY <2>4 DEF StopRequest
  <2>5. CASE Crash
    BY <2>5 DEF Crash, Crashed
  <2>6. ASSUME NEW c \in Clients, ClientStep(c) PROVE TypeOK' /\ CopyHeld'
    BY <2>6 DEF ClientStep
  <2>7. ASSUME NEW f \in Fds, OtherOpen(f) \/ OtherClose(f) PROVE TypeOK' /\ CopyHeld'
    BY <2>7 DEF OtherOpen, OtherClose, Closed
  <2>8. CASE UNCHANGED vars
    BY <2>8 DEF vars
  <2> QED BY <2>1, <2>2, <2>3, <2>4, <2>5, <2>6, <2>7, <2>8 DEF Next
<1> QED BY <1>1, <1>2, PTL DEF Spec

\* gnss_init starts the GNSS thread and gnss_stop waits for both threads: a step
\* of one of them never takes back what the main thread has waited for.
LEMMA ShutdownStep ==
  ASSUME TypeOK, CopyHeld, RtcmInv, [Next]_vars
  PROVE  ShutdownInv'
<1> USE RtcmAssumption, NoFdFree
    DEF RtcmInv, TypeOK, CopyHeld, Descriptors, None, Other, shared, accept, gnss,
        ShutdownInv
<1>1. CASE AcceptEnds
  BY <1>1 DEF AcceptEnds
<1>2. CASE Swap
  BY <1>2 DEF Swap
<1>3. CASE CloseOld
  BY <1>3 DEF CloseOld, Closed
<1>4. ASSUME NEW c \in Clients, NEW f \in Fds, Accept(c, f) PROVE ShutdownInv'
  BY <1>4 DEF Accept
<1>5. CASE GnssExit
  BY <1>5 DEF GnssExit
<1>6. CASE CopyFd
  BY <1>6 DEF CopyFd
<1>7. CASE SendStart
  BY <1>7 DEF SendStart
<1>8. CASE SendDone
  BY <1>8 DEF SendDone, SendFails
<1>9. CASE Forget
  BY <1>9 DEF Forget
<1>10. CASE CloseClient
  BY <1>10 DEF CloseClient, Closed
<1>11. CASE InitMutex
  BY <1>11 DEF InitMutex
<1>12. CASE JoinGnss
  BY <1>12 DEF JoinGnss
<1>13. CASE CloseListening
  BY <1>13 DEF CloseListening
<1>14. CASE JoinAccept
  BY <1>14 DEF JoinAccept, Crashed
<1>15. CASE CleanUp
  BY <1>15 DEF CleanUp, Closed
<1>16. CASE StopRequest
  BY <1>16 DEF StopRequest
<1>17. CASE Crash
  BY <1>17 DEF Crash, Crashed
<1>18. ASSUME NEW c \in Clients, ClientStep(c) PROVE ShutdownInv'
  BY <1>18 DEF ClientStep
<1>19. ASSUME NEW f \in Fds, OtherOpen(f) PROVE ShutdownInv'
  BY <1>19 DEF OtherOpen
<1>20. ASSUME NEW f \in Fds, OtherClose(f) PROVE ShutdownInv'
  BY <1>20 DEF OtherClose, Closed
<1>21. CASE UNCHANGED vars
  BY <1>21 DEF vars
<1> QED
  BY <1>1, <1>2, <1>3, <1>4, <1>5, <1>6, <1>7, <1>8, <1>9, <1>10, <1>11, <1>12, <1>13, <1>14, <1>15, <1>16, <1>17, <1>18, <1>19, <1>20, <1>21
  DEF Next, AcceptThread, GnssThread, Main

\* A descriptor passes from holder to holder: Accept to the accept thread, Swap to
\* rtcm_client_fd, Forget to the GNSS thread, and only its holder closes it.
LEMMA HolderStep ==
  ASSUME TypeOK, CopyHeld, RtcmInv, [Next]_vars
  PROVE  HolderInv'
<1> USE RtcmAssumption, NoFdFree
    DEF RtcmInv, TypeOK, CopyHeld, Descriptors, None, Other, shared, accept, gnss,
        HolderInv, ShutdownInv, Holders, Accepted, Replaced, Forgotten
<1>1. CASE AcceptEnds
  BY <1>1 DEF AcceptEnds
<1>2. CASE Swap
  BY <1>2 DEF Swap
<1>3. CASE CloseOld
  BY <1>3 DEF CloseOld, Closed
<1>4. ASSUME NEW c \in Clients, NEW f \in Fds, Accept(c, f) PROVE HolderInv'
  BY <1>4 DEF Accept
<1>5. CASE GnssExit
  BY <1>5 DEF GnssExit
<1>6. CASE CopyFd
  BY <1>6 DEF CopyFd
<1>7. CASE SendStart
  BY <1>7 DEF SendStart
<1>8. CASE SendDone
  BY <1>8 DEF SendDone, SendFails
<1>9. CASE Forget
  BY <1>9 DEF Forget
<1>10. CASE CloseClient
  BY <1>10 DEF CloseClient, Closed
<1>11. CASE InitMutex
  BY <1>11 DEF InitMutex
<1>12. CASE JoinGnss
  BY <1>12 DEF JoinGnss
<1>13. CASE CloseListening
  BY <1>13 DEF CloseListening
<1>14. CASE JoinAccept
  BY <1>14 DEF JoinAccept, Crashed
<1>15. CASE CleanUp
  BY <1>15 DEF CleanUp, Closed
<1>16. CASE StopRequest
  BY <1>16 DEF StopRequest
<1>17. CASE Crash
  BY <1>17 DEF Crash, Crashed
<1>18. ASSUME NEW c \in Clients, ClientStep(c) PROVE HolderInv'
  BY <1>18 DEF ClientStep
<1>19. ASSUME NEW f \in Fds, OtherOpen(f) PROVE HolderInv'
  BY <1>19 DEF OtherOpen
<1>20. ASSUME NEW f \in Fds, OtherClose(f) PROVE HolderInv'
  BY <1>20 DEF OtherClose, Closed
<1>21. CASE UNCHANGED vars
  BY <1>21 DEF vars
<1> QED
  BY <1>1, <1>2, <1>3, <1>4, <1>5, <1>6, <1>7, <1>8, <1>9, <1>10, <1>11, <1>12, <1>13, <1>14, <1>15, <1>16, <1>17, <1>18, <1>19, <1>20, <1>21
  DEF Next, AcceptThread, GnssThread, Main

\* As long as the client is not replaced its descriptor is not closed, for the
\* holder, rtcm_client_fd, does not change; and a client that left stays so.
LEMMA CopyStep ==
  ASSUME TypeOK, CopyHeld, RtcmInv, [Next]_vars
  PROVE  CopyInv'
<1> USE RtcmAssumption, NoFdFree
    DEF RtcmInv, TypeOK, CopyHeld, Descriptors, None, Other, shared, accept, gnss,
        CopyInv, HolderInv, ShutdownInv, Holders, Accepted, Replaced, Forgotten
<1>1. CASE AcceptEnds
  BY <1>1 DEF AcceptEnds
<1>2. CASE Swap
  BY <1>2 DEF Swap
<1>3. CASE CloseOld
  BY <1>3 DEF CloseOld, Closed
<1>4. ASSUME NEW c \in Clients, NEW f \in Fds, Accept(c, f) PROVE CopyInv'
  BY <1>4 DEF Accept
<1>5. CASE GnssExit
  BY <1>5 DEF GnssExit
<1>6. CASE CopyFd
  BY <1>6 DEF CopyFd
<1>7. CASE SendStart
  BY <1>7 DEF SendStart
<1>8. CASE SendDone
  BY <1>8 DEF SendDone, SendFails
<1>9. CASE Forget
  BY <1>9 DEF Forget
<1>10. CASE CloseClient
  BY <1>10 DEF CloseClient, Closed
<1>11. CASE InitMutex
  BY <1>11 DEF InitMutex
<1>12. CASE JoinGnss
  BY <1>12 DEF JoinGnss
<1>13. CASE CloseListening
  BY <1>13 DEF CloseListening
<1>14. CASE JoinAccept
  BY <1>14 DEF JoinAccept, Crashed
<1>15. CASE CleanUp
  BY <1>15 DEF CleanUp, Closed
<1>16. CASE StopRequest
  BY <1>16 DEF StopRequest
<1>17. CASE Crash
  BY <1>17 DEF Crash, Crashed
<1>18. ASSUME NEW c \in Clients, ClientStep(c) PROVE CopyInv'
  BY <1>18 DEF ClientStep
<1>19. ASSUME NEW f \in Fds, OtherOpen(f) PROVE CopyInv'
  BY <1>19 DEF OtherOpen
<1>20. ASSUME NEW f \in Fds, OtherClose(f) PROVE CopyInv'
  BY <1>20 DEF OtherClose, Closed
<1>21. CASE UNCHANGED vars
  BY <1>21 DEF vars
<1> QED
  BY <1>1, <1>2, <1>3, <1>4, <1>5, <1>6, <1>7, <1>8, <1>9, <1>10, <1>11, <1>12, <1>13, <1>14, <1>15, <1>16, <1>17, <1>18, <1>19, <1>20, <1>21
  DEF Next, AcceptThread, GnssThread, Main

\* The invariant of the RTCM socket: who holds each descriptor, how far the
\* threads are, what the copy of the GNSS thread stands for.
THEOREM RtcmInvariant == Spec => []RtcmInv
<1>1. Init => RtcmInv
  BY RtcmAssumption, NoFdFree
  DEF Init, RtcmInv, HolderInv, ShutdownInv, CopyInv, Holders, Accepted, Replaced, Forgotten,
      None, Other
<1>2. TypeOK /\ CopyHeld /\ RtcmInv /\ [Next]_vars => RtcmInv'
  BY ShutdownStep, HolderStep, CopyStep DEF RtcmInv
<1> QED BY <1>1, <1>2, RtcmType, PTL DEF Spec

\* A shutdown that finds rtcm_enabled set closes every client that was accepted:
\* once both threads are joined the last one has no holder but rtcm_client_fd.
THEOREM RtcmNoneLeftOpen == Spec => []NoneLeftOpen
<1>1. TypeOK /\ RtcmInv => NoneLeftOpen
  BY NoFdFree
  DEF TypeOK, RtcmInv, HolderInv, ShutdownInv, Holders, Accepted, Replaced, Forgotten,
      NoneLeftOpen
<1> QED BY <1>1, RtcmType, RtcmInvariant, PTL

\* No thread closes a descriptor of another part of the daemon, and a frame gets
\* there only if the client was replaced between the copy and the send.
THEOREM RtcmOthersLeftAlone == Spec => OthersLeftAlone
<1> DEFINE A == \A f \in Fds :
                  owner[f] = Other =>
                    /\ owner'[f] = None => OtherClose(f)
                    /\ sending' = Other /\ sending # Other => replaced
<1>1. TypeOK /\ CopyHeld /\ RtcmInv /\ [Next]_vars => [A]_vars
  <2> SUFFICES ASSUME TypeOK, CopyHeld, RtcmInv, Next, NEW f \in Fds, owner[f] = Other
               PROVE  /\ owner'[f] = None => OtherClose(f)
                      /\ sending' = Other /\ sending # Other => replaced
    OBVIOUS
  <2> USE RtcmAssumption, NoFdFree
      DEF TypeOK, CopyHeld, RtcmInv, HolderInv, ShutdownInv, CopyInv, Holders, Accepted,
          Replaced, Forgotten, Descriptors, None, Other, shared, accept, gnss
  <2>1. CASE AcceptThread
    BY <2>1 DEF AcceptThread, AcceptEnds, Swap, CloseOld, Accept, Closed
  <2>2. CASE GnssThread
    BY <2>2 DEF GnssThread, GnssExit, CopyFd, SendStart, SendDone, Forget, CloseClient, Closed
  <2>3. CASE Main
    BY <2>3 DEF Main, InitMutex, JoinGnss, CloseListening, JoinAccept, CleanUp, Closed
  <2>4. CASE StopRequest \/ Crash
    BY <2>4 DEF StopRequest, Crash
  <2>5. ASSUME NEW c \in Clients, ClientStep(c)
        PROVE  owner' = owner /\ sending' = sending
    BY <2>5 DEF ClientStep
  <2>6. ASSUME NEW g \in Fds, OtherOpen(g)
        PROVE  owner'[f] = Other /\ sending' = sending
    BY <2>6 DEF OtherOpen
  <2>7. ASSUME NEW g \in Fds, OtherClose(g)
        PROVE  (f = g \/ owner'[f] = Other) /\ sending' = sending
    BY <2>7 DEF OtherClose, Closed
  <2> QED BY <2>1, <2>2, <2>3, <2>4, <2>5, <2>6, <2>7 DEF Next
<1> QED BY <1>1, RtcmType, RtcmInvariant, PTL DEF Spec, OthersLeftAlone

\* The GNSS thread drops a client that has not left only if a new client got the
\* number of the one that failed.
THEOREM RtcmHealthyClientKept == Spec => HealthyClientKept
<1> DEFINE A == \A f \in Fds :
                  gpc = "error" /\ gpc' = "close" /\ cfd = f /\ owner[f] \in Clients
                    => client[owner[f]] = "left" \/ replaced
<1>1. RtcmInv /\ [Next]_vars => [A]_vars
  BY DEF RtcmInv, CopyInv
<1> QED BY <1>1, RtcmInvariant, PTL DEF Spec, HealthyClientKept

=============================================================================
