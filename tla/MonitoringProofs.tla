-------------------------- MODULE MonitoringProofs --------------------------
(***************************************************************************)
(* Safety of the monitoring socket for any number of connections,          *)
(* descriptors and requests.  A request goes from the stream of its        *)
(* connection to the buffer of the descriptor, to monitoring->request and  *)
(* to the main thread; what makes it arrive once, and its answer with the  *)
(* one who asked, is that each stage holds only newer requests of a client *)
(* than the stages behind it.                                              *)
(***************************************************************************)
EXTENDS Monitoring, SequenceTheorems, WellFoundedInduction, TLAPS

\* Every open descriptor belongs to exactly one connection.
Connections ==
  /\ \A c, d \in Clients : client[c].fd \in Fds /\ client[c].fd = client[d].fd => c = d
  /\ \A f \in Fds : peer[f].want # "closed" <=> \E c \in Clients : client[c].fd = f

\* Request n of client c is newer than all that main took, that waits for main
\* and that was answered.
Newer(c, n) ==
  /\ n > client[c].taken
  /\ request.from = c => n > request.n
  /\ \A i \in DOMAIN client[c].answers : n > client[c].answers[i].n

\* Nothing is ahead of what the client has sent; a request that waits for main is
\* an action that main has not seen.
Waiting(c) ==
  /\ client[c].taken <= client[c].sent
  /\ request.from = c => client[c].taken < request.n /\ request.n <= client[c].sent

\* The answers of a client are to its requests, in order.
Answers(c) ==
  \A i \in DOMAIN client[c].answers :
    /\ client[c].answers[i].from = c /\ client[c].answers[i].n <= client[c].sent
    /\ \A j \in 1 .. (i - 1) : client[c].answers[j].n < client[c].answers[i].n

\* The request in the buffer of a client's descriptor is its own, and newer.
InBuffer(c) ==
  client[c].fd \in Fds /\ peer[client[c].fd].buf # "empty" =>
    LET m == peer[client[c].fd].msg
    IN m.from = c /\ m.n <= client[c].sent /\ Newer(c, m.n)

\* The requests that begin in its stream too, and newer than the one in the buffer.
InStream(c) ==
  \A i \in DOMAIN client[c].stream :
    client[c].stream[i].part = "head" =>
      LET m == client[c].stream[i].msg
      IN /\ m.from = c /\ m.n <= client[c].sent /\ Newer(c, m.n)
         /\ client[c].fd \in Fds /\ peer[client[c].fd].buf # "empty"
              => m.n > peer[client[c].fd].msg.n

RequestInv ==
  /\ Connections
  /\ \A c \in Clients : Waiting(c) /\ Answers(c) /\ InBuffer(c) /\ InStream(c)

\* What the shutdown has waited for, and that nobody but the GNSS thread's own
\* end undoes it.
ShutdownInv ==
  /\ main \in {"join_monitoring", "freed"} => gthr = "exited"
  /\ main = "freed" => thread # "loop"

-----------------------------------------------------------------------------
(* Types                                                                   *)

ClientStates ==
  [conn: {"away", "queued", "up", "closed", "reset"}, fd: Fds \cup {NoFd, WasClosed},
   stream: Seq(Parts), half: Msgs \cup {NoMsg}, sent: Nat, answers: Seq(Msgs), taken: Nat,
   marks: SUBSET Marks]
PeerStates ==
  [want: {"closed", "R", "W"}, staged: BOOLEAN, buf: {"empty", "head", "message"},
   msg: Msgs \cup {NoMsg}]

\* A stream in which a request begins has a first one.
LEMMA FirstHead ==
  ASSUME NEW H, H \subseteq Nat, H # {}
  PROVE  \E i \in H : \A j \in H : i <= j
<1>1. PICK i \in H : \A j \in H : <<j, i>> \notin OpToRel(<, Nat)
  BY WFMin, NatLessThanWellFounded, Zenon
<1>2. \A j \in H : ~(j < i)
  BY <1>1, Zenon DEF OpToRel
<1> QED
  BY <1>2

\* What on_peer_ready_recv makes of the bytes it gets: the buffer as it was, or the
\* first request that begins in them.
LEMMA ParsedIs ==
  ASSUME NEW p \in PeerStates, NEW st \in Seq(Parts)
  PROVE  \/ Parsed(p, st) = p
         \/ \E i \in DOMAIN st :
              /\ st[i].part = "head"
              /\ \E b \in {"message", "head"} :
                   Parsed(p, st) = [p EXCEPT !.staged = TRUE, !.msg = st[i].msg, !.buf = b]
<1> DEFINE heads == {i \in DOMAIN st : st[i].part = "head"}
           first == CHOOSE i \in heads : \A j \in heads : i <= j
<1>1. CASE p.buf = "message" \/ heads = {}
  BY <1>1 DEF Parsed
<1>2. CASE p.buf # "message" /\ heads # {}
  <2>1. first \in heads
    <3>1. heads \subseteq Nat
      OBVIOUS
    <3>2. \E i \in heads : \A j \in heads : i <= j
      BY <1>2, <3>1, FirstHead
    <3> HIDE DEF heads
    <3> QED
      BY <3>2
  <2>2. Parsed(p, st) = [p EXCEPT !.staged = TRUE, !.msg = st[first].msg,
                                  !.buf = IF first < Len(st) THEN "message" ELSE "head"]
    BY <1>2 DEF Parsed
  <2> HIDE DEF first
  <2> QED
    BY <2>1, <2>2
<1> QED
  BY <1>1, <1>2

\* A descriptor that epoll watches has its connection.
LEMMA OwnerIs ==
  ASSUME Connections, NEW f \in Fds, peer[f].want # "closed"
  PROVE  Owner(f) \in Clients /\ client[Owner(f)].fd = f
BY DEF Connections, Owner

\* The types, with the records of a client and of a descriptor named.
LEMMA TypeUnfold ==
  TypeOK <=> /\ client \in [Clients -> ClientStates] /\ peer \in [Fds -> PeerStates]
             /\ thread \in {"loop", "dead", "exited"}
             /\ request \in Msgs \cup Uninitialised \cup {NoMsg}
             /\ stop \in BOOLEAN
             /\ main \in {"loop", "join_gnss", "join_monitoring", "freed"}
             /\ gaction \in Msgs \cup Uninitialised \cup {NoMsg}
             /\ gthr \in {"run", "stopping", "exited"}
BY DEF TypeOK, ClientStates, PeerStates

\* Every step keeps the types; RequestInv gives the client that a descriptor is of
\* and the request that is answered.
LEMMA TypeStep ==
  ASSUME TypeOK, RequestInv, [Next]_vars
  PROVE  TypeOK'
<1>0. /\ client \in [Clients -> ClientStates] /\ peer \in [Fds -> PeerStates]
      /\ thread \in {"loop", "dead", "exited"}
      /\ request \in Msgs \cup Uninitialised \cup {NoMsg}
      /\ stop \in BOOLEAN
      /\ main \in {"loop", "join_gnss", "join_monitoring", "freed"}
      /\ gaction \in Msgs \cup Uninitialised \cup {NoMsg}
      /\ gthr \in {"run", "stopping", "exited"}
  BY TypeUnfold
<1>C. Connections
  BY DEF RequestInv
<1>T. ASSUME client' \in [Clients -> ClientStates], peer' \in [Fds -> PeerStates],
             thread' \in {"loop", "dead", "exited"},
             request' \in Msgs \cup Uninitialised \cup {NoMsg}, stop' \in BOOLEAN,
             main' \in {"loop", "join_gnss", "join_monitoring", "freed"},
             gaction' \in Msgs \cup Uninitialised \cup {NoMsg},
             gthr' \in {"run", "stopping", "exited"}
      PROVE  TypeOK'
  BY <1>T DEF TypeOK, ClientStates, PeerStates
<1>1. ASSUME NEW c \in Clients, Connect(c) \/ SendTail(c) \/ Close(c) PROVE TypeOK'
  <2>1. CASE Connect(c)
    <3>1. client' \in [Clients -> ClientStates]
      BY <1>0, <2>1 DEF Connect, ClientStates
    <3> QED
      BY <1>0, <1>T, <2>1, <3>1 DEF Connect, daemonVars
  <2>2. CASE SendTail(c)
    <3>1. client[c].half \in Msgs /\ client[c].stream \in Seq(Parts)
      BY <1>0, <2>2 DEF SendTail, ClientStates
    <3>2. Append(client[c].stream, [msg |-> client[c].half, part |-> "tail"]) \in Seq(Parts)
      BY <3>1 DEF Parts
    <3>3. client' \in [Clients -> ClientStates]
      BY <1>0, <2>2, <3>2 DEF SendTail, ClientStates
    <3> QED
      BY <1>0, <1>T, <2>2, <3>3 DEF SendTail, daemonVars
  <2>3. CASE Close(c)
    <3>1. PICK how \in {"closed", "reset"} :
            client' = [client EXCEPT ![c].conn = how, ![c].half = NoMsg,
                                     ![c].marks = @ \cup {"closed"}]
      BY <2>3 DEF Close
    <3>2. client[c].marks \cup {"closed"} \in SUBSET Marks
      BY <1>0 DEF ClientStates, Marks
    <3> DEFINE r == [client[c] EXCEPT !.conn = how, !.half = NoMsg, !.marks = @ \cup {"closed"}]
    <3>3. r \in ClientStates
      BY <1>0, <3>2 DEF ClientStates
    <3>4. client' = [client EXCEPT ![c] = r]
      BY <1>0, <3>1
    <3>5. client' \in [Clients -> ClientStates]
      BY <1>0, <3>3, <3>4
    <3> QED
      BY <1>0, <1>T, <2>3, <3>5 DEF Close, daemonVars
  <2> QED
    BY <1>1, <2>1, <2>2, <2>3
<1>2. ASSUME NEW c \in Clients, SendRequest(c) PROVE TypeOK'
  <2>1. PICK r \in Requests, whole \in BOOLEAN :
          LET m == [from |-> c, n |-> client[c].sent + 1, req |-> r]
              head == [msg |-> m, part |-> "head"]
              tail == [msg |-> m, part |-> "tail"]
          IN client' = [client EXCEPT
               ![c].stream = IF whole THEN @ \o <<head, tail>> ELSE Append(@, head),
               ![c].half = IF whole THEN NoMsg ELSE m,
               ![c].sent = @ + 1,
               ![c].marks = @ \cup (IF whole THEN {} ELSE {"split"})
                              \cup (IF Outstanding(c) THEN {"pipelined"} ELSE {})]
    BY <1>2 DEF SendRequest
  <2> DEFINE m == [from |-> c, n |-> client[c].sent + 1, req |-> r]
             st == IF whole THEN client[c].stream \o <<[msg |-> m, part |-> "head"],
                                                       [msg |-> m, part |-> "tail"]>>
                   ELSE Append(client[c].stream, [msg |-> m, part |-> "head"])
             mk == client[c].marks \cup (IF whole THEN {} ELSE {"split"})
                              \cup (IF Outstanding(c) THEN {"pipelined"} ELSE {})
  <2>2. m \in Msgs /\ client[c].stream \in Seq(Parts) /\ client[c].marks \subseteq Marks
        /\ client[c].sent + 1 \in Nat
    BY <1>0 DEF Msgs, ClientStates
  <2>3. st \in Seq(Parts)
    <3>1. /\ [msg |-> m, part |-> "head"] \in Parts
          /\ [msg |-> m, part |-> "tail"] \in Parts
      BY <2>2 DEF Parts
    <3> HIDE DEF m
    <3>2. <<[msg |-> m, part |-> "head"], [msg |-> m, part |-> "tail"]>> \in Seq(Parts)
      BY <3>1
    <3> QED
      BY <2>2, <3>1, <3>2
  <2>4. mk \subseteq Marks
    BY <2>2 DEF Marks
  <2>5. client' = [client EXCEPT ![c].stream = st, ![c].half = IF whole THEN NoMsg ELSE m,
                                 ![c].sent = @ + 1, ![c].marks = mk]
    BY <2>1
  <2> HIDE DEF m, st, mk
  <2>6. client' \in [Clients -> ClientStates]
    BY <1>0, <2>2, <2>3, <2>4, <2>5 DEF ClientStates
  <2> QED
    BY <1>0, <1>2, <1>T, <2>6 DEF SendRequest, daemonVars
<1>3. CASE Accept
  <2>1. PICK c \in Pending, f \in Free :
          /\ client' = [client EXCEPT ![c].fd = f, ![c].conn = IF @ = "queued" THEN "up" ELSE @]
          /\ peer' = [peer EXCEPT ![f] = OnPeerConnected(f)]
    BY <1>3 DEF Accept
  <2>2. client' \in [Clients -> ClientStates]
    <3>1. c \in Clients /\ f \in Fds
      BY DEF Pending, Free
    <3>2. (IF client[c].conn = "queued" THEN "up" ELSE client[c].conn)
             \in {"away", "queued", "up", "closed", "reset"}
      BY <1>0, <3>1 DEF ClientStates
    <3> DEFINE r == [client[c] EXCEPT !.fd = f, !.conn = IF @ = "queued" THEN "up" ELSE @]
    <3>3. r \in ClientStates
      BY <1>0, <3>1, <3>2 DEF ClientStates
    <3>4. client' = [client EXCEPT ![c] = r]
      BY <1>0, <2>1, <3>1
    <3> QED
      BY <1>0, <3>1, <3>3, <3>4
  <2>3. peer' \in [Fds -> PeerStates]
    BY <1>0, <2>1 DEF PeerStates, OnPeerConnected, Peer0, Free
  <2> QED
    BY <1>0, <1>3, <1>T, <2>2, <2>3 DEF Accept, daemonVars
<1>4. ASSUME NEW f \in Fds, OnError(f) \/ OnDisconnect(f) PROVE TypeOK'
  <2>1. CloseFd(f) /\ UNCHANGED <<thread, daemonVars>>
    BY <1>4 DEF OnError, OnDisconnect
  <2>2. client' \in [Clients -> ClientStates]
    <3>1. {"closed"} \in SUBSET Marks /\ << >> \in Seq(Parts)
      BY DEF Marks
    <3>2. client' = [client EXCEPT ![Owner(f)].fd = WasClosed, ![Owner(f)].stream = << >>,
                                   ![Owner(f)].marks = {"closed"}]
      BY <2>1 DEF CloseFd
    <3>3. PICK c \in Clients : c = Owner(f)
      BY <1>4, <1>C, OwnerIs DEF OnError, OnDisconnect, Watched
    <3> DEFINE r == [client[c] EXCEPT !.fd = WasClosed, !.stream = << >>, !.marks = {"closed"}]
    <3>4. r \in ClientStates
      BY <1>0, <3>1 DEF ClientStates
    <3>5. client' = [client EXCEPT ![c] = r]
      BY <1>0, <3>2, <3>3
    <3> QED
      BY <1>0, <3>4, <3>5
  <2>3. peer' \in [Fds -> PeerStates]
    BY <1>0, <2>1 DEF PeerStates, CloseFd
  <2> QED
    BY <1>0, <1>T, <2>1, <2>2, <2>3 DEF daemonVars
<1>5. ASSUME NEW f \in Fds, OnPeerReadyRecv(f) PROVE TypeOK'
  <2>1. Stream(f) \in Seq(Parts)
    BY <1>0, <1>5, <1>C, OwnerIs DEF OnPeerReadyRecv, Watched, Stream, ClientStates
  <2>2. Parsed(peer[f], Stream(f)) \in PeerStates
    <3> DEFINE p == peer[f]
               st == Stream(f)
    <3>1. p \in PeerStates
      BY <1>0
    <3> HIDE DEF p, st
    <3>2. ASSUME NEW i \in DOMAIN st, NEW b \in {"message", "head"}
          PROVE  [p EXCEPT !.staged = TRUE, !.msg = st[i].msg, !.buf = b] \in PeerStates
      <4>1. st[i].msg \in Msgs
        <5>1. st \in Seq(Parts)
          BY <2>1 DEF st
        <5>2. st[i] \in Parts
          BY <3>2, <5>1
        <5> QED
          BY <5>2 DEF Parts
      <4> QED
        BY <3>1, <4>1 DEF PeerStates
    <3>3. st \in Seq(Parts) /\ Parsed(p, st) = Parsed(peer[f], Stream(f))
      BY <2>1 DEF p, st
    <3>4. \/ Parsed(p, st) = p
          \/ \E i \in DOMAIN st :
               /\ st[i].part = "head"
               /\ \E b \in {"message", "head"} :
                    Parsed(p, st) = [p EXCEPT !.staged = TRUE, !.msg = st[i].msg, !.buf = b]
      BY <3>1, <3>3, ParsedIs, Zenon
    <3>5. Parsed(p, st) \in PeerStates
      BY <3>1, <3>2, <3>4, Zenon
    <3> QED
      BY <3>3, <3>5
  <2>3. peer' \in [Fds -> PeerStates]
    <3> DEFINE p == Parsed(peer[f], Stream(f))
    <3>1. peer' = [peer EXCEPT ![f] = IF p.buf = "message" THEN [p EXCEPT !.want = "W"] ELSE p]
      BY <1>5 DEF OnPeerReadyRecv
    <3>2. p \in PeerStates
      BY <2>2
    <3> HIDE DEF p
    <3>3. [p EXCEPT !.want = "W"] \in PeerStates
      BY <3>2 DEF PeerStates
    <3> QED
      BY <1>0, <3>1, <3>2, <3>3
  <2>4. client' \in [Clients -> ClientStates]
    <3>1. client' = [client EXCEPT ![Owner(f)].stream = << >>] /\ << >> \in Seq(Parts)
      BY <1>5 DEF OnPeerReadyRecv
    <3> QED
      BY <1>0, <3>1 DEF ClientStates
  <2> QED
    BY <1>0, <1>5, <1>T, <2>3, <2>4 DEF OnPeerReadyRecv, daemonVars
<1>6. ASSUME NEW f \in Fds, OnPeerReadySend(f) PROVE TypeOK'
  <2>1. PICK c \in Clients : c = Owner(f) /\ client[c].fd = f
    BY <1>6, <1>C, OwnerIs DEF OnPeerReadySend, Watched
  <2>2. peer[f].msg \in Msgs
    <3>1. peer[f].buf = "message" /\ peer[f].msg \in Msgs \cup {NoMsg}
      BY <1>0, <1>6 DEF OnPeerReadySend, PeerStates
    <3>2. peer[f].msg.from = c
      BY <2>1, <3>1 DEF RequestInv, InBuffer
    <3> QED
      BY <3>1, <3>2, NamesApart DEF NoMsg
  <2>3. request' \in Msgs \cup Uninitialised \cup {NoMsg}
    BY <1>0, <1>6, <2>2 DEF OnPeerReadySend, JsonHandleRequest
  <2>4. Answered(peer[f]) \in PeerStates /\ Cleared(peer[f]) \in PeerStates
    BY <1>0 DEF Answered, Cleared, PeerStates
  <2>5. peer' \in [Fds -> PeerStates]
    BY <1>0, <1>6, <2>4 DEF OnPeerReadySend
  <2>6. client' \in [Clients -> ClientStates]
    <3>1. Append(client[c].answers, peer[f].msg) \in Seq(Msgs)
      BY <1>0, <2>2 DEF ClientStates
    <3>2. client[c].marks \cup {"send_failed"} \in SUBSET Marks
      BY <1>0 DEF ClientStates, Marks
    <3>3. \/ client' = [client EXCEPT ![c].answers = Append(@, peer[f].msg)]
          \/ client' = [client EXCEPT ![c].marks = @ \cup {"send_failed"}]
      BY <1>6, <2>1 DEF OnPeerReadySend
    <3>4. /\ [client[c] EXCEPT !.answers = Append(@, peer[f].msg)] \in ClientStates
          /\ [client[c] EXCEPT !.marks = @ \cup {"send_failed"}] \in ClientStates
      BY <1>0, <3>1, <3>2 DEF ClientStates
    <3> QED
      BY <1>0, <3>3, <3>4
  <2> QED
    BY <1>0, <1>6, <1>T, <2>3, <2>5, <2>6 DEF OnPeerReadySend
<1>7. CASE MonitoringStep
  <2>1. client' \in [Clients -> ClientStates]
    <3>1. request.n \in Nat
      BY <1>0 DEF Msgs, NoMsg, Uninitialised
    <3>2. \A c \in Clients : [client[c] EXCEPT !.taken = request.n] \in ClientStates
      BY <1>0, <3>1 DEF ClientStates
    <3> QED
      BY <1>0, <1>7, <3>2 DEF MonitoringStep, MarkTaken
  <2> QED
    BY <1>0, <1>7, <1>T, <2>1 DEF MonitoringStep, GnssSetAction
<1>8. CASE AcceptFails \/ CheckStop \/ StopGnss \/ StopMonitoring \/ FreeMonitoring
           \/ GnssRound \/ GnssExit
  BY <1>0, <1>8, <1>T DEF AcceptFails, CheckStop, StopGnss, StopMonitoring, FreeMonitoring,
                          GnssRound, GnssExit, daemonVars
<1>9. CASE UNCHANGED vars
  BY <1>0, <1>9, <1>T DEF vars
<1> QED
  BY <1>1, <1>2, <1>3, <1>4, <1>5, <1>6, <1>7, <1>8, <1>9
  DEF Next, ClientStep, MonitoringThread, Main, GnssThread, Event

-----------------------------------------------------------------------------
(* A request goes from stage to stage.                                     *)

\* The numbers of requests are numbers.
LEMMA NumberTypes ==
  ASSUME TypeOK
  PROVE  /\ request.n \in Nat
         /\ \A f \in Fds : peer[f].msg.n \in Nat
         /\ \A c \in Clients :
              /\ client[c].sent \in Nat /\ client[c].taken \in Nat
              /\ client[c].answers \in Seq(Msgs) /\ client[c].stream \in Seq(Parts)
              /\ \A i \in DOMAIN client[c].answers : client[c].answers[i].n \in Nat
              /\ \A i \in DOMAIN client[c].stream : client[c].stream[i].msg.n \in Nat
<1>0. /\ client \in [Clients -> ClientStates] /\ peer \in [Fds -> PeerStates]
      /\ request \in Msgs \cup Uninitialised \cup {NoMsg}
  BY TypeUnfold
<1>1. request.n \in Nat
  BY <1>0 DEF Msgs, NoMsg, Uninitialised
<1>2. \A f \in Fds : peer[f].msg.n \in Nat
  BY <1>0 DEF PeerStates, Msgs, NoMsg
<1>3. ASSUME NEW c \in Clients
      PROVE  /\ client[c].sent \in Nat /\ client[c].taken \in Nat
             /\ client[c].answers \in Seq(Msgs) /\ client[c].stream \in Seq(Parts)
             /\ \A i \in DOMAIN client[c].answers : client[c].answers[i].n \in Nat
             /\ \A i \in DOMAIN client[c].stream : client[c].stream[i].msg.n \in Nat
  <2>1. /\ client[c].sent \in Nat /\ client[c].taken \in Nat
        /\ client[c].answers \in Seq(Msgs) /\ client[c].stream \in Seq(Parts)
    BY <1>0 DEF ClientStates
  <2>2. \A i \in DOMAIN client[c].answers : client[c].answers[i] \in Msgs
    BY <2>1
  <2>3. \A i \in DOMAIN client[c].stream : client[c].stream[i] \in Parts
    BY <2>1
  <2> QED
    BY <2>1, <2>2, <2>3 DEF Parts, Msgs
<1> QED
  BY <1>1, <1>2, <1>3

\* A client d whose history and descriptor a step leaves alone: what begins in its
\* stream is what began there, or a request that it has just sent.
Kept(d) ==
  /\ client'[d].fd = client[d].fd /\ client'[d].answers = client[d].answers
  /\ client'[d].taken = client[d].taken
  /\ client'[d].sent \in {client[d].sent, client[d].sent + 1}
  /\ \A i \in DOMAIN client'[d].stream :
       LET p == client'[d].stream[i]
       IN p.part = "head" =>
            \/ i \in DOMAIN client[d].stream /\ p = client[d].stream[i]
            \/ p.msg.from = d /\ p.msg.n = client[d].sent + 1
               /\ client'[d].sent = client[d].sent + 1

\* A step of the clients keeps RequestInv: a new request is newer than all before.
LEMMA KeptStep ==
  ASSUME TypeOK, RequestInv, UNCHANGED <<peer, request>>, \A d \in Clients : Kept(d)
  PROVE  RequestInv'
<1>1. Connections'
  BY DEF RequestInv, Connections, Kept
<1>2. ASSUME NEW d \in Clients
      PROVE  Waiting(d)' /\ Answers(d)' /\ InBuffer(d)' /\ InStream(d)'
  <2>0. Kept(d) /\ Waiting(d) /\ Answers(d) /\ InBuffer(d) /\ InStream(d)
    BY DEF RequestInv
  <2>T. /\ request.n \in Nat /\ \A f \in Fds : peer[f].msg.n \in Nat
        /\ client[d].sent \in Nat /\ client[d].taken \in Nat
        /\ \A i \in DOMAIN client[d].answers : client[d].answers[i].n \in Nat
        /\ \A i \in DOMAIN client[d].stream : client[d].stream[i].msg.n \in Nat
    BY NumberTypes
  <2>1. Waiting(d)'
    BY <2>0, <2>T DEF Kept, Waiting
  <2>2. Answers(d)'
    BY <2>0, <2>T DEF Kept, Answers
  <2>3. InBuffer(d)'
    BY <2>0, <2>T DEF Kept, InBuffer, Newer
  <2>4. InStream(d)'
    <3> SUFFICES ASSUME NEW i \in DOMAIN client'[d].stream, client'[d].stream[i].part = "head",
                        NEW n, n = client'[d].stream[i].msg.n
                 PROVE  /\ client'[d].stream[i].msg.from = d
                        /\ n <= client'[d].sent /\ Newer(d, n)'
                        /\ client'[d].fd \in Fds /\ peer'[client'[d].fd].buf # "empty"
                              => n > peer'[client'[d].fd].msg.n
      BY DEF InStream, Newer
    <3>1. CASE i \in DOMAIN client[d].stream /\ client'[d].stream[i] = client[d].stream[i]
      BY <2>0, <2>T, <3>1 DEF Kept, InStream, Newer
    <3>2. CASE /\ client'[d].stream[i].msg.from = d
               /\ client'[d].stream[i].msg.n = client[d].sent + 1
               /\ client'[d].sent = client[d].sent + 1
      BY <2>0, <2>T, <3>2 DEF Kept, Waiting, Answers, InBuffer, Newer
    <3> QED
      BY <2>0, <3>1, <3>2 DEF Kept
  <2> QED
    BY <2>1, <2>2, <2>3, <2>4
<1> QED
  BY <1>1, <1>2 DEF RequestInv

\* Connecting, completing a request, closing and sending one are such steps.
LEMMA ClientsKept ==
  ASSUME TypeOK, ClientStep
  PROVE  UNCHANGED <<peer, request>> /\ \A d \in Clients : Kept(d)
<1>0. client \in [Clients -> ClientStates]
  BY TypeUnfold
<1>1. PICK c \in Clients : Connect(c) \/ SendRequest(c) \/ SendTail(c) \/ Close(c)
  BY DEF ClientStep
<1>2. UNCHANGED <<peer, request>>
  BY <1>1 DEF Connect, SendRequest, SendTail, Close, daemonVars
<1>3. ASSUME NEW d \in Clients, client'[d] = client[d] PROVE Kept(d)
  BY <1>3 DEF Kept
<1>4. \A d \in Clients \ {c} : client'[d] = client[d]
  <2>1. CASE Connect(c) \/ SendTail(c) \/ Close(c)
    BY <1>0, <2>1 DEF Connect, SendTail, Close
  <2>2. CASE SendRequest(c)
    <3>1. PICK r \in Requests, whole \in BOOLEAN :
            LET m == [from |-> c, n |-> client[c].sent + 1, req |-> r]
                head == [msg |-> m, part |-> "head"]
                tail == [msg |-> m, part |-> "tail"]
            IN client' = [client EXCEPT
                 ![c].stream = IF whole THEN @ \o <<head, tail>> ELSE Append(@, head),
                 ![c].half = IF whole THEN NoMsg ELSE m,
                 ![c].sent = @ + 1,
                 ![c].marks = @ \cup (IF whole THEN {} ELSE {"split"})
                                \cup (IF Outstanding(c) THEN {"pipelined"} ELSE {})]
      BY <2>2 DEF SendRequest
    <3> QED
      BY <1>0, <3>1
  <2> QED
    BY <1>1, <2>1, <2>2
<1>5. Kept(c)
  <2>T. client[c] \in ClientStates /\ client[c].stream \in Seq(Parts) /\ client[c].sent \in Nat
    BY <1>0 DEF ClientStates
  <2>1. CASE Connect(c) \/ Close(c)
    <3>1. /\ client'[c].fd = client[c].fd /\ client'[c].answers = client[c].answers
          /\ client'[c].taken = client[c].taken /\ client'[c].sent = client[c].sent
          /\ client'[c].stream = client[c].stream
      BY <1>0, <2>1 DEF Connect, Close, ClientStates
    <3> QED
      BY <3>1 DEF Kept
  <2>2. CASE SendTail(c)
    <3> DEFINE tail == [msg |-> client[c].half, part |-> "tail"]
    <3>1. /\ client'[c].fd = client[c].fd /\ client'[c].answers = client[c].answers
          /\ client'[c].taken = client[c].taken /\ client'[c].sent = client[c].sent
          /\ client'[c].stream = Append(client[c].stream, tail)
      BY <1>0, <2>2 DEF SendTail, ClientStates
    <3>2. tail.part = "tail" /\ tail \in Parts
      BY <1>0, <2>2 DEF SendTail, ClientStates, Parts
    <3> HIDE DEF tail
    <3>3. \A i \in DOMAIN client'[c].stream :
            client'[c].stream[i].part = "head" =>
              i \in DOMAIN client[c].stream /\ client'[c].stream[i] = client[c].stream[i]
      BY <2>T, <3>1, <3>2
    <3> QED
      BY <3>1, <3>3 DEF Kept
  <2>3. CASE SendRequest(c)
    <3>1. PICK r \in Requests, whole \in BOOLEAN :
            LET m == [from |-> c, n |-> client[c].sent + 1, req |-> r]
                head == [msg |-> m, part |-> "head"]
                tail == [msg |-> m, part |-> "tail"]
            IN client' = [client EXCEPT
                 ![c].stream = IF whole THEN @ \o <<head, tail>> ELSE Append(@, head),
                 ![c].half = IF whole THEN NoMsg ELSE m,
                 ![c].sent = @ + 1,
                 ![c].marks = @ \cup (IF whole THEN {} ELSE {"split"})
                                \cup (IF Outstanding(c) THEN {"pipelined"} ELSE {})]
      BY <2>3 DEF SendRequest
    <3> DEFINE m == [from |-> c, n |-> client[c].sent + 1, req |-> r]
               head == [msg |-> m, part |-> "head"]
               tail == [msg |-> m, part |-> "tail"]
    <3>2. /\ client'[c].fd = client[c].fd /\ client'[c].answers = client[c].answers
          /\ client'[c].taken = client[c].taken /\ client'[c].sent = client[c].sent + 1
          /\ client'[c].stream = IF whole THEN client[c].stream \o <<head, tail>>
                                          ELSE Append(client[c].stream, head)
      BY <1>0, <3>1 DEF ClientStates
    <3>3. /\ head.msg.from = c /\ head.msg.n = client[c].sent + 1 /\ tail.part = "tail"
          /\ head \in Parts /\ tail \in Parts
      BY <2>T DEF Parts, Msgs
    <3> HIDE DEF head, tail
    <3>4. \A i \in DOMAIN client'[c].stream :
            \/ i \in DOMAIN client[c].stream /\ client'[c].stream[i] = client[c].stream[i]
            \/ client'[c].stream[i] \in {head, tail}
      <4>1. CASE whole
        <5>1. client'[c].stream = client[c].stream \o <<head, tail>>
          BY <3>2, <4>1
        <5>2. <<head, tail>> \in Seq(Parts) /\ Len(<<head, tail>>) = 2
          BY <3>3
        <5>3. ASSUME NEW st \in Seq(Parts), NEW new \in Seq(Parts), Len(new) = 2,
                     NEW i \in DOMAIN (st \o new)
              PROVE  \/ i \in DOMAIN st /\ (st \o new)[i] = st[i]
                     \/ (st \o new)[i] = new[1]
                     \/ (st \o new)[i] = new[2]
          <6>1. /\ i \in 1 .. (Len(st) + 2)
                /\ (st \o new)[i] = IF i <= Len(st) THEN st[i] ELSE new[i - Len(st)]
            BY <5>3, ConcatProperties
          <6>2. i <= Len(st) \/ i = Len(st) + 1 \/ i = Len(st) + 2
            BY <5>3, <6>1
          <6> QED
            BY <5>3, <6>1, <6>2
        <5>4. <<head, tail>>[1] = head /\ <<head, tail>>[2] = tail
          OBVIOUS
        <5> QED
          BY <2>T, <5>1, <5>2, <5>3, <5>4
      <4>2. CASE ~whole
        BY <2>T, <3>2, <3>3, <4>2
      <4> QED
        BY <4>1, <4>2
    <3>5. \A i \in DOMAIN client'[c].stream :
            client'[c].stream[i].part = "head" =>
              \/ i \in DOMAIN client[c].stream /\ client'[c].stream[i] = client[c].stream[i]
              \/ client'[c].stream[i] = head
      BY <3>3, <3>4
    <3> QED
      BY <3>2, <3>3, <3>5 DEF Kept
  <2> QED
    BY <1>1, <2>1, <2>2, <2>3
<1> QED
  BY <1>2, <1>3, <1>4, <1>5

\* A connection that is accepted gets a descriptor nobody has, with an empty buffer.
LEMMA AcceptStep ==
  ASSUME TypeOK, RequestInv, Accept
  PROVE  RequestInv'
<1>0. client \in [Clients -> ClientStates] /\ peer \in [Fds -> PeerStates]
  BY TypeUnfold
<1>1. PICK c \in Pending, f \in Free :
        /\ client' = [client EXCEPT ![c].fd = f, ![c].conn = IF @ = "queued" THEN "up" ELSE @]
        /\ peer' = [peer EXCEPT ![f] = OnPeerConnected(f)]
  BY DEF Accept
<1>2. /\ c \in Clients /\ f \in Fds /\ peer[f].want = "closed" /\ client[c].fd = NoFd
      /\ NoFd \notin Fds /\ request' = request
  BY NamesApart DEF Pending, Free, Accept, daemonVars
<1>3. /\ client'[c].fd = f /\ client'[c].stream = client[c].stream
      /\ client'[c].sent = client[c].sent /\ client'[c].answers = client[c].answers
      /\ client'[c].taken = client[c].taken
      /\ \A d \in Clients \ {c} : client'[d] = client[d]
  BY <1>0, <1>1, <1>2 DEF ClientStates
<1>4. /\ peer'[f].want = "R" /\ peer'[f].buf = "empty"
      /\ \A g \in Fds \ {f} : peer'[g] = peer[g]
  BY <1>0, <1>1, <1>2 DEF OnPeerConnected, Peer0
<1>5. \A d \in Clients : client[d].fd # f
  BY <1>2 DEF RequestInv, Connections
<1>6. Connections'
  BY <1>2, <1>3, <1>4, <1>5 DEF RequestInv, Connections
<1>7. ASSUME NEW d \in Clients
      PROVE  Waiting(d)' /\ Answers(d)' /\ InBuffer(d)' /\ InStream(d)'
  <2>1. Waiting(d) /\ Answers(d) /\ InBuffer(d) /\ InStream(d)
    BY DEF RequestInv
  <2>2. CASE d = c
    BY <1>2, <1>3, <1>4, <2>1, <2>2 DEF Waiting, Answers, InBuffer, InStream, Newer
  <2>3. CASE d # c
    BY <1>2, <1>3, <1>4, <1>5, <2>1, <2>3 DEF Waiting, Answers, InBuffer, InStream, Newer
  <2> QED
    BY <2>2, <2>3
<1> QED
  BY <1>6, <1>7 DEF RequestInv

\* A descriptor that is closed is nobody's, and what was in the stream is gone.
LEMMA CloseStep ==
  ASSUME TypeOK, RequestInv, NEW f \in Fds, OnError(f) \/ OnDisconnect(f)
  PROVE  RequestInv'
<1>0. client \in [Clients -> ClientStates] /\ peer \in [Fds -> PeerStates]
  BY TypeUnfold
<1>1. CloseFd(f) /\ request' = request /\ peer[f].want # "closed" /\ WasClosed \notin Fds
  BY NamesApart DEF OnError, OnDisconnect, Watched, daemonVars
<1>2. PICK c \in Clients : c = Owner(f) /\ client[c].fd = f
  BY <1>1, OwnerIs DEF RequestInv
<1>3. /\ client'[c].fd = WasClosed /\ client'[c].stream = << >>
      /\ client'[c].sent = client[c].sent /\ client'[c].answers = client[c].answers
      /\ client'[c].taken = client[c].taken
      /\ \A d \in Clients \ {c} : client'[d] = client[d]
  BY <1>0, <1>1, <1>2 DEF ClientStates, CloseFd
<1>4. /\ peer'[f].want = "closed" /\ \A g \in Fds \ {f} : peer'[g] = peer[g]
  BY <1>0, <1>1 DEF CloseFd, PeerStates
<1>5. \A d \in Clients \ {c} : client[d].fd # f
  BY <1>2 DEF RequestInv, Connections
<1>6. Connections'
  BY <1>1, <1>3, <1>4, <1>5 DEF RequestInv, Connections
<1>7. ASSUME NEW d \in Clients
      PROVE  Waiting(d)' /\ Answers(d)' /\ InBuffer(d)' /\ InStream(d)'
  <2>1. Waiting(d) /\ Answers(d) /\ InBuffer(d) /\ InStream(d)
    BY DEF RequestInv
  <2>2. CASE d = c
    BY <1>1, <1>3, <2>1, <2>2 DEF Waiting, Answers, InBuffer, InStream, Newer
  <2>3. CASE d # c
    BY <1>1, <1>3, <1>4, <1>5, <2>1, <2>3 DEF Waiting, Answers, InBuffer, InStream, Newer
  <2> QED
    BY <2>2, <2>3
<1> QED
  BY <1>6, <1>7 DEF RequestInv

\* recv: the first request that begins in the stream goes to the buffer, the rest
\* of the stream is dropped.
LEMMA RecvStep ==
  ASSUME TypeOK, RequestInv, NEW f \in Fds, OnPeerReadyRecv(f)
  PROVE  RequestInv'
<1>0. client \in [Clients -> ClientStates] /\ peer \in [Fds -> PeerStates]
  BY TypeUnfold
<1>1. peer[f].want # "closed" /\ request' = request
  BY DEF OnPeerReadyRecv, Watched, daemonVars
<1>2. PICK c \in Clients : c = Owner(f) /\ client[c].fd = f
  BY <1>1, OwnerIs DEF RequestInv
<1>3. /\ client'[c].fd = f /\ client'[c].stream = << >>
      /\ client'[c].sent = client[c].sent /\ client'[c].answers = client[c].answers
      /\ client'[c].taken = client[c].taken
      /\ \A d \in Clients \ {c} : client'[d] = client[d]
  BY <1>0, <1>2 DEF ClientStates, OnPeerReadyRecv
<1>4. /\ peer'[f].want # "closed" /\ \A g \in Fds \ {f} : peer'[g] = peer[g]
      /\ \/ peer'[f].buf = peer[f].buf /\ peer'[f].msg = peer[f].msg
         \/ \E i \in DOMAIN client[c].stream :
              /\ client[c].stream[i].part = "head"
              /\ peer'[f].msg = client[c].stream[i].msg
  <2> DEFINE st == client[c].stream
             old == peer[f]
             p == Parsed(old, st)
  <2>1. old \in PeerStates /\ st \in Seq(Parts)
    BY <1>0 DEF ClientStates
  <2>2. peer' = [peer EXCEPT ![f] = IF p.buf = "message" THEN [p EXCEPT !.want = "W"] ELSE p]
    BY <1>2 DEF OnPeerReadyRecv, Stream
  <2> HIDE DEF st, old
  <2>3. \/ p = old
        \/ \E i \in DOMAIN st :
             /\ st[i].part = "head"
             /\ \E b \in {"message", "head"} :
                  p = [old EXCEPT !.staged = TRUE, !.msg = st[i].msg, !.buf = b]
    BY <2>1, ParsedIs, Zenon
  <2>4. /\ p.want = old.want
        /\ \/ p.buf = old.buf /\ p.msg = old.msg
           \/ \E i \in DOMAIN st : st[i].part = "head" /\ p.msg = st[i].msg
    <3> HIDE DEF p
    <3>1. CASE p = old
      BY <2>1, <3>1 DEF PeerStates
    <3>2. ASSUME NEW i \in DOMAIN st, st[i].part = "head", NEW b \in {"message", "head"},
                 p = [old EXCEPT !.staged = TRUE, !.msg = st[i].msg, !.buf = b]
          PROVE  p.want = old.want /\ p.msg = st[i].msg
      BY <2>1, <3>2 DEF PeerStates
    <3> QED
      BY <2>3, <3>1, <3>2
  <2>5. /\ peer'[f].want \in {p.want, "W"} /\ peer'[f].buf = p.buf /\ peer'[f].msg = p.msg
        /\ \A g \in Fds \ {f} : peer'[g] = peer[g]
    <3>1. peer'[f] = (IF p.buf = "message" THEN [p EXCEPT !.want = "W"] ELSE p)
          /\ \A g \in Fds \ {f} : peer'[g] = peer[g]
      BY <1>0, <2>2
    <3> HIDE DEF p
    <3>2. /\ [p EXCEPT !.want = "W"].want = "W" /\ [p EXCEPT !.want = "W"].buf = p.buf
          /\ [p EXCEPT !.want = "W"].msg = p.msg
      BY <2>1, <2>3 DEF PeerStates
    <3> QED
      BY <3>1, <3>2
  <2> QED
    BY <1>1, <2>4, <2>5 DEF st, old
<1>5. \A d \in Clients \ {c} : client[d].fd # f
  BY <1>2 DEF RequestInv, Connections
<1>6. Connections'
  BY <1>1, <1>2, <1>3, <1>4, <1>5 DEF RequestInv, Connections
<1>7. ASSUME NEW d \in Clients
      PROVE  Waiting(d)' /\ Answers(d)' /\ InBuffer(d)' /\ InStream(d)'
  <2>1. Waiting(d) /\ Answers(d) /\ InBuffer(d) /\ InStream(d)
    BY DEF RequestInv
  <2>2. CASE d = c
    <3>1. CASE peer'[f].buf = peer[f].buf /\ peer'[f].msg = peer[f].msg
      BY <1>1, <1>2, <1>3, <2>1, <2>2, <3>1 DEF Waiting, Answers, InBuffer, InStream, Newer
    <3>2. ASSUME NEW i \in DOMAIN client[c].stream, client[c].stream[i].part = "head",
                 peer'[f].msg = client[c].stream[i].msg
          PROVE  Waiting(d)' /\ Answers(d)' /\ InBuffer(d)' /\ InStream(d)'
      BY <1>1, <1>2, <1>3, <2>1, <2>2, <3>2 DEF Waiting, Answers, InBuffer, InStream, Newer
    <3> QED
      BY <1>4, <3>1, <3>2
  <2>3. CASE d # c
    BY <1>1, <1>3, <1>4, <1>5, <2>1, <2>3 DEF Waiting, Answers, InBuffer, InStream, Newer
  <2> QED
    BY <2>2, <2>3
<1> QED
  BY <1>6, <1>7 DEF RequestInv

\* send: the request in the buffer is noted for main and answered, or the answer
\* cannot be sent; the buffer is empty then.
LEMMA SendStep ==
  ASSUME TypeOK, RequestInv, NEW f \in Fds, OnPeerReadySend(f)
  PROVE  RequestInv'
<1>0. client \in [Clients -> ClientStates] /\ peer \in [Fds -> PeerStates]
  BY TypeUnfold
<1>1. peer[f].want = "W" /\ peer[f].buf = "message"
  BY DEF OnPeerReadySend, Watched
<1>2. PICK c \in Clients : c = Owner(f) /\ client[c].fd = f
  BY <1>1, OwnerIs DEF RequestInv
<1>3. PICK m : m = peer[f].msg
  OBVIOUS
<1>4. request' = request \/ request' = m
  BY <1>3 DEF OnPeerReadySend, JsonHandleRequest
<1>5. /\ \/ client'[c].answers = Append(client[c].answers, m)
         \/ client'[c].answers = client[c].answers
      /\ client'[c].fd = f /\ client'[c].stream = client[c].stream
      /\ client'[c].sent = client[c].sent /\ client'[c].taken = client[c].taken
      /\ \A d \in Clients \ {c} : client'[d] = client[d]
  <2>1. \/ client' = [client EXCEPT ![c].answers = Append(@, m)]
        \/ client' = [client EXCEPT ![c].marks = @ \cup {"send_failed"}]
    BY <1>2, <1>3 DEF OnPeerReadySend
  <2> QED
    BY <1>0, <1>2, <2>1 DEF ClientStates
<1>6. /\ peer'[f].want # "closed" /\ peer'[f].buf = "empty"
      /\ \A g \in Fds \ {f} : peer'[g] = peer[g]
  <2>1. peer' = [peer EXCEPT ![f] = Answered(@)] \/ peer' = [peer EXCEPT ![f] = Cleared(@)]
    BY DEF OnPeerReadySend
  <2>2. /\ Answered(peer[f]).want = "R" /\ Answered(peer[f]).buf = "empty"
        /\ Cleared(peer[f]).want = "W" /\ Cleared(peer[f]).buf = "empty"
    BY <1>0, <1>1 DEF Answered, Cleared, PeerStates
  <2> QED
    BY <1>0, <2>1, <2>2
<1>7. \A d \in Clients \ {c} : client[d].fd # f
  BY <1>2 DEF RequestInv, Connections
<1>8. Connections'
  BY <1>1, <1>2, <1>5, <1>6, <1>7 DEF RequestInv, Connections
<1>9. /\ m.from = c /\ m.n \in Nat /\ m.n <= client[c].sent /\ Newer(c, m.n) /\ m \in Msgs
  <2>1. m.from = c /\ m.n \in Nat /\ m.n <= client[c].sent /\ Newer(c, m.n)
    BY <1>1, <1>2, <1>3, NumberTypes DEF RequestInv, InBuffer
  <2> QED
    BY <1>0, <1>3, <2>1, NamesApart DEF PeerStates, NoMsg
<1>10. Waiting(c)' /\ Answers(c)' /\ InBuffer(c)' /\ InStream(c)'
  <2>1. Waiting(c) /\ Answers(c) /\ InBuffer(c) /\ InStream(c)
    BY DEF RequestInv
  <2>T. /\ request.n \in Nat /\ client[c].sent \in Nat /\ client[c].taken \in Nat
        /\ client[c].answers \in Seq(Msgs)
        /\ \A i \in DOMAIN client[c].answers : client[c].answers[i].n \in Nat
        /\ \A i \in DOMAIN client[c].stream : client[c].stream[i].msg.n \in Nat
    BY NumberTypes
  <2>2. \A i \in DOMAIN client'[c].answers :
          \/ i \in DOMAIN client[c].answers /\ client'[c].answers[i] = client[c].answers[i]
          \/ i = Len(client[c].answers) + 1 /\ client'[c].answers[i] = m
    <3>1. CASE client'[c].answers = Append(client[c].answers, m)
      BY <1>9, <2>T, <3>1, AppendProperties
    <3> QED
      BY <1>5, <3>1
  <2>3. Waiting(c)'
    BY <1>4, <1>5, <1>9, <2>1, <2>T DEF Waiting, Newer
  <2>4. Answers(c)'
    <3> SUFFICES ASSUME NEW i \in DOMAIN client'[c].answers
                 PROVE  /\ client'[c].answers[i].from = c
                        /\ client'[c].answers[i].n <= client'[c].sent
                        /\ \A j \in 1 .. (i - 1) :
                              client'[c].answers[j].n < client'[c].answers[i].n
      BY DEF Answers
    <3>1. DOMAIN client[c].answers = 1 .. Len(client[c].answers) /\ Len(client[c].answers) \in Nat
      BY <2>T
    <3>2. \A j \in DOMAIN client[c].answers : client'[c].answers[j] = client[c].answers[j]
      BY <1>5, <2>T
    <3>3. CASE i \in DOMAIN client[c].answers
      <4>1. \A j \in 1 .. (i - 1) : j \in DOMAIN client[c].answers
        BY <3>1, <3>3
      <4> QED
        BY <1>5, <2>1, <3>2, <3>3, <4>1 DEF Answers
    <3>4. CASE i = Len(client[c].answers) + 1 /\ client'[c].answers[i] = m
      BY <1>5, <1>9, <3>1, <3>2, <3>4 DEF Newer
    <3> QED
      BY <2>2, <3>3, <3>4
  <2>5. InBuffer(c)'
    BY <1>5, <1>6 DEF InBuffer
  <2>6. InStream(c)'
    <3> SUFFICES ASSUME NEW i \in DOMAIN client[c].stream, client[c].stream[i].part = "head",
                        NEW n, n = client[c].stream[i].msg.n
                 PROVE  /\ client[c].stream[i].msg.from = c
                        /\ n <= client'[c].sent /\ Newer(c, n)'
      BY <1>5, <1>6 DEF InStream, Newer
    <3>1. /\ client[c].stream[i].msg.from = c /\ n <= client[c].sent /\ Newer(c, n) /\ n > m.n
      BY <1>1, <1>2, <1>3, <2>1 DEF InStream
    <3>2. Newer(c, n)'
      BY <1>4, <1>5, <2>2, <3>1 DEF Newer
    <3> QED
      BY <1>5, <3>1, <3>2
  <2> QED
    BY <2>3, <2>4, <2>5, <2>6
<1>11. ASSUME NEW d \in Clients, d # c
       PROVE  Waiting(d)' /\ Answers(d)' /\ InBuffer(d)' /\ InStream(d)'
  <2>1. Waiting(d) /\ Answers(d) /\ InBuffer(d) /\ InStream(d)
    BY DEF RequestInv
  <2>2. client'[d] = client[d] /\ client[d].fd # f
    BY <1>5, <1>7, <1>11
  <2>3. request'.from = d => request' = request
    BY <1>4, <1>9, <1>11
  <2> QED
    BY <1>6, <2>1, <2>2, <2>3 DEF Waiting, Answers, InBuffer, InStream, Newer
<1> QED
  BY <1>8, <1>10, <1>11 DEF RequestInv

\* The main thread takes the request that waits for it, and leaves none.
LEMMA TakeStep ==
  ASSUME TypeOK, RequestInv, MonitoringStep
  PROVE  RequestInv'
<1>0. client \in [Clients -> ClientStates]
  BY TypeUnfold
<1>1. /\ request' = NoMsg /\ peer' = peer /\ NoMsg.from \notin Clients
      /\ client' = [c \in Clients |-> IF request.from = c
                                      THEN [client[c] EXCEPT !.taken = request.n]
                                      ELSE client[c]]
  BY NamesApart DEF MonitoringStep, MarkTaken, NoMsg
<1>2. \A d \in Clients :
        /\ client'[d].fd = client[d].fd /\ client'[d].stream = client[d].stream
        /\ client'[d].sent = client[d].sent /\ client'[d].answers = client[d].answers
        /\ client'[d].taken = IF request.from = d THEN request.n ELSE client[d].taken
  BY <1>0, <1>1 DEF ClientStates
<1>3. Connections'
  BY <1>1, <1>2 DEF RequestInv, Connections
<1>4. ASSUME NEW d \in Clients
      PROVE  Waiting(d)' /\ Answers(d)' /\ InBuffer(d)' /\ InStream(d)'
  <2>1. Waiting(d) /\ Answers(d) /\ InBuffer(d) /\ InStream(d)
    BY DEF RequestInv
  <2> QED
    BY <1>1, <1>2, <2>1 DEF Waiting, Answers, InBuffer, InStream, Newer
<1> QED
  BY <1>3, <1>4 DEF RequestInv

\* The invariant of the requests, for any number of clients, descriptors and
\* requests: each stage of a request's way holds newer ones than the stages behind.
THEOREM MonitoringInvariant == Spec => [](TypeOK /\ RequestInv)
<1>1. Init => TypeOK /\ RequestInv
  <2> SUFFICES ASSUME Init PROVE TypeOK /\ RequestInv
    OBVIOUS
  <2>1. Client0 \in ClientStates /\ Client0.fd = NoFd /\ Client0.stream = << >>
        /\ Client0.answers = << >> /\ Client0.taken = 0 /\ Client0.sent = 0
    BY DEF Client0, ClientStates, Marks
  <2>2. Peer0 \in PeerStates /\ Peer0.want = "closed"
    BY DEF Peer0, PeerStates
  <2>3. request.from \notin Clients
    BY NamesApart DEF Init, Uninitialised, NoMsg
  <2>4. TypeOK
    BY <2>1, <2>2, TypeUnfold DEF Init
  <2>5. \A c \in Clients : client[c] = Client0
    BY DEF Init
  <2>6. Connections
    BY <2>1, <2>2, <2>5, NamesApart DEF Init, Connections
  <2>7. \A c \in Clients : Waiting(c) /\ Answers(c) /\ InBuffer(c) /\ InStream(c)
    BY <2>1, <2>3, <2>5, NamesApart DEF Waiting, Answers, InBuffer, InStream
  <2> QED
    BY <2>4, <2>6, <2>7 DEF RequestInv
<1>2. TypeOK /\ RequestInv /\ [Next]_vars => TypeOK' /\ RequestInv'
  <2> SUFFICES ASSUME TypeOK, RequestInv, [Next]_vars PROVE RequestInv'
    BY TypeStep
  <2>1. ASSUME UNCHANGED <<client, peer, request>> PROVE RequestInv'
    BY <2>1 DEF RequestInv, Connections, Waiting, Answers, InBuffer, InStream, Newer
  <2>2. CASE ClientStep
    BY <2>2, ClientsKept, KeptStep
  <2>3. CASE MonitoringThread
    <3>1. CASE AcceptFails \/ CheckStop
      BY <2>1, <3>1 DEF AcceptFails, CheckStop, daemonVars
    <3> QED
      BY <2>3, <3>1, AcceptStep, CloseStep, RecvStep, SendStep DEF MonitoringThread, Event
  <2>4. CASE Main
    <3>1. CASE StopGnss \/ StopMonitoring \/ FreeMonitoring
      BY <2>1, <3>1 DEF StopGnss, StopMonitoring, FreeMonitoring
    <3> QED
      BY <2>4, <3>1, TakeStep DEF Main
  <2>5. CASE GnssThread
    BY <2>1, <2>5 DEF GnssThread, GnssRound, GnssExit
  <2>6. CASE UNCHANGED vars
    BY <2>1, <2>6 DEF vars
  <2> QED
    BY <2>2, <2>3, <2>4, <2>5, <2>6 DEF Next
<1> QED
  BY <1>1, <1>2, PTL DEF Spec

\* A request waits for the main thread at most once: what main took does not come
\* back, so no action is performed twice.
THEOREM MonitoringTakenOnce == Spec => []TakenOnce
<1>1. TypeOK /\ RequestInv => TakenOnce
  <2> SUFFICES ASSUME TypeOK, RequestInv, NEW c \in Clients, request.from = c
               PROVE  request.n > client[c].taken
    BY DEF TakenOnce
  <2> QED
    BY NumberTypes DEF RequestInv, Waiting
<1> QED
  BY <1>1, MonitoringInvariant, PTL

\* A client gets answers to its own requests only, in order and one per request at
\* most, whoever used its descriptor before.
THEOREM MonitoringAnswersAreYours == Spec => []AnswersAreYours
<1>1. TypeOK /\ RequestInv => AnswersAreYours
  <2> SUFFICES ASSUME TypeOK, RequestInv, NEW c \in Clients,
                      NEW i \in DOMAIN client[c].answers
               PROVE  /\ client[c].answers[i].from = c
                      /\ i > 1 => client[c].answers[i - 1].n < client[c].answers[i].n
    BY DEF AnswersAreYours
  <2>1. Answers(c) /\ client[c].answers \in Seq(Msgs)
    BY NumberTypes DEF RequestInv
  <2>2. i \in Nat /\ (i > 1 => (i - 1) \in 1 .. (i - 1))
    BY <2>1
  <2> QED
    BY <2>1, <2>2 DEF Answers
<1> QED
  BY <1>1, MonitoringInvariant, PTL

-----------------------------------------------------------------------------
\* The shutdown frees the structure when both threads that use it are gone: the
\* GNSS thread is joined before monitoring_stop, the monitoring thread in it.
THEOREM MonitoringFreedUnused == Spec => []FreedUnused
<1>1. Init => ShutdownInv
  BY DEF Init, ShutdownInv
<1>2. ShutdownInv /\ [Next]_vars => ShutdownInv'
  <2> SUFFICES ASSUME ShutdownInv, [Next]_vars PROVE ShutdownInv'
    OBVIOUS
  <2> USE DEF ShutdownInv, daemonVars
  <2>1. CASE ClientStep
    BY <2>1 DEF ClientStep, Connect, SendRequest, SendTail, Close
  <2>2. CASE MonitoringThread
    BY <2>2 DEF MonitoringThread, Accept, AcceptFails, CheckStop, Event, OnError, OnDisconnect,
                OnPeerReadyRecv, OnPeerReadySend, Watched
  <2>3. CASE Main
    BY <2>3 DEF Main, MonitoringStep, StopGnss, StopMonitoring, FreeMonitoring
  <2>4. CASE GnssThread
    BY <2>4 DEF GnssThread, GnssRound, GnssExit
  <2>5. CASE UNCHANGED vars
    BY <2>5 DEF vars
  <2> QED
    BY <2>1, <2>2, <2>3, <2>4, <2>5 DEF Next
<1>3. ShutdownInv => FreedUnused
  BY DEF ShutdownInv, FreedUnused
<1> QED
  BY <1>1, <1>2, <1>3, PTL DEF Spec

=============================================================================
