-------------------------------- MODULE RUDP --------------------------------
(***************************************************************************)
(* The reliable datagram socket of isabel.lib.reliableudp: a client socket *)
(* connects to a RUDPServerSocket, each end numbers its packets modulo     *)
(* 0xFFFF, keeps every packet scheduled for retransmission until it is     *)
(* acknowledged, buffers what arrives in rcvdMap and hands it to the       *)
(* reader by number.  The network loses, reorders and (Duplicates)         *)
(* duplicates datagrams.                                                   *)
(*                                                                         *)
(* A packet carries, beside its number, the ordinal of the call that made  *)
(* it: the ordinal stands for the payload and is never read by the code.   *)
(* The steps interleave the threads of a socket: the writer (SendData,     *)
(* CloseOut, Close), the reader (Receive, ReceiveNull), the thread in the  *)
(* constructor (ConnectReturn, ConnectTimeout), the thread in accept, the  *)
(* RUDPReceiver thread (the Arrive actions, StoreData) and the executor of *)
(* the retransmissions (Retransmit).                                       *)
(***************************************************************************)
EXTENDS Integers, Sequences, FiniteSets

CONSTANTS Modulus,     \* 0xFFFF in getNextSeq
          FirstSeq,    \* the number of the SYN: 15 in connect
          MaxQueue,    \* MAX_QUEUE: packets a writer may leave unacknowledged
          MaxRcvd,     \* MAX_RCVD_QUEUE: numbers ahead of the reader accepted
          Duplicates,  \* may the network duplicate a datagram?
          MaxPackets,  \* bound: the packets each peer numbers after the SYN
          MaxResets    \* bound: the calls to closeOut at each peer

Peers == {"client", "server"}
Peer(e) == IF e = "client" THEN "server" ELSE "client"

ASSUME ConstantsAssumption ==
  /\ Modulus \in Nat \ {0}
  /\ FirstSeq \in 0..(Modulus - 1)
  /\ MaxQueue \in Nat \ {0}
  /\ MaxRcvd \in Nat \ {0}
  /\ Duplicates \in BOOLEAN
  /\ MaxPackets \in [Peers -> Nat]
  /\ MaxResets \in [Peers -> Nat]

\* The window a receiver accepts and the numbers it takes for duplicates
\* are disjoint: 640 + 2 * 64 against 0xFFFF.
ASSUME WindowAssumption == MaxRcvd + 2 * MaxQueue <= Modulus

Seqs == 0..(Modulus - 1)
SocketStates == {"DISCONNECTED", "CONNECTED", "CLOSE_SENT", "CLOSE_RCVD",
                 "CLOSING"}
Packets == [type : {"SYN", "DAT", "RST", "ACK"}, seq : Seqs, n : Nat]

VARIABLES
  state,          \* state[e], "NONE" while the server has no socket yet
  connecting,     \* the client's constructor: "waiting", "done", "failed"
  accepting,      \* RUDPServerSocket.accepting
  lastConnection, \* RUDPServerSocket.lastConnection # null
  lastSeqSent,    \* number of the last packet sent
  lastSeqRcvd,    \* number of the last packet handed to the reader
  resetSeqNumber, \* number of the last RST received, 0 initially
  unackMap,       \* packets waiting for an ACK, at most one per number
  tasks,          \* packets scheduled for retransmission by the executor
  rcvdMap,        \* packets received and not handed over, one per number
  storing,        \* the DAT the receiver thread has found in the window
  closed,         \* has close(linger) destroyed the socket?
  net,            \* net[e]: datagrams in flight to e
  sent,           \* history: types of the packets numbered by e, in order
  delivered,      \* history: ordinals handed to the reader of e, in order
  eof             \* has receive() returned null at e?

connectVars == <<connecting, accepting, lastConnection>>
sendVars == <<lastSeqSent, unackMap, tasks, sent>>
recvVars == <<lastSeqRcvd, rcvdMap, delivered, eof>>
vars == <<state, connectVars, sendVars, recvVars, resetSeqNumber, storing,
          closed, net>>

----------------------------------------------------------------------------
(* Sequence numbers.  Beside a definition stand, here and below, faulty      *)
(* variants of it: they show that the properties can tell the difference.  *)

NextSeqUnwrapped(s) == s + 1
NextSeq(s) == (s + 1) % Modulus

InRangeUnwrapped(s, last) == s >= last /\ s - last < MaxRcvd
InRangeBeyond(s, last) == IF s >= last THEN s > last /\ s - last < MaxRcvd
                                       ELSE Modulus - last + s < MaxRcvd

\* Is number s inside the receive window of a reader that is at last?
InRange(s, last) == IF s >= last THEN s - last < MaxRcvd
                                 ELSE Modulus - last + s < MaxRcvd

IsDuplicatedOrNext(s, last) == last + 1 >= s /\ last - s < 2 * MaxQueue
IsDuplicated(s, last) == last > s /\ last - s < 2 * MaxQueue

(* Maps keyed by sequence number, as sets of packets *)

RemoveSeq(map, s) == {p \in map : p.seq # s}
PutPacket(map, p) == RemoveSeq(map, p.seq) \cup {p}

(* Packets *)

Packet(type, s, n) == [type |-> type, seq |-> s, n |-> n]
AckOf(p) == Packet("ACK", p.seq, 0)
Syn == Packet("SYN", FirstSeq, 0)

(* The network: e sends p; the datagram p in flight to e is consumed *)

Sending(e, p) == net' = [net EXCEPT ![Peer(e)] = @ \cup {p}]
RestOf(e, p) == {net[e] \ {p}} \cup (IF Duplicates THEN {net[e]} ELSE {})
Consuming(e, p) == \E rest \in RestOf(e, p) : net' = [net EXCEPT ![e] = rest]
Answering(e, p) == \E rest \in RestOf(e, p) :
                     net' = [net EXCEPT ![e] = rest,
                                        ![Peer(e)] = @ \cup {AckOf(p)}]

----------------------------------------------------------------------------
(* Initially the client's constructor has sent its SYN and waits. *)

Init ==
  /\ state = [e \in Peers |-> IF e = "client" THEN "DISCONNECTED" ELSE "NONE"]
  /\ connecting = "waiting"
  /\ accepting = FALSE
  /\ lastConnection = FALSE
  /\ lastSeqSent = [e \in Peers |-> FirstSeq]
  /\ lastSeqRcvd = [e \in Peers |-> FirstSeq]
  /\ resetSeqNumber = [e \in Peers |-> 0]
  /\ unackMap = [e \in Peers |-> IF e = "client" THEN {Syn} ELSE {}]
  /\ tasks = [e \in Peers |-> IF e = "client" THEN {Syn} ELSE {}]
  /\ rcvdMap = [e \in Peers |-> {}]
  /\ storing = [e \in Peers |-> {}]
  /\ closed = [e \in Peers |-> FALSE]
  /\ net = [e \in Peers |-> IF e = "server" THEN {Syn} ELSE {}]
  /\ sent = [e \in Peers |-> <<>>]
  /\ delivered = [e \in Peers |-> <<>>]
  /\ eof = [e \in Peers |-> FALSE]

\* The program at e holds a socket: the constructor or accept has returned.
Usable(e) == IF e = "client" THEN connecting = "done"
                             ELSE state["server"] # "NONE"

----------------------------------------------------------------------------
(* Connecting *)

\* connect(): the ACK has cancelled the retransmission of the SYN.
ConnectReturn ==
  /\ connecting = "waiting"
  /\ Syn \notin tasks["client"]
  /\ connecting' = "done"
  /\ state' = [state EXCEPT !["client"] = "CONNECTED"]
  /\ UNCHANGED <<accepting, lastConnection, sendVars, recvVars,
                 resetSeqNumber, storing, closed, net>>

\* connect(): CONNECT_TIMEOUT has passed without the ACK.
ConnectTimeout ==
  /\ connecting = "waiting"
  /\ Syn \in tasks["client"]
  /\ connecting' = "failed"
  /\ tasks' = [tasks EXCEPT !["client"] = @ \ {Syn}]
  /\ UNCHANGED <<state, accepting, lastConnection, lastSeqSent, unackMap,
                 sent, recvVars, resetSeqNumber, storing, closed, net>>

\* accept() is called (once: the system has one client).
AcceptCall ==
  /\ ~accepting /\ state["server"] = "NONE"
  /\ accepting' = TRUE
  /\ UNCHANGED <<state, connecting, lastConnection, sendVars, recvVars,
                 resetSeqNumber, storing, closed, net>>

\* accept() wakes up, builds and registers the socket, whose numbers start
\* at the number of the SYN, and lets the receiver thread go on.
AcceptReturn ==
  /\ accepting /\ lastConnection
  /\ accepting' = FALSE
  /\ lastConnection' = FALSE
  /\ state' = [state EXCEPT !["server"] = "CONNECTED"]
  /\ UNCHANGED <<connecting, sendVars, recvVars, resetSeqNumber, storing,
                 closed, net>>

----------------------------------------------------------------------------
(* The writer *)

\* The next number is taken by a packet of that type, which is scheduled for
\* retransmission, entered into unackMap and sent.
SendNumbered(e, type) ==
  LET p == Packet(type, NextSeq(lastSeqSent[e]), Len(sent[e]) + 1)
  IN  /\ lastSeqSent' = [lastSeqSent EXCEPT ![e] = NextSeq(@)]
      /\ tasks' = [tasks EXCEPT ![e] = @ \cup {p}]
      /\ unackMap' = [unackMap EXCEPT ![e] = PutPacket(@, p)]
      /\ sent' = [sent EXCEPT ![e] = Append(@, type)]
      /\ Sending(e, p)

\* sendData passes its loop: the state of the socket is looked at only while
\* the queue is full.
SendData(e) ==
  /\ Usable(e) /\ ~closed[e]
  /\ Cardinality(unackMap[e]) < MaxQueue
  /\ Len(sent[e]) < MaxPackets[e]
  /\ SendNumbered(e, "DAT")
  /\ UNCHANGED <<state, connectVars, recvVars, resetSeqNumber, storing,
                 closed>>

\* What closeOut() makes of the state; in any other state it only logs.
AfterCloseOut(s) == IF s = "CONNECTED" THEN "CLOSE_SENT"
                    ELSE IF s = "CLOSE_RCVD" THEN "CLOSING" ELSE s

\* closeOut(), which does not wait for room in the queue.
CloseOut(e) ==
  /\ Usable(e) /\ ~closed[e]
  /\ Len(sent[e]) < MaxPackets[e]
  /\ Cardinality({i \in 1..Len(sent[e]) : sent[e][i] = "RST"}) < MaxResets[e]
  /\ SendNumbered(e, "RST")
  /\ state' = [state EXCEPT ![e] = AfterCloseOut(@)]
  /\ UNCHANGED <<connectVars, recvVars, resetSeqNumber, storing, closed>>

\* close(linger), which every caller makes after closeOut(): the executor is
\* shut down and the socket is unregistered from the receiver.
Close(e) ==
  /\ Usable(e) /\ ~closed[e]
  /\ \E i \in 1..Len(sent[e]) : sent[e][i] = "RST"
  /\ closed' = [closed EXCEPT ![e] = TRUE]
  /\ tasks' = [tasks EXCEPT ![e] = {}]
  /\ UNCHANGED <<state, connectVars, lastSeqSent, unackMap, sent, recvVars,
                 resetSeqNumber, storing, net>>

\* The executor runs the retransmission task of p.
Retransmit(e, p) ==
  /\ p \in tasks[e]
  /\ Sending(e, p)
  /\ UNCHANGED <<state, connectVars, sendVars, recvVars, resetSeqNumber,
                 storing, closed>>

----------------------------------------------------------------------------
(* The reader *)

AtEndUnread(e) == state[e] \in {"CLOSE_RCVD", "CLOSING"}
AtEndLate(e) == state[e] # "CONNECTED" /\ lastSeqRcvd[e] = resetSeqNumber[e]

\* The condition under which receive() gives up and returns null.
AtEnd(e) == \/ state[e] = "DISCONNECTED"
            \/ state[e] # "CONNECTED" /\ lastSeqRcvd[e] = resetSeqNumber[e] - 1

AvailableInAnyOrder(e, p) == p \in rcvdMap[e]

\* rcvdMap holds the packet with the next number.
Available(e, p) == p \in rcvdMap[e] /\ p.seq = NextSeq(lastSeqRcvd[e])

\* receive() hands it to the reader.
Receive(e) ==
  /\ Usable(e) /\ ~eof[e]
  /\ \E p \in rcvdMap[e] :
       /\ Available(e, p)
       /\ rcvdMap' = [rcvdMap EXCEPT ![e] = RemoveSeq(@, p.seq)]
       /\ lastSeqRcvd' = [lastSeqRcvd EXCEPT ![e] = p.seq]
       /\ delivered' = [delivered EXCEPT ![e] = Append(@, p.n)]
  /\ UNCHANGED <<state, connectVars, sendVars, eof, resetSeqNumber, storing,
                 closed, net>>

\* receive() returns null.
ReceiveNull(e) ==
  /\ Usable(e) /\ ~eof[e]
  /\ AtEnd(e)
  /\ eof' = [eof EXCEPT ![e] = TRUE]
  /\ UNCHANGED <<state, connectVars, sendVars, lastSeqRcvd, rcvdMap,
                 delivered, resetSeqNumber, storing, closed, net>>

----------------------------------------------------------------------------
(* The receiver thread: RUDPReceiver.run and packetReceived *)

\* A client socket registers itself before it sends its SYN, a server socket
\* in accept(); close() unregisters it.
Registered(e) == state[e] # "NONE" /\ ~closed[e]

\* The receiver thread of e is free to take datagram p from the network.  It
\* is not while it waits in RUDPServerSocket.processPacket for accept().
Takes(e, p) == p \in net[e] /\ storing[e] = {} /\ ~(e = "server" /\ lastConnection)

ArriveAck(e, p) ==
  /\ Takes(e, p) /\ Registered(e) /\ p.type = "ACK"
  /\ tasks' = [tasks EXCEPT ![e] = @ \ {q \in unackMap[e] : q.seq = p.seq}]
  /\ unackMap' = [unackMap EXCEPT ![e] = RemoveSeq(@, p.seq)]
  /\ Consuming(e, p)
  /\ UNCHANGED <<state, connectVars, lastSeqSent, sent, recvVars,
                 resetSeqNumber, storing, closed>>

\* A DAT inside the window.  inRange looks at lastSeqRcvd here, isDuplicated
\* looks at it again in StoreData: the reader may advance in between.  The
\* ACK cannot leave once close() has closed the client's datagram socket.
ArriveData(e, p) ==
  /\ Takes(e, p) /\ Registered(e) /\ p.type = "DAT"
  /\ InRange(p.seq, lastSeqRcvd[e])
  /\ storing' = [storing EXCEPT ![e] = {p}]
  /\ Consuming(e, p)
  /\ UNCHANGED <<state, connectVars, sendVars, recvVars, resetSeqNumber,
                 closed>>

StoreData(e) ==
  \E p \in storing[e] :
    /\ rcvdMap' = IF IsDuplicated(p.seq, lastSeqRcvd[e]) THEN rcvdMap
                  ELSE [rcvdMap EXCEPT ![e] = PutPacket(@, p)]
    /\ storing' = [storing EXCEPT ![e] = {}]
    /\ IF e = "client" /\ closed[e] THEN UNCHANGED net ELSE Sending(e, AckOf(p))
    /\ UNCHANGED <<state, connectVars, sendVars, lastSeqRcvd, delivered, eof,
                   resetSeqNumber, closed>>

\* Outside the window nothing is stored and nothing is answered.
ArriveOutside(e, p) ==
  /\ Takes(e, p) /\ Registered(e) /\ p.type = "DAT"
  /\ ~InRange(p.seq, lastSeqRcvd[e])
  /\ Consuming(e, p)
  /\ UNCHANGED <<state, connectVars, sendVars, recvVars, resetSeqNumber,
                 storing, closed>>

\* What the peer's RST makes of the state; in any other state it only logs.
AfterRst(s) == IF s = "CONNECTED" THEN "CLOSE_RCVD"
               ELSE IF s = "CLOSE_SENT" THEN "CLOSING" ELSE s

ArriveRst(e, p) ==
  /\ Takes(e, p) /\ Registered(e) /\ p.type = "RST"
  /\ resetSeqNumber' = [resetSeqNumber EXCEPT ![e] = p.seq]
  /\ state' = [state EXCEPT ![e] = AfterRst(@)]
  /\ Answering(e, p)
  /\ UNCHANGED <<connectVars, sendVars, recvVars, storing, closed>>

\* A SYN that arrives again: its ACK was lost.
ArriveSyn(e, p) ==
  /\ Takes(e, p) /\ Registered(e) /\ p.type = "SYN"
  /\ Answering(e, p)
  /\ UNCHANGED <<state, connectVars, sendVars, recvVars, resetSeqNumber,
                 storing, closed>>

\* processPacket while accept() waits: the ACK is sent before the socket
\* exists, and the receiver thread waits for accept() to build it.
ArriveFirstSyn(p) ==
  /\ Takes("server", p) /\ ~Registered("server") /\ p.type = "SYN"
  /\ accepting
  /\ lastConnection' = TRUE
  /\ Answering("server", p)
  /\ UNCHANGED <<state, connecting, accepting, sendVars, recvVars,
                 resetSeqNumber, storing, closed>>

\* No socket and no server socket wants the datagram.
ArriveNowhere(e, p) ==
  /\ Takes(e, p) /\ ~Registered(e)
  /\ ~(e = "server" /\ accepting /\ p.type = "SYN")
  /\ Consuming(e, p)
  /\ UNCHANGED <<state, connectVars, sendVars, recvVars, resetSeqNumber,
                 storing, closed>>

Arrive(e, p) == \/ ArriveAck(e, p)
                \/ ArriveData(e, p)
                \/ ArriveOutside(e, p)
                \/ ArriveRst(e, p)
                \/ ArriveSyn(e, p)
                \/ e = "server" /\ ArriveFirstSyn(p)
                \/ ArriveNowhere(e, p)

\* The network loses a datagram.
Lose(e, p) ==
  /\ p \in net[e]
  /\ net' = [net EXCEPT ![e] = @ \ {p}]
  /\ UNCHANGED <<state, connectVars, sendVars, recvVars, resetSeqNumber,
                 storing, closed>>

----------------------------------------------------------------------------
Connect == ConnectReturn \/ ConnectTimeout \/ AcceptCall \/ AcceptReturn

Socket(e) == SendData(e) \/ CloseOut(e) \/ Close(e) \/ Receive(e)
             \/ ReceiveNull(e) \/ StoreData(e)

Next == \/ Connect
        \/ \E e \in Peers : \/ Socket(e)
                            \/ \E p \in tasks[e] : Retransmit(e, p)
                            \/ \E p \in net[e] : Arrive(e, p) \/ Lose(e, p)

Spec == Init /\ [][Next]_vars

\* The number of the packet with ordinal n, and the datagrams that can be in
\* flight to e.
SeqOf(n) == (FirstSeq + n) % Modulus
Datagrams(e) ==
  {Syn} \cup {Packet(t, SeqOf(n), n) : t \in {"DAT", "RST"},
                                       n \in 1..MaxPackets[Peer(e)]}
        \cup {Packet("ACK", SeqOf(n), 0) : n \in 0..MaxPackets[e]}

\* Every thread runs, the executor fires again and again, and a datagram sent
\* again and again arrives in the end: the network is lossy and not cut.  The
\* program reads what comes; it need not write or close.
Fairness ==
  /\ WF_vars(ConnectReturn) /\ WF_vars(AcceptCall) /\ WF_vars(AcceptReturn)
  /\ \A e \in Peers :
       /\ WF_vars(Receive(e)) /\ WF_vars(ReceiveNull(e)) /\ WF_vars(StoreData(e))
       /\ \A p \in Datagrams(Peer(e)) : WF_vars(Retransmit(e, p))
       /\ \A p \in Datagrams(e) : SF_vars(Arrive(e, p))

FairSpec == Spec /\ Fairness

----------------------------------------------------------------------------
(* Properties *)

\* The variables have their types: maps hold at most one packet per number.
TypeOK ==
  /\ state \in [Peers -> SocketStates \cup {"NONE"}]
  /\ connecting \in {"waiting", "done", "failed"}
  /\ accepting \in BOOLEAN /\ lastConnection \in BOOLEAN
  /\ lastSeqSent \in [Peers -> Seqs]
  /\ lastSeqRcvd \in [Peers -> Seqs]
  /\ resetSeqNumber \in [Peers -> Seqs]
  /\ unackMap \in [Peers -> SUBSET Packets]
  /\ tasks \in [Peers -> SUBSET Packets]
  /\ rcvdMap \in [Peers -> SUBSET Packets]
  /\ storing \in [Peers -> SUBSET Packets]
  /\ closed \in [Peers -> BOOLEAN]
  /\ net \in [Peers -> SUBSET Packets]
  /\ sent \in [Peers -> Seq({"DAT", "RST"})]
  /\ delivered \in [Peers -> Seq(Nat)]
  /\ eof \in [Peers -> BOOLEAN]

\* The k-th packet a reader is given is the k-th packet its peer sent, and a
\* DAT: nothing is lost, repeated or reordered on the way to receive().
InOrder ==
  \A e \in Peers : \A i \in 1..Len(delivered[e]) :
    /\ delivered[e][i] = i
    /\ i <= Len(sent[Peer(e)]) /\ sent[Peer(e)][i] = "DAT"

\* Has the packet with ordinal n reached the receiving side at e?
Received(e, n) == \/ \E i \in 1..Len(delivered[e]) : delivered[e][i] = n
                  \/ \E p \in rcvdMap[e] : p.n = n

\* A DAT the sender no longer keeps has been stored by its peer: an ACK is
\* never sent for data that is not, or is no longer, in the receiver's hands.
AckedIsReceived ==
  \A e \in Peers : \A n \in 1..Len(sent[e]) :
    sent[e][n] = "DAT" /\ ~(\E p \in unackMap[e] : p.n = n)
      => Received(Peer(e), n)

\* receive() returns null only when the peer has called closeOut() and every
\* packet it sent before has been given to the reader.
EofIsComplete ==
  \A e \in Peers : eof[e] =>
    LET k == Len(delivered[e]) + 1
    IN  k <= Len(sent[Peer(e)]) /\ sent[Peer(e)][k] = "RST"

\* The stream of each direction, as FifoChannel sees it: what is numbered
\* before the first RST is written, the first RST shuts the writer's half.
IsShut(e) == \E i \in 1..Len(sent[e]) : sent[e][i] = "RST"
FirstRst(e) == CHOOSE k \in 1..Len(sent[e]) :
                 sent[e][k] = "RST" /\ \A i \in 1..(k - 1) : sent[e][i] = "DAT"
WrittenLen(e) == IF IsShut(e) THEN FirstRst(e) - 1 ELSE Len(sent[e])
Written(e) == [i \in 1..WrittenLen(e) |-> i]
ToServer == INSTANCE FifoChannel
              WITH written <- Written("client"), shut <- IsShut("client"),
                   read <- delivered["server"], ended <- eof["server"]
ToClient == INSTANCE FifoChannel
              WITH written <- Written("server"), shut <- IsShut("server"),
                   read <- delivered["client"], ended <- eof["client"]

\* Each direction of a connection implements the reliable channel.
StreamsAreFifo == ToServer!Spec /\ ToClient!Spec

\* The connection came to nothing, or a user has closed one of the sockets.
GivenUp == connecting = "failed" \/ \E e \in Peers : closed[e]

\* Under FairSpec: what is sent before a closeOut is handed to the reader.
EverySentIsDelivered ==
  \A e \in Peers : \A n \in 1..MaxPackets[e] :
    (n <= WrittenLen(e)) ~> (Len(delivered[Peer(e)]) >= n \/ GivenUp)

\* Under FairSpec: a writer that waits in sendData for room in the queue goes
\* on, whatever acknowledgements were lost.
WindowReopens ==
  \A e \in Peers :
    (Usable(e) /\ Cardinality(unackMap[e]) >= MaxQueue)
      ~> (Cardinality(unackMap[e]) < MaxQueue \/ GivenUp)

\* Under FairSpec: a reader whose socket has taken note of the peer's RST is
\* told of the end of the stream, unless one of the sockets is destroyed.
\* A RST with number 0 is left out: receive() then waits for a lastSeqRcvd of
\* -1, which no packet has, and never ends.
ResetEndsStream ==
  \A e \in Peers :
    (state[e] \in {"CLOSE_RCVD", "CLOSING"} /\ resetSeqNumber[e] # 0)
      ~> (eof[e] \/ \E f \in Peers : closed[f])

\* The next three do not hold, see the README.  "Will return null if the other
\* half of the connection is closed" (RUDPSocket.java:224): a reader that has
\* been handed everything before the peer's RST is told of the end, unless it
\* destroys its socket.  A RST with number 0 never ends the stream.
OtherHalfEnds ==
  \A e \in Peers :
    (/\ state[e] \in {"CLOSE_RCVD", "CLOSING"}
     /\ Len(delivered[e]) + 1 = Len(sent[Peer(e)]))
      ~> (eof[e] \/ closed[e])

\* "Send ACK anyway" (RUDPSocket.java:468): every packet is acknowledged in
\* the end, however many times it arrives.
EverySentIsAcked ==
  \A e \in Peers : \A n \in 1..MaxPackets[e] :
    (\E p \in unackMap[e] : p.n = n)
      ~> (~(\E p \in unackMap[e] : p.n = n) \/ connecting = "failed")

\* "Will return null if the other half of the connection is closed"
\* (RUDPSocket.java:224): the reader learns of the peer's closeOut().
PeerCloseIsSeen ==
  \A e \in Peers :
    (IsShut(Peer(e)))
      ~> (eof[e] \/ connecting = "failed" \/ \E f \in Peers : closed[f])
=============================================================================
