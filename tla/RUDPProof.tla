----------------------------- MODULE RUDPProof ------------------------------
(***************************************************************************)
(* Proofs about RUDP, for every modulus, window, bound and number of       *)
(* packets: the types, and, for connections that number fewer packets than *)
(* the modulus, the order and completeness of what a reader is given, the  *)
(* truth of every acknowledgement, and that each direction implements      *)
(* FifoChannel with the refinement mapping of RUDP (Written, IsShut,       *)
(* delivered, eof).                                                        *)
(***************************************************************************)
EXTENDS RUDP, TLAPS

\* No peer takes the same number for two packets of one connection: the
\* packets it numbers are fewer than the modulus.
NoReuse == \A e \in Peers : MaxPackets[e] < Modulus

----------------------------------------------------------------------------
(* Sequence numbers *)

\* Lemma: below the modulus, % is the identity; in the next period it takes
\* the modulus away.
LEMMA ModSmall ==
  ASSUME NEW m \in Nat, NEW a \in Nat, a < m
  PROVE  a % m = a
  BY SMT

\* Lemma: a remainder one turn past the modulus.
LEMMA ModNext ==
  ASSUME NEW m \in Nat, NEW a \in Nat, m <= a, a < 2 * m
  PROVE  a % m = a - m
  BY SMT

\* Lemma: the number of the n-th packet, as long as no number is reused.
LEMMA SeqOfValue ==
  ASSUME NEW n \in 0..Modulus
  PROVE  /\ SeqOf(n) = IF FirstSeq + n < Modulus THEN FirstSeq + n
                                                 ELSE FirstSeq + n - Modulus
         /\ SeqOf(n) \in Seqs
<1>1. Modulus \in Nat /\ FirstSeq \in Nat /\ FirstSeq < Modulus /\ n \in Nat
  BY ConstantsAssumption
<1>2. CASE FirstSeq + n < Modulus
  BY <1>1, <1>2, ModSmall DEF SeqOf, Seqs
<1>3. CASE FirstSeq + n >= Modulus
  <2>1. FirstSeq + n < 2 * Modulus
    BY <1>1
  <2>2. (FirstSeq + n) % Modulus = FirstSeq + n - Modulus
    BY <1>1, <1>3, <2>1, ModNext
  <2> QED BY <1>1, <1>3, <2>1, <2>2 DEF SeqOf, Seqs
<1> QED BY <1>1, <1>2, <1>3

\* Lemma: getNextSeq returns a sequence number.
LEMMA NextSeqType ==
  ASSUME NEW s \in Seqs
  PROVE  NextSeq(s) \in Seqs
<1>1. Modulus \in Nat /\ Modulus > 0 /\ s \in Nat /\ s + 1 <= Modulus
  BY ConstantsAssumption DEF Seqs
<1>2. CASE s + 1 < Modulus
  BY <1>1, <1>2, ModSmall DEF NextSeq, Seqs
<1>3. CASE s + 1 = Modulus
  BY <1>1, <1>3, ModNext DEF NextSeq, Seqs
<1> QED BY <1>1, <1>2, <1>3

\* Lemma: getNextSeq computes the number of the next packet.
LEMMA NextSeqOf ==
  ASSUME NEW n \in 0..(Modulus - 1)
  PROVE  NextSeq(SeqOf(n)) = SeqOf(n + 1)
<1>1. Modulus \in Nat /\ Modulus > 0 /\ FirstSeq \in Nat /\ FirstSeq < Modulus
  BY ConstantsAssumption
<1>2. n \in 0..Modulus /\ n + 1 \in 0..Modulus /\ n \in Nat
  BY <1>1
<1>3. SeqOf(n) \in Seqs
  BY <1>2, SeqOfValue
<1>4. CASE SeqOf(n) + 1 < Modulus
  <2>1. NextSeq(SeqOf(n)) = SeqOf(n) + 1
    BY <1>1, <1>3, <1>4, ModSmall DEF NextSeq, Seqs
  <2> QED BY <1>1, <1>2, <1>4, <2>1, SeqOfValue
<1>5. CASE SeqOf(n) + 1 = Modulus
  <2>1. NextSeq(SeqOf(n)) = 0
    BY <1>1, <1>5, ModNext DEF NextSeq
  <2> QED BY <1>1, <1>2, <1>5, <2>1, SeqOfValue
<1> QED BY <1>1, <1>3, <1>4, <1>5 DEF Seqs

\* Lemma: two packets with the same number are the same packet.
LEMMA SeqOfInjective ==
  ASSUME NEW m \in 0..(Modulus - 1), NEW n \in 1..Modulus,
         SeqOf(m) = SeqOf(n), n < Modulus \/ m # 0
  PROVE  m = n
<1>1. Modulus \in Nat /\ FirstSeq \in Nat /\ FirstSeq < Modulus
  BY ConstantsAssumption
<1>2. m \in 0..Modulus /\ n \in 0..Modulus
  BY <1>1
<1> QED BY <1>1, <1>2, SeqOfValue

----------------------------------------------------------------------------
(* Types *)

\* Lemma: each peer has one peer, the other.
LEMMA PeerType ==
  ASSUME NEW e \in Peers
  PROVE  Peer(e) \in Peers /\ Peer(e) # e /\ Peer(Peer(e)) = e
BY DEF Peers, Peer

\* Lemma: the SYN of connect is a packet.
LEMMA SynIsPacket == Syn \in Packets
BY ConstantsAssumption DEF Syn, Packet, Packets, Seqs

\* Lemma: the ACK of a packet is a packet.
LEMMA AckIsPacket ==
  ASSUME NEW p \in Packets
  PROVE  AckOf(p) \in Packets
BY DEF AckOf, Packet, Packets

\* Theorem: in every reachable state the variables have their types.
THEOREM TypeCorrect == Spec => []TypeOK
<1>1. Init => TypeOK
  <2>1. 0 \in Seqs /\ FirstSeq \in Seqs
    BY ConstantsAssumption DEF Seqs
  <2> SUFFICES ASSUME Init
               PROVE  TypeOK
    OBVIOUS
  <2> USE DEF Init
  <2>2. /\ state \in [Peers -> SocketStates \cup {"NONE"}]
        /\ connecting \in {"waiting", "done", "failed"}
        /\ accepting \in BOOLEAN /\ lastConnection \in BOOLEAN
    BY DEF SocketStates
  <2>3. /\ lastSeqSent \in [Peers -> Seqs]
        /\ lastSeqRcvd \in [Peers -> Seqs]
        /\ resetSeqNumber \in [Peers -> Seqs]
    BY <2>1
  <2>4. /\ unackMap \in [Peers -> SUBSET Packets]
        /\ tasks \in [Peers -> SUBSET Packets]
        /\ rcvdMap \in [Peers -> SUBSET Packets]
        /\ storing \in [Peers -> SUBSET Packets]
        /\ net \in [Peers -> SUBSET Packets]
    BY SynIsPacket
  <2>5. /\ sent \in [Peers -> Seq({"DAT", "RST"})]
        /\ delivered \in [Peers -> Seq(Nat)]
        /\ closed \in [Peers -> BOOLEAN] /\ eof \in [Peers -> BOOLEAN]
    OBVIOUS
  <2> QED BY <2>2, <2>3, <2>4, <2>5 DEF TypeOK
<1>2. TypeOK /\ [Next]_vars => TypeOK'
  <2> SUFFICES ASSUME TypeOK, [Next]_vars
               PROVE  TypeOK'
    OBVIOUS
  <2> USE DEF TypeOK
  <2>1. CASE ConnectReturn
    BY <2>1 DEF ConnectReturn, sendVars, recvVars, SocketStates
  <2>2. CASE ConnectTimeout
    BY <2>2 DEF ConnectTimeout, recvVars
  <2>3. CASE AcceptCall
    BY <2>3 DEF AcceptCall, sendVars, recvVars
  <2>4. CASE AcceptReturn
    BY <2>4 DEF AcceptReturn, sendVars, recvVars, SocketStates
  <2>5. ASSUME NEW e \in Peers, NEW t \in {"DAT", "RST"}, SendNumbered(e, t)
        PROVE  /\ lastSeqSent' \in [Peers -> Seqs]
               /\ unackMap' \in [Peers -> SUBSET Packets]
               /\ tasks' \in [Peers -> SUBSET Packets]
               /\ net' \in [Peers -> SUBSET Packets]
               /\ sent' \in [Peers -> Seq({"DAT", "RST"})]
    <3> DEFINE p == Packet(t, NextSeq(lastSeqSent[e]), Len(sent[e]) + 1)
    <3>1. NextSeq(lastSeqSent[e]) \in Seqs
      BY NextSeqType
    <3>2. p \in Packets
      BY <3>1 DEF Packet, Packets
    <3> HIDE DEF p
    <3>3. /\ lastSeqSent' = [lastSeqSent EXCEPT ![e] = NextSeq(@)]
          /\ tasks' = [tasks EXCEPT ![e] = @ \cup {p}]
          /\ unackMap' = [unackMap EXCEPT ![e] = PutPacket(@, p)]
          /\ sent' = [sent EXCEPT ![e] = Append(@, t)]
          /\ net' = [net EXCEPT ![Peer(e)] = @ \cup {p}]
      BY <2>5 DEF SendNumbered, Sending, p
    <3> QED BY <3>1, <3>2, <3>3, PeerType DEF PutPacket, RemoveSeq
  <2>6. ASSUME NEW e \in Peers, SendData(e) PROVE TypeOK'
    BY <2>5, <2>6 DEF SendData, connectVars, recvVars
  <2>7. ASSUME NEW e \in Peers, CloseOut(e) PROVE TypeOK'
    BY <2>5, <2>7 DEF CloseOut, AfterCloseOut, connectVars, recvVars,
                      SocketStates
  <2>8. ASSUME NEW e \in Peers, Close(e) PROVE TypeOK'
    BY <2>8 DEF Close, connectVars, recvVars
  <2>9. ASSUME NEW e \in Peers, Receive(e) PROVE TypeOK'
    BY <2>9 DEF Receive, Available, RemoveSeq, connectVars, sendVars, Packets
  <2>10. ASSUME NEW e \in Peers, ReceiveNull(e) PROVE TypeOK'
    BY <2>10 DEF ReceiveNull, connectVars, sendVars
  <2>11. ASSUME NEW e \in Peers, StoreData(e) PROVE TypeOK'
    <3>1. PICK p \in storing[e] :
            /\ rcvdMap' = IF IsDuplicated(p.seq, lastSeqRcvd[e]) THEN rcvdMap
                          ELSE [rcvdMap EXCEPT ![e] = PutPacket(@, p)]
            /\ storing' = [storing EXCEPT ![e] = {}]
            /\ IF e = "client" /\ closed[e] THEN net' = net
                                            ELSE Sending(e, AckOf(p))
      BY <2>11 DEF StoreData
    <3>2. p \in Packets /\ AckOf(p) \in Packets
      BY AckIsPacket
    <3>3. rcvdMap' \in [Peers -> SUBSET Packets]
      <4>1. PutPacket(rcvdMap[e], p) \in SUBSET Packets
        BY <3>2 DEF PutPacket, RemoveSeq
      <4> QED BY <3>1, <4>1
    <3>4. storing' \in [Peers -> SUBSET Packets]
      BY <3>1
    <3>5. net' \in [Peers -> SUBSET Packets]
      <4>1. CASE net' = net
        BY <4>1
      <4>2. CASE Sending(e, AckOf(p))
        BY <3>2, <4>2, PeerType DEF Sending
      <4> QED BY <3>1, <4>1, <4>2
    <3> QED BY <2>11, <3>3, <3>4, <3>5 DEF StoreData, connectVars, sendVars
  <2>12. ASSUME NEW e \in Peers, NEW p \in tasks[e], Retransmit(e, p)
         PROVE  TypeOK'
    BY <2>12, PeerType DEF Retransmit, Sending, connectVars, sendVars, recvVars
  <2>13. ASSUME NEW e \in Peers, NEW p \in net[e],
                Consuming(e, p) \/ Answering(e, p)
         PROVE  net' \in [Peers -> SUBSET Packets]
    <3>1. p \in Packets /\ AckOf(p) \in Packets
      BY AckIsPacket
    <3>2. ASSUME NEW rest \in RestOf(e, p)
          PROVE  rest \in SUBSET Packets
      BY DEF RestOf
    <3>3. CASE Consuming(e, p)
      BY <3>2, <3>3 DEF Consuming
    <3>4. CASE Answering(e, p)
      <4>1. PICK rest \in RestOf(e, p) :
              net' = [net EXCEPT ![e] = rest,
                                 ![Peer(e)] = @ \cup {AckOf(p)}]
        BY <3>4 DEF Answering
      <4>2. Peer(e) \in Peers /\ Peer(e) # e
        BY PeerType
      <4> QED BY <3>1, <3>2, <4>1, <4>2, ZenonT(60)
    <3> QED BY <2>13, <3>3, <3>4
  <2>14. ASSUME NEW e \in Peers, NEW p \in net[e], Arrive(e, p)
         PROVE  TypeOK'
    <3>1. p \in Packets
      OBVIOUS
    <3>2. CASE ArriveAck(e, p)
      BY <2>13, <3>2 DEF ArriveAck, RemoveSeq, connectVars, recvVars
    <3>3. CASE ArriveData(e, p)
      BY <2>13, <3>1, <3>3 DEF ArriveData, connectVars, sendVars, recvVars
    <3>4. CASE ArriveOutside(e, p)
      BY <2>13, <3>4 DEF ArriveOutside, connectVars, sendVars, recvVars
    <3>5. CASE ArriveRst(e, p)
      <4>1. p.seq \in Seqs
        BY <3>1 DEF Packets
      <4> QED BY <2>13, <3>5, <4>1 DEF ArriveRst, AfterRst, connectVars, sendVars,
                recvVars, SocketStates
    <3>6. CASE ArriveSyn(e, p)
      BY <2>13, <3>6 DEF ArriveSyn, connectVars, sendVars, recvVars
    <3>7. CASE e = "server" /\ ArriveFirstSyn(p)
      BY <2>13, <3>7 DEF ArriveFirstSyn, sendVars, recvVars
    <3>8. CASE ArriveNowhere(e, p)
      BY <2>13, <3>8 DEF ArriveNowhere, connectVars, sendVars, recvVars
    <3> QED BY <2>14, <3>2, <3>3, <3>4, <3>5, <3>6, <3>7, <3>8 DEF Arrive
  <2>15. ASSUME NEW e \in Peers, NEW p \in net[e], Lose(e, p) PROVE TypeOK'
    BY <2>15 DEF Lose, connectVars, sendVars, recvVars
  <2>16. CASE UNCHANGED vars
    BY <2>16 DEF vars, connectVars, sendVars, recvVars
  <2> QED
    BY <2>1, <2>2, <2>3, <2>4, <2>6, <2>7, <2>8, <2>9, <2>10, <2>11, <2>12,
       <2>14, <2>15, <2>16 DEF Next, Connect, Socket
<1> QED BY <1>1, <1>2, PTL DEF Spec

----------------------------------------------------------------------------
(***************************************************************************)
(* The inductive invariant.  InOrder, EofIsComplete and AckedIsReceived    *)
(* are not inductive: they speak of what readers have been given and       *)
(* senders have forgotten, and depend on every packet kept anywhere being  *)
(* the one its number stands for.                                          *)
(***************************************************************************)

\* The packet p comes from e: its number is the number of its ordinal.
From(e, p) ==
  /\ p.type \in {"DAT", "RST"} =>
       /\ p.n \in 1..Len(sent[e])
       /\ p.seq = SeqOf(p.n)
       /\ sent[e][p.n] = p.type
  /\ p.type = "SYN" => p.seq = FirstSeq /\ p.n = 0

\* The counters agree with the history.
Counted ==
  \A e \in Peers : /\ Len(sent[e]) <= MaxPackets[e]
                   /\ lastSeqSent[e] = SeqOf(Len(sent[e]))
                   /\ lastSeqRcvd[e] = SeqOf(Len(delivered[e]))

\* Every packet a sender keeps, the network carries or a receiver holds is
\* the packet its sender made.
Genuine ==
  \A e \in Peers :
    /\ \A p \in tasks[e] : From(e, p) /\ p.type # "ACK"
    /\ \A p \in unackMap[e] : From(e, p) /\ p.type # "ACK"
    /\ \A p \in net[Peer(e)] : From(e, p)
    /\ \A p \in rcvdMap[Peer(e)] : From(e, p) /\ p.type = "DAT"
    /\ \A p \in storing[Peer(e)] : From(e, p) /\ p.type = "DAT"

\* The number of the reset is the number of a RST of the peer.
ResetGenuine ==
  \A e \in Peers :
    \/ resetSeqNumber[e] = 0
    \/ \E n \in 1..Len(sent[Peer(e)]) :
         sent[Peer(e)][n] = "RST" /\ resetSeqNumber[e] = SeqOf(n)

\* A socket the program holds is no longer DISCONNECTED.
Connected == /\ connecting = "done" => state["client"] # "DISCONNECTED"
             /\ state["server"] # "DISCONNECTED"

\* An acknowledgement in flight is for the SYN, for a RST or for a DAT that
\* has been received.
AckGenuine ==
  \A e \in Peers : \A p \in net[e] : p.type = "ACK" =>
    \E n \in 0..Len(sent[e]) :
      /\ p.seq = SeqOf(n)
      /\ n > 0 /\ sent[e][n] = "DAT" => Received(Peer(e), n)

\* A packet found inside the window stays inside it or is delivered.
InWindow ==
  \A e \in Peers : \A p \in storing[e] : p.n < Len(delivered[e]) + MaxRcvd

OrderInv == Counted /\ Genuine /\ InOrder
EndInv == OrderInv /\ ResetGenuine /\ Connected /\ EofIsComplete
AckInv == OrderInv /\ AckGenuine /\ InWindow /\ AckedIsReceived

----------------------------------------------------------------------------
(* The three kinds of step *)

\* A packet gets a number: sendData or closeOut.
Numbers(e, t) ==
  /\ Len(sent[e]) < MaxPackets[e]
  /\ SendNumbered(e, t)
  /\ UNCHANGED <<recvVars, storing>>

\* Packets are moved, dropped, acknowledged, and none is made or delivered.
Moves ==
  /\ UNCHANGED <<lastSeqSent, sent, lastSeqRcvd, delivered>>
  /\ \A e \in Peers :
       /\ tasks'[e] \subseteq tasks[e]
       /\ unackMap'[e] \subseteq unackMap[e]
       /\ rcvdMap'[e] \subseteq rcvdMap[e] \cup storing[e]
       /\ \A p \in storing'[e] : \/ p \in storing[e]
                                 \/ p \in net[e] /\ p.type = "DAT"
       /\ \A p \in net'[e] : \/ p \in net[e] \cup tasks[Peer(e)]
                             \/ p.type = "ACK"

\* Lemma: an ACK carries the number of the packet it answers.
LEMMA AckType == ASSUME NEW p PROVE AckOf(p).type = "ACK" /\ AckOf(p).seq = p.seq
BY DEF AckOf, Packet

\* Lemma: consuming a datagram adds at most its acknowledgement to the network.
LEMMA ConsumeMoves ==
  ASSUME TypeOK, NEW e \in Peers, NEW p \in net[e],
         Consuming(e, p) \/ Answering(e, p)
  PROVE  \A f \in Peers : \A q \in net'[f] :
            q \in net[f] \/ (f = Peer(e) /\ q = AckOf(p) /\ Answering(e, p))
<1>1. Peer(e) \in Peers /\ Peer(e) # e
  BY PeerType
<1>2. \A rest \in RestOf(e, p) : rest \subseteq net[e]
  BY DEF RestOf
<1>3. net \in [Peers -> SUBSET Packets]
  BY DEF TypeOK
<1>4. CASE Consuming(e, p)
  BY <1>2, <1>3, <1>4 DEF Consuming
<1>5. CASE Answering(e, p)
  <2>1. PICK rest \in RestOf(e, p) :
          net' = [net EXCEPT ![e] = rest, ![Peer(e)] = @ \cup {AckOf(p)}]
    BY <1>5 DEF Answering
  <2> QED BY <1>1, <1>2, <1>3, <1>5, <2>1
<1> QED BY <1>4, <1>5

\* Lemma: a step of the receiver thread moves packets.
LEMMA ArriveMoves ==
  ASSUME TypeOK, NEW e \in Peers, NEW p \in net[e], Arrive(e, p)
  PROVE  Moves
<1> USE DEF Moves
<1>1. Consuming(e, p) \/ Answering(e, p)
  BY DEF Arrive, ArriveAck, ArriveData, ArriveOutside, ArriveRst, ArriveSyn,
         ArriveFirstSyn, ArriveNowhere
<1>2. \A f \in Peers : \A q \in net'[f] :
        q \in net[f] \cup tasks[Peer(f)] \/ q.type = "ACK"
  BY <1>1, ConsumeMoves, AckType
<1>3. CASE ArriveAck(e, p)
  BY <1>2, <1>3 DEF ArriveAck, RemoveSeq, recvVars, TypeOK
<1>4. CASE ArriveData(e, p)
  BY <1>2, <1>4 DEF ArriveData, sendVars, recvVars, TypeOK
<1>5. CASE \/ ArriveOutside(e, p) \/ ArriveRst(e, p) \/ ArriveSyn(e, p)
           \/ ArriveFirstSyn(p) \/ ArriveNowhere(e, p)
  BY <1>2, <1>5 DEF ArriveOutside, ArriveRst, ArriveSyn, ArriveFirstSyn,
                    ArriveNowhere, sendVars, recvVars
<1> QED BY <1>3, <1>4, <1>5 DEF Arrive

\* Lemma: storing a packet moves it.
LEMMA StoreMoves ==
  ASSUME TypeOK, NEW e \in Peers, StoreData(e)
  PROVE  Moves
<1>1. PICK p \in storing[e] :
        /\ rcvdMap' = IF IsDuplicated(p.seq, lastSeqRcvd[e]) THEN rcvdMap
                      ELSE [rcvdMap EXCEPT ![e] = PutPacket(@, p)]
        /\ storing' = [storing EXCEPT ![e] = {}]
        /\ IF e = "client" /\ closed[e] THEN net' = net
                                        ELSE Sending(e, AckOf(p))
        /\ UNCHANGED <<sendVars, lastSeqRcvd, delivered>>
  BY DEF StoreData
<1>2. \A f \in Peers : rcvdMap'[f] \subseteq rcvdMap[f] \cup storing[f]
  <2>1. PutPacket(rcvdMap[e], p) \subseteq rcvdMap[e] \cup storing[e]
    BY DEF PutPacket, RemoveSeq
  <2> QED BY <1>1, <2>1 DEF TypeOK
<1>3. \A f \in Peers : \A q \in net'[f] : q \in net[f] \/ q.type = "ACK"
  <2>1. CASE net' = net
    BY <2>1
  <2>2. CASE Sending(e, AckOf(p))
    BY <2>2, PeerType, AckType DEF Sending, TypeOK
  <2> QED BY <1>1, <2>1, <2>2
<1>4. \A f \in Peers : storing'[f] \subseteq storing[f]
  BY <1>1 DEF TypeOK
<1> QED BY <1>1, <1>2, <1>3, <1>4 DEF Moves, sendVars

\* Lemma: every step is of one of the three kinds.
LEMMA StepKinds ==
  ASSUME TypeOK, [Next]_vars
  PROVE  \/ Moves
         \/ \E e \in Peers : \E t \in {"DAT", "RST"} : Numbers(e, t)
         \/ \E e \in Peers : Receive(e)
<1>1. CASE Connect
  BY <1>1 DEF Connect, ConnectReturn, ConnectTimeout, AcceptCall, AcceptReturn,
              sendVars, recvVars, Moves, TypeOK
<1>2. ASSUME NEW e \in Peers, SendData(e) \/ CloseOut(e)
      PROVE  \E t \in {"DAT", "RST"} : Numbers(e, t)
  BY <1>2 DEF SendData, CloseOut, Numbers
<1>3. ASSUME NEW e \in Peers, Close(e) PROVE Moves
  BY <1>3 DEF Close, recvVars, Moves, TypeOK
<1>4. ASSUME NEW e \in Peers, ReceiveNull(e) PROVE Moves
  BY <1>4 DEF ReceiveNull, sendVars, Moves
<1>5. ASSUME NEW e \in Peers, NEW p \in tasks[e], Retransmit(e, p) PROVE Moves
  BY <1>5, PeerType DEF Retransmit, Sending, sendVars, recvVars, Moves, TypeOK
<1>6. ASSUME NEW e \in Peers, NEW p \in net[e], Lose(e, p) PROVE Moves
  BY <1>6 DEF Lose, sendVars, recvVars, Moves, TypeOK
<1>7. CASE UNCHANGED vars
  BY <1>7 DEF vars, sendVars, recvVars, Moves
<1> QED BY <1>1, <1>2, <1>3, <1>4, <1>5, <1>6, <1>7, ArriveMoves, StoreMoves
           DEF Next, Socket

----------------------------------------------------------------------------
(* Order *)

\* Lemma: what a peer sent stays what it was when the history grows.
LEMMA FromGrows ==
  ASSUME NEW e \in Peers, NEW p, From(e, p),
         sent[e] \in Seq({"DAT", "RST"}), sent'[e] \in Seq({"DAT", "RST"}),
         Len(sent[e]) <= Len(sent'[e]),
         \A i \in 1..Len(sent[e]) : sent'[e][i] = sent[e][i]
  PROVE  From(e, p)'
BY DEF From

\* Lemma: a step that only moves or drops packets keeps the order.
LEMMA MovesKeepOrder ==
  ASSUME TypeOK, OrderInv, Moves
  PROVE  OrderInv'
<1>1. Counted'
  BY DEF OrderInv, Moves, Counted
<1>2. InOrder'
  BY DEF OrderInv, Moves, InOrder
<1>3. \A e \in Peers : \A p : From(e, p) => From(e, p)'
  BY DEF Moves, From
<1>4. Genuine'
  <2> SUFFICES ASSUME NEW e \in Peers
               PROVE  /\ \A p \in tasks'[e] : From(e, p)' /\ p.type # "ACK"
                      /\ \A p \in unackMap'[e] : From(e, p)' /\ p.type # "ACK"
                      /\ \A p \in net'[Peer(e)] : From(e, p)'
                      /\ \A p \in rcvdMap'[Peer(e)] :
                           From(e, p)' /\ p.type = "DAT"
                      /\ \A p \in storing'[Peer(e)] :
                           From(e, p)' /\ p.type = "DAT"
    BY DEF Genuine
  <2>1. Peer(e) \in Peers /\ Peer(Peer(e)) = e
    BY PeerType
  <2>2. \A p : p.type = "ACK" => From(e, p)'
    BY DEF From
  <2> QED BY <1>3, <2>1, <2>2 DEF OrderInv, Genuine, Moves
<1> QED BY <1>1, <1>2, <1>4 DEF OrderInv

\* Lemma: a new packet gets the number of its ordinal, which no packet kept
\* anywhere has.
LEMMA NumberedPacket ==
  ASSUME TypeOK, OrderInv, NoReuse, NEW e \in Peers, NEW t \in {"DAT", "RST"},
         Numbers(e, t)
  PROVE  LET n == Len(sent[e]) + 1
             p == Packet(t, SeqOf(n), n)
         IN  /\ n \in 1..(Modulus - 1)
             /\ lastSeqSent' = [lastSeqSent EXCEPT ![e] = SeqOf(n)]
             /\ sent' = [sent EXCEPT ![e] = Append(@, t)]
             /\ tasks' = [tasks EXCEPT ![e] = @ \cup {p}]
             /\ unackMap' = [unackMap EXCEPT ![e] = @ \cup {p}]
             /\ net' = [net EXCEPT ![Peer(e)] = @ \cup {p}]
<1> DEFINE n == Len(sent[e]) + 1
           p == Packet(t, SeqOf(n), n)
<1>1. /\ Len(sent[e]) \in Nat
      /\ Modulus \in Nat /\ MaxPackets[e] \in Nat
      /\ n <= MaxPackets[e] /\ MaxPackets[e] < Modulus
  BY ConstantsAssumption DEF TypeOK, Numbers, NoReuse
<1>2. n \in 1..(Modulus - 1) /\ Len(sent[e]) \in 0..(Modulus - 1)
  BY <1>1
<1>3. NextSeq(lastSeqSent[e]) = SeqOf(n)
  BY <1>2, NextSeqOf DEF OrderInv, Counted
<1>4. p.seq = SeqOf(n)
  BY DEF Packet
<1>5. ASSUME NEW q \in unackMap[e]
      PROVE  q.seq # SeqOf(n)
  <2>1. From(e, q) /\ q.type \in {"SYN", "DAT", "RST"}
    BY DEF OrderInv, Genuine, TypeOK, Packets
  <2>2. CASE q.type = "SYN"
    <3>1. q.seq = SeqOf(0)
      BY <2>1, <2>2, SeqOfValue, ConstantsAssumption DEF From
    <3>2. 0 \in 0..(Modulus - 1) /\ n \in 1..Modulus /\ n < Modulus /\ n # 0
      BY <1>1, <1>2
    <3> QED BY <3>1, <3>2, SeqOfInjective
  <2>3. CASE q.type # "SYN"
    <3>1. q.n \in 1..Len(sent[e]) /\ q.seq = SeqOf(q.n)
      BY <2>1, <2>3 DEF From
    <3>2. q.n \in 0..(Modulus - 1) /\ n \in 1..Modulus /\ q.n # n /\ n < Modulus
      BY <1>1, <1>2, <3>1
    <3> QED BY <3>1, <3>2, SeqOfInjective
  <2> QED BY <2>2, <2>3
<1>6. PutPacket(unackMap[e], p) = unackMap[e] \cup {p}
  BY <1>4, <1>5 DEF PutPacket, RemoveSeq
<1>7. /\ lastSeqSent' = [lastSeqSent EXCEPT ![e] = SeqOf(n)]
      /\ tasks' = [tasks EXCEPT ![e] = @ \cup {p}]
      /\ unackMap' = [unackMap EXCEPT ![e] = PutPacket(@, p)]
      /\ sent' = [sent EXCEPT ![e] = Append(@, t)]
      /\ net' = [net EXCEPT ![Peer(e)] = @ \cup {p}]
  BY <1>3 DEF Numbers, SendNumbered, Sending
<1> HIDE DEF p
<1>8. unackMap' = [unackMap EXCEPT ![e] = @ \cup {p}]
  BY <1>6, <1>7
<1> QED BY <1>2, <1>7, <1>8 DEF p

\* Lemma: numbering a new packet (sendData, closeOut) keeps the order.
LEMMA NumbersKeepOrder ==
  ASSUME TypeOK, OrderInv, NoReuse, NEW e \in Peers, NEW t \in {"DAT", "RST"},
         Numbers(e, t)
  PROVE  OrderInv'
<1>0. PICK n, p : n \in Nat /\ n = Len(sent[e]) + 1 /\ p = Packet(t, SeqOf(n), n)
  BY DEF TypeOK
<1> n \in Nat  BY <1>0
<1>1. /\ n \in 1..(Modulus - 1)
      /\ lastSeqSent' = [lastSeqSent EXCEPT ![e] = SeqOf(n)]
      /\ sent' = [sent EXCEPT ![e] = Append(@, t)]
      /\ tasks' = [tasks EXCEPT ![e] = @ \cup {p}]
      /\ unackMap' = [unackMap EXCEPT ![e] = @ \cup {p}]
      /\ net' = [net EXCEPT ![Peer(e)] = @ \cup {p}]
  BY <1>0, NumberedPacket
<1>2. UNCHANGED <<lastSeqRcvd, rcvdMap, delivered, storing>>
  BY DEF Numbers, recvVars
<1>3. \A f \in Peers :
        /\ sent[f] \in Seq({"DAT", "RST"}) /\ sent'[f] \in Seq({"DAT", "RST"})
        /\ Len(sent[f]) <= Len(sent'[f])
        /\ \A i \in 1..Len(sent[f]) : sent'[f][i] = sent[f][i]
  BY <1>1 DEF TypeOK
<1>4. /\ Len(sent'[e]) = n /\ sent'[e][n] = t
      /\ \A f \in Peers : f # e => sent'[f] = sent[f]
  BY <1>0, <1>1 DEF TypeOK
<1>5. Counted'
  <2> SUFFICES ASSUME NEW f \in Peers
               PROVE  /\ Len(sent'[f]) <= MaxPackets[f]
                      /\ lastSeqSent'[f] = SeqOf(Len(sent'[f]))
                      /\ lastSeqRcvd'[f] = SeqOf(Len(delivered'[f]))
    BY DEF Counted, SeqOf
  <2>1. n <= MaxPackets[e]
    BY <1>0, ConstantsAssumption DEF Numbers, TypeOK
  <2>2. CASE f = e
    BY <1>1, <1>2, <1>4, <2>1, <2>2 DEF OrderInv, Counted, TypeOK
  <2>3. CASE f # e
    BY <1>1, <1>2, <1>4, <2>3 DEF OrderInv, Counted, TypeOK
  <2> QED BY <2>2, <2>3
<1>6. InOrder'
  <2> SUFFICES ASSUME NEW f \in Peers, NEW i \in 1..Len(delivered[f])
               PROVE  /\ delivered[f][i] = i
                      /\ i <= Len(sent'[Peer(f)]) /\ sent'[Peer(f)][i] = "DAT"
    BY <1>2 DEF InOrder
  <2>1. Peer(f) \in Peers
    BY PeerType
  <2>2. /\ delivered[f][i] = i
        /\ i <= Len(sent[Peer(f)]) /\ sent[Peer(f)][i] = "DAT"
    BY DEF OrderInv, InOrder
  <2>3. Len(delivered[f]) \in Nat /\ Len(sent[Peer(f)]) \in Nat
        /\ Len(sent'[Peer(f)]) \in Nat
    BY <1>3, <2>1 DEF TypeOK
  <2>4. i \in 1..Len(sent[Peer(f)])
    BY <2>2, <2>3
  <2> QED BY <1>3, <2>1, <2>2, <2>3, <2>4
<1>7. From(e, p)' /\ p.type # "ACK"
  BY <1>0, <1>1, <1>4 DEF From, Packet
<1>8. \A f \in Peers : \A q : From(f, q) => From(f, q)'
  BY <1>3, FromGrows
<1>9. Genuine'
  <2> SUFFICES ASSUME NEW f \in Peers
               PROVE  /\ \A q \in tasks'[f] : From(f, q)' /\ q.type # "ACK"
                      /\ \A q \in unackMap'[f] : From(f, q)' /\ q.type # "ACK"
                      /\ \A q \in net'[Peer(f)] : From(f, q)'
                      /\ \A q \in rcvdMap'[Peer(f)] :
                           From(f, q)' /\ q.type = "DAT"
                      /\ \A q \in storing'[Peer(f)] :
                           From(f, q)' /\ q.type = "DAT"
    BY DEF Genuine
  <2>1. /\ Peer(f) \in Peers /\ Peer(e) \in Peers
        /\ f # e => Peer(f) # Peer(e)
    BY DEF Peers, Peer
  <2>2. /\ \A q \in tasks'[f] : q \in tasks[f] \/ (f = e /\ q = p)
        /\ \A q \in unackMap'[f] : q \in unackMap[f] \/ (f = e /\ q = p)
        /\ \A q \in net'[Peer(f)] : q \in net[Peer(f)] \/ (f = e /\ q = p)
    BY <1>1, <2>1 DEF TypeOK
  <2> QED BY <1>2, <1>7, <1>8, <2>1, <2>2 DEF OrderInv, Genuine
<1> QED BY <1>5, <1>6, <1>9 DEF OrderInv

\* Lemma: the packet receive() finds under the next number is the next packet
\* of the peer.
LEMMA ReceiveIsNext ==
  ASSUME TypeOK, OrderInv, NoReuse, NEW e \in Peers, NEW p \in rcvdMap[e],
         Available(e, p)
  PROVE  /\ p.n = Len(delivered[e]) + 1
         /\ p.n \in 1..Len(sent[Peer(e)])
         /\ p.seq = SeqOf(p.n)
         /\ sent[Peer(e)][p.n] = "DAT"
<1>1. Peer(e) \in Peers /\ Peer(Peer(e)) = e
  BY PeerType
<1>2. From(Peer(e), p) /\ p.type = "DAT"
  BY <1>1 DEF OrderInv, Genuine
<1>3. /\ p.n \in 1..Len(sent[Peer(e)])
      /\ p.seq = SeqOf(p.n)
      /\ sent[Peer(e)][p.n] = "DAT"
  BY <1>2 DEF From
<1>4. /\ Len(sent[Peer(e)]) \in Nat
      /\ Len(sent[Peer(e)]) <= MaxPackets[Peer(e)]
      /\ MaxPackets[Peer(e)] \in Nat
      /\ MaxPackets[Peer(e)] < Modulus
      /\ Modulus \in Nat
  BY <1>1, ConstantsAssumption DEF TypeOK, OrderInv, Counted, NoReuse
<1>5. /\ Len(delivered[e]) \in Nat
      /\ Len(delivered[e]) <= Len(sent[Peer(e)])
  <2>1. Len(delivered[e]) \in Nat
    BY DEF TypeOK
  <2> QED BY <1>4, <2>1 DEF OrderInv, InOrder
<1>6. Len(delivered[e]) \in 0..(Modulus - 1)
  BY <1>4, <1>5
<1>7. SeqOf(p.n) = SeqOf(Len(delivered[e]) + 1)
  BY <1>3, <1>6, NextSeqOf DEF OrderInv, Counted, Available
<1>8. p.n \in 0..(Modulus - 1) /\ Len(delivered[e]) + 1 \in 1..Modulus /\ p.n # 0
  BY <1>3, <1>4, <1>5
<1> QED BY <1>3, <1>7, <1>8, SeqOfInjective

\* Lemma: handing a packet to the reader (receive) keeps the order.
LEMMA ReceiveKeepsOrder ==
  ASSUME TypeOK, OrderInv, NoReuse, NEW e \in Peers, Receive(e)
  PROVE  OrderInv'
<1>1. PICK p \in rcvdMap[e] :
        /\ Available(e, p)
        /\ rcvdMap' = [rcvdMap EXCEPT ![e] = RemoveSeq(@, p.seq)]
        /\ lastSeqRcvd' = [lastSeqRcvd EXCEPT ![e] = p.seq]
        /\ delivered' = [delivered EXCEPT ![e] = Append(@, p.n)]
  BY DEF Receive
<1>2. /\ p.n = Len(delivered[e]) + 1
      /\ p.n \in 1..Len(sent[Peer(e)])
      /\ p.seq = SeqOf(p.n)
      /\ sent[Peer(e)][p.n] = "DAT"
  BY <1>1, ReceiveIsNext
<1>3. UNCHANGED <<lastSeqSent, unackMap, tasks, sent, storing, net>>
  BY DEF Receive, sendVars
<1>4. /\ Len(delivered'[e]) = p.n /\ delivered'[e][p.n] = p.n
      /\ \A i \in 1..Len(delivered[e]) : delivered'[e][i] = delivered[e][i]
      /\ \A f \in Peers : f # e => delivered'[f] = delivered[f]
  BY <1>1, <1>2 DEF TypeOK
<1>5. Counted'
  BY <1>1, <1>2, <1>3, <1>4 DEF OrderInv, Counted, TypeOK
<1>6. InOrder'
  <2> SUFFICES ASSUME NEW f \in Peers, NEW i \in 1..Len(delivered'[f])
               PROVE  /\ delivered'[f][i] = i
                      /\ i <= Len(sent[Peer(f)]) /\ sent[Peer(f)][i] = "DAT"
    BY <1>3 DEF InOrder
  <2>1. Len(delivered[e]) \in Nat /\ Len(sent[Peer(e)]) \in Nat
    BY PeerType DEF TypeOK
  <2>2. CASE f = e /\ i = p.n
    BY <1>2, <1>4, <2>1, <2>2
  <2>3. CASE f = e /\ i # p.n
    BY <1>2, <1>4, <2>1, <2>3, SMTT(60) DEF OrderInv, InOrder
  <2>4. CASE f # e
    BY <1>4, <2>4 DEF OrderInv, InOrder
  <2> QED BY <2>2, <2>3, <2>4
<1>7. \A f \in Peers : \A q : From(f, q) => From(f, q)'
  BY <1>3 DEF From
<1>8. \A f \in Peers : rcvdMap'[f] \subseteq rcvdMap[f]
  BY <1>1 DEF TypeOK, RemoveSeq
<1>9. Genuine'
  BY <1>3, <1>7, <1>8, PeerType DEF OrderInv, Genuine
<1> QED BY <1>5, <1>6, <1>9 DEF OrderInv

\* Lemma: the order holds before the SYN is answered.
LEMMA InitOrder == Init => OrderInv
<1> SUFFICES ASSUME Init
             PROVE  OrderInv
  OBVIOUS
<1>1. SeqOf(0) = FirstSeq
  BY SeqOfValue, ConstantsAssumption
<1>2. Counted
  BY <1>1, ConstantsAssumption DEF Init, Counted
<1>3. From("client", Syn) /\ Syn.type = "SYN"
  BY DEF From, Syn, Packet
<1>4. Genuine
  BY <1>3 DEF Init, Genuine, Peer, Peers
<1>5. InOrder
  BY DEF Init, InOrder
<1> QED BY <1>2, <1>4, <1>5 DEF OrderInv

\* Theorem: on a connection that numbers fewer packets than the modulus, every
\* reader is given exactly the packets its peer sent, in the order of sending,
\* whatever the network loses, duplicates or reorders.
THEOREM DeliveryInOrder == NoReuse => (Spec => []InOrder)
<1> SUFFICES ASSUME NoReuse
             PROVE  Spec => []InOrder
  OBVIOUS
<1>1. TypeOK /\ OrderInv /\ [Next]_vars => OrderInv'
  BY StepKinds, MovesKeepOrder, NumbersKeepOrder, ReceiveKeepsOrder
<1>2. OrderInv => InOrder
  BY DEF OrderInv
<1> QED BY <1>1, <1>2, InitOrder, TypeCorrect, PTL DEF Spec

----------------------------------------------------------------------------
(* End of the stream *)

\* Lemma: a step never rewrites what has been sent.
LEMMA SentGrows ==
  ASSUME TypeOK, [Next]_vars, NEW e \in Peers
  PROVE  /\ Len(sent[e]) \in Nat /\ Len(sent'[e]) \in Nat
         /\ Len(sent[e]) <= Len(sent'[e])
         /\ \A i \in 1..Len(sent[e]) : sent'[e][i] = sent[e][i]
<1>1. sent \in [Peers -> Seq({"DAT", "RST"})]
  BY DEF TypeOK
<1>2. CASE sent' = sent
  BY <1>1, <1>2
<1>3. ASSUME NEW f \in Peers, NEW t \in {"DAT", "RST"}, Numbers(f, t)
      PROVE  sent' = [sent EXCEPT ![f] = Append(@, t)]
  BY <1>3 DEF Numbers, SendNumbered
<1>4. ASSUME NEW f \in Peers, NEW t \in {"DAT", "RST"},
             sent' = [sent EXCEPT ![f] = Append(@, t)]
      PROVE  /\ Len(sent[e]) \in Nat /\ Len(sent'[e]) \in Nat
             /\ Len(sent[e]) <= Len(sent'[e])
             /\ \A i \in 1..Len(sent[e]) : sent'[e][i] = sent[e][i]
  BY <1>1, <1>4
<1>5. (Moves \/ \E f \in Peers : Receive(f)) => sent' = sent
  BY DEF Moves, Receive, sendVars
<1> QED BY <1>2, <1>3, <1>4, <1>5, StepKinds

\* Lemma: the number of a reset comes from a RST in flight.
LEMMA ResetStep ==
  ASSUME TypeOK, [Next]_vars, NEW e \in Peers
  PROVE  \/ resetSeqNumber'[e] = resetSeqNumber[e]
         \/ \E p \in net[e] : p.type = "RST" /\ resetSeqNumber'[e] = p.seq
<1> USE DEF TypeOK
<1>1. CASE \/ Connect \/ UNCHANGED vars
           \/ \E f \in Peers : \/ Socket(f)
                               \/ \E p \in tasks[f] : Retransmit(f, p)
                               \/ \E p \in net[f] : Lose(f, p)
  BY <1>1 DEF Connect, ConnectReturn, ConnectTimeout, AcceptCall, AcceptReturn,
      Socket, SendData, CloseOut, Close, Receive, ReceiveNull, StoreData,
      Retransmit, Lose, vars
<1>2. ASSUME NEW f \in Peers, NEW p \in net[f], Arrive(f, p)
      PROVE  \/ resetSeqNumber'[e] = resetSeqNumber[e]
             \/ e = f /\ p.type = "RST" /\ resetSeqNumber'[e] = p.seq
  BY <1>2 DEF Arrive, ArriveAck, ArriveData, ArriveOutside, ArriveRst,
      ArriveSyn, ArriveFirstSyn, ArriveNowhere
<1> QED BY <1>1, <1>2 DEF Next

\* Lemma: resetSeqNumber stays the number of a RST the peer sent.
LEMMA ResetKept ==
  ASSUME TypeOK, OrderInv, ResetGenuine, [Next]_vars
  PROVE  ResetGenuine'
<1> SUFFICES ASSUME NEW e \in Peers, resetSeqNumber'[e] # 0
             PROVE  \E n \in 1..Len(sent'[Peer(e)]) :
                      /\ sent'[Peer(e)][n] = "RST"
                      /\ resetSeqNumber'[e] = SeqOf(n)
  BY DEF ResetGenuine, SeqOf
<1>1. Peer(e) \in Peers /\ Peer(Peer(e)) = e
  BY PeerType
<1>2. \E n \in 1..Len(sent[Peer(e)]) :
        /\ sent[Peer(e)][n] = "RST"
        /\ resetSeqNumber'[e] = SeqOf(n)
  <2>1. CASE resetSeqNumber'[e] = resetSeqNumber[e]
    BY <2>1 DEF ResetGenuine
  <2>2. ASSUME NEW p \in net[e], p.type = "RST", resetSeqNumber'[e] = p.seq
        PROVE  p.n \in 1..Len(sent[Peer(e)]) /\ sent[Peer(e)][p.n] = "RST"
               /\ p.seq = SeqOf(p.n)
    BY <1>1, <2>2 DEF OrderInv, Genuine, From
  <2> QED BY <2>1, <2>2, ResetStep
<1> QED BY <1>1, <1>2, SentGrows

\* Lemma: no step makes a socket in use DISCONNECTED.
LEMMA ConnectedKept ==
  ASSUME TypeOK, Connected, [Next]_vars
  PROVE  Connected'
<1> USE DEF TypeOK, Connected, Peers
<1>1. CASE Connect
  BY <1>1 DEF Connect, ConnectReturn, ConnectTimeout, AcceptCall, AcceptReturn
<1>2. ASSUME NEW e \in Peers, Socket(e) PROVE Connected'
  BY <1>2 DEF Socket, SendData, CloseOut, AfterCloseOut, Close, Receive,
      ReceiveNull, StoreData, connectVars
<1>3. ASSUME NEW e \in Peers, NEW p,
             Retransmit(e, p) \/ Lose(e, p) \/ Arrive(e, p)
      PROVE  Connected'
  BY <1>3 DEF Retransmit, Lose, Arrive, ArriveAck, ArriveData, ArriveOutside,
      ArriveRst, AfterRst, ArriveSyn, ArriveFirstSyn, ArriveNowhere, connectVars
<1>4. CASE UNCHANGED vars
  BY <1>4 DEF vars, connectVars
<1> QED BY <1>1, <1>2, <1>3, <1>4 DEF Next

\* Lemma: a reader that reaches the number before the reset has been given
\* everything its peer sent before the RST.
LEMMA EndIsComplete ==
  ASSUME TypeOK, OrderInv, ResetGenuine, Connected, NoReuse,
         NEW e \in Peers, ReceiveNull(e)
  PROVE  LET k == Len(delivered[e]) + 1
         IN  k <= Len(sent[Peer(e)]) /\ sent[Peer(e)][k] = "RST"
<1> DEFINE d == Len(delivered[e])
           l == Len(sent[Peer(e)])
<1>1. Peer(e) \in Peers
  BY PeerType
<1>2. state[e] # "DISCONNECTED"
  BY DEF ReceiveNull, Usable, Connected, Peers
<1>3. lastSeqRcvd[e] = resetSeqNumber[e] - 1
  BY <1>2 DEF ReceiveNull, AtEnd
<1>4. lastSeqRcvd[e] \in Seqs /\ resetSeqNumber[e] \in Seqs
  BY DEF TypeOK
<1>5. resetSeqNumber[e] # 0
  BY <1>3, <1>4, ConstantsAssumption DEF Seqs
<1>6. PICK n \in 1..l : sent[Peer(e)][n] = "RST" /\ resetSeqNumber[e] = SeqOf(n)
  BY <1>5 DEF ResetGenuine
<1>7. d \in Nat /\ l \in Nat /\ Modulus \in Nat /\ l < Modulus
  BY <1>1, ConstantsAssumption DEF TypeOK, OrderInv, Counted, NoReuse
<1>8. d <= l
  BY <1>7 DEF OrderInv, InOrder
<1>9. d \in 0..(Modulus - 1) /\ d + 1 \in 1..Modulus
      /\ n \in 0..(Modulus - 1) /\ n # 0
  BY <1>6, <1>7, <1>8
<1>10. SeqOf(d + 1) = SeqOf(d) + 1
  <2>1. lastSeqRcvd[e] = SeqOf(d)
    BY DEF OrderInv, Counted
  <2>2. NextSeq(SeqOf(d)) = SeqOf(d + 1)
    BY <1>9, NextSeqOf
  <2>3. SeqOf(d) \in Nat /\ SeqOf(d) + 1 < Modulus
    BY <1>3, <1>4, <1>7, <2>1 DEF Seqs
  <2>4. SeqOf(d) + 1 \in Nat
    BY <2>3
  <2> QED BY <1>7, <2>2, <2>3, <2>4, ModSmall DEF NextSeq
<1>11. SeqOf(n) = SeqOf(d + 1)
  <2>1. lastSeqRcvd[e] = SeqOf(d)
    BY DEF OrderInv, Counted
  <2> QED BY <1>3, <1>4, <1>6, <1>10, <2>1 DEF Seqs
<1>12. n = d + 1
  BY <1>9, <1>11, SeqOfInjective
<1> QED BY <1>6, <1>7, <1>12

\* Lemma: receive returns null only when the whole stream was read.
LEMMA EofKept ==
  ASSUME TypeOK, EndInv, NoReuse, [Next]_vars
  PROVE  EofIsComplete'
<1>1. ASSUME NEW e \in Peers, eof'[e]
      PROVE  /\ delivered'[e] = delivered[e]
             /\ eof[e] \/ ReceiveNull(e)
  <2>1. ASSUME NEW f \in Peers, Receive(f)
        PROVE  eof' = eof /\ ~eof[f]
               /\ \A g \in Peers : g # f => delivered'[g] = delivered[g]
    BY <2>1 DEF Receive, TypeOK
  <2>2. ASSUME NEW f \in Peers, ReceiveNull(f)
        PROVE  delivered' = delivered
               /\ \A g \in Peers : g # f => eof'[g] = eof[g]
    BY <2>2 DEF ReceiveNull, TypeOK
  <2>3. Connect \/ UNCHANGED vars => UNCHANGED <<delivered, eof>>
    BY DEF Connect, ConnectReturn, ConnectTimeout, AcceptCall, AcceptReturn,
        recvVars, vars
  <2>4. ASSUME NEW f \in Peers,
               SendData(f) \/ CloseOut(f) \/ Close(f) \/ StoreData(f)
        PROVE  UNCHANGED <<delivered, eof>>
    BY <2>4 DEF SendData, CloseOut, Close, StoreData, recvVars
  <2>5. ASSUME NEW f \in Peers, NEW p,
               Retransmit(f, p) \/ Arrive(f, p) \/ Lose(f, p)
        PROVE  UNCHANGED <<delivered, eof>>
    BY <2>5 DEF Retransmit, Lose, Arrive, ArriveAck, ArriveData, ArriveOutside,
        ArriveRst, ArriveSyn, ArriveFirstSyn, ArriveNowhere, recvVars
  <2>6. CASE UNCHANGED <<delivered, eof>>
    BY <1>1, <2>6
  <2>7. ASSUME NEW f \in Peers, Receive(f)
        PROVE  delivered'[e] = delivered[e] /\ eof[e]
    BY <1>1, <2>1, <2>7
  <2>8. ASSUME NEW f \in Peers, ReceiveNull(f)
        PROVE  delivered'[e] = delivered[e] /\ (eof[e] \/ ReceiveNull(e))
    BY <1>1, <2>2, <2>8
  <2> QED BY <2>3, <2>4, <2>5, <2>6, <2>7, <2>8 DEF Next, Socket
<1> SUFFICES ASSUME NEW e \in Peers, eof'[e]
             PROVE  /\ Len(delivered'[e]) + 1 <= Len(sent'[Peer(e)])
                    /\ sent'[Peer(e)][Len(delivered'[e]) + 1] = "RST"
  BY DEF EofIsComplete
<1>2. Peer(e) \in Peers
  BY PeerType
<1>3. /\ Len(delivered[e]) + 1 <= Len(sent[Peer(e)])
      /\ sent[Peer(e)][Len(delivered[e]) + 1] = "RST"
  BY <1>1, EndIsComplete DEF EndInv, EofIsComplete
<1>4. Len(delivered[e]) \in Nat
  BY DEF TypeOK
<1>5. /\ Len(sent[Peer(e)]) \in Nat /\ Len(sent'[Peer(e)]) \in Nat
      /\ Len(sent[Peer(e)]) <= Len(sent'[Peer(e)])
      /\ \A i \in 1..Len(sent[Peer(e)]) : sent'[Peer(e)][i] = sent[Peer(e)][i]
  BY <1>2, SentGrows
<1>6. Len(delivered[e]) + 1 \in 1..Len(sent[Peer(e)])
  BY <1>3, <1>4, <1>5
<1> QED BY <1>1, <1>3, <1>4, <1>5, <1>6, SMTT(60)

\* Theorem: on such a connection receive() returns null only after the peer's
\* closeOut() and after everything sent before it has been delivered.
THEOREM EndOfStreamIsComplete == NoReuse => (Spec => []EofIsComplete)
<1> SUFFICES ASSUME NoReuse
             PROVE  Spec => []EofIsComplete
  OBVIOUS
<1>1. Init => EndInv
  BY InitOrder DEF Init, EndInv, ResetGenuine, Connected, EofIsComplete, Peers
<1>2. TypeOK /\ EndInv /\ [Next]_vars => EndInv'
  BY StepKinds, MovesKeepOrder, NumbersKeepOrder, ReceiveKeepsOrder, ResetKept,
     ConnectedKept, EofKept DEF EndInv
<1>3. EndInv => EofIsComplete
  BY DEF EndInv
<1> QED BY <1>1, <1>2, <1>3, TypeCorrect, PTL DEF Spec

----------------------------------------------------------------------------
(* Acknowledgements *)

\* Lemma: an ordinal whose number is in range is behind the end of the window.
LEMMA InRangeMeans ==
  ASSUME NEW b \in 1..(Modulus - 1), NEW d \in 0..(Modulus - 1),
         InRange(SeqOf(b), SeqOf(d))
  PROVE  b < d + MaxRcvd
<1>1. /\ Modulus \in Nat /\ FirstSeq \in Nat /\ FirstSeq < Modulus
      /\ MaxRcvd \in Nat /\ MaxRcvd > 0
  BY ConstantsAssumption
<1>2. b \in 0..Modulus /\ d \in 0..Modulus
  BY <1>1
<1> QED BY <1>1, <1>2, SeqOfValue DEF InRange

\* Lemma: inside the window, what isDuplicated accepts has been delivered.
LEMMA DuplicatedMeans ==
  ASSUME NEW b \in 1..(Modulus - 1), NEW d \in 0..(Modulus - 1),
         b < d + MaxRcvd, IsDuplicated(SeqOf(b), SeqOf(d))
  PROVE  b <= d
<1>1. /\ Modulus \in Nat /\ FirstSeq \in Nat /\ FirstSeq < Modulus
      /\ MaxRcvd \in Nat /\ MaxQueue \in Nat
      /\ MaxRcvd + 2 * MaxQueue <= Modulus
  BY ConstantsAssumption, WindowAssumption
<1>2. b \in 0..Modulus /\ d \in 0..Modulus
  BY <1>1
<1> QED BY <1>1, <1>2, SeqOfValue DEF IsDuplicated

\* Lemma: ordinals stay below the modulus.
LEMMA OrdinalBounds ==
  ASSUME TypeOK, OrderInv, NoReuse, NEW e \in Peers
  PROVE  /\ Modulus \in Nat /\ Len(sent[e]) \in Nat /\ Len(delivered[e]) \in Nat
         /\ Len(sent[e]) < Modulus
         /\ Len(delivered[e]) <= Len(sent[Peer(e)])
         /\ Len(delivered[e]) < Modulus
<1>1. \A f \in Peers : /\ Len(sent[f]) \in Nat /\ Len(delivered[f]) \in Nat
                       /\ Len(sent[f]) <= MaxPackets[f]
                       /\ MaxPackets[f] \in Nat /\ MaxPackets[f] < Modulus
  BY ConstantsAssumption DEF TypeOK, OrderInv, Counted, NoReuse
<1>2. Modulus \in Nat
  BY ConstantsAssumption
<1>3. Len(delivered[e]) <= Len(sent[Peer(e)])
  BY <1>1, PeerType DEF OrderInv, InOrder
<1> QED BY <1>1, <1>2, <1>3, PeerType

\* Lemma: packets of one peer with the same number have the same ordinal.
LEMMA SameSeqSameOrdinal ==
  ASSUME TypeOK, OrderInv, NoReuse, NEW e \in Peers, NEW p, NEW q,
         From(e, p), From(e, q), p.type \in {"DAT", "RST"},
         q.type \in {"DAT", "RST"}, p.seq = q.seq
  PROVE  p.n = q.n
<1>1. /\ p.n \in 1..Len(sent[e]) /\ p.seq = SeqOf(p.n)
      /\ q.n \in 1..Len(sent[e]) /\ q.seq = SeqOf(q.n)
  BY DEF From
<1>2. Modulus \in Nat /\ Len(sent[e]) \in Nat /\ Len(sent[e]) < Modulus
  BY OrdinalBounds
<1>3. p.n \in 0..(Modulus - 1) /\ q.n \in 1..Modulus /\ p.n # 0
  BY <1>1, <1>2
<1> QED BY <1>1, <1>3, SeqOfInjective

\* Lemma: what the steps other than StoreData and Receive leave alone.
LEMMA RcvdUnchanged ==
  ASSUME [Next]_vars
  PROVE  \/ UNCHANGED <<rcvdMap, delivered>>
         \/ \E e \in Peers : StoreData(e) \/ Receive(e)
<1>1. Connect \/ UNCHANGED vars => UNCHANGED <<rcvdMap, delivered>>
  BY DEF Connect, ConnectReturn, ConnectTimeout, AcceptCall, AcceptReturn,
      recvVars, vars
<1>2. ASSUME NEW f \in Peers,
             SendData(f) \/ CloseOut(f) \/ Close(f) \/ ReceiveNull(f)
      PROVE  UNCHANGED <<rcvdMap, delivered>>
  BY <1>2 DEF SendData, CloseOut, Close, ReceiveNull, recvVars
<1>3. ASSUME NEW f \in Peers, NEW p,
             Retransmit(f, p) \/ Arrive(f, p) \/ Lose(f, p)
      PROVE  UNCHANGED <<rcvdMap, delivered>>
  BY <1>3 DEF Retransmit, Lose, Arrive, ArriveAck, ArriveData, ArriveOutside,
      ArriveRst, ArriveSyn, ArriveFirstSyn, ArriveNowhere, recvVars
<1> QED BY <1>1, <1>2, <1>3 DEF Next, Socket

\* Lemma: what StoreData does; the packet it handles has been received after it.
LEMMA StoreReceives ==
  ASSUME TypeOK, OrderInv, InWindow, NoReuse, NEW e \in Peers, StoreData(e)
  PROVE  \E p \in storing[e] :
           /\ p.type = "DAT" /\ From(Peer(e), p)
           /\ Received(e, p.n)'
           /\ \A q \in rcvdMap[e] : q \in rcvdMap'[e] \/ q.n = p.n
           /\ \A f \in Peers : f # e => rcvdMap'[f] = rcvdMap[f]
           /\ delivered' = delivered
           /\ \A f \in Peers : \A q \in net'[f] :
                q \in net[f] \/ (f = Peer(e) /\ q = AckOf(p))
<1>1. PICK p \in storing[e] :
        /\ rcvdMap' = IF IsDuplicated(p.seq, lastSeqRcvd[e]) THEN rcvdMap
                      ELSE [rcvdMap EXCEPT ![e] = PutPacket(@, p)]
        /\ IF e = "client" /\ closed[e] THEN net' = net
                                        ELSE Sending(e, AckOf(p))
        /\ delivered' = delivered
  BY DEF StoreData
<1>2. Peer(e) \in Peers /\ Peer(Peer(e)) = e
  BY PeerType
<1>3. From(Peer(e), p) /\ p.type = "DAT"
  BY <1>2 DEF OrderInv, Genuine
<1>4. p.n \in 1..Len(sent[Peer(e)]) /\ p.seq = SeqOf(p.n)
  BY <1>3 DEF From
<1>5. /\ Modulus \in Nat /\ Len(sent[Peer(e)]) \in Nat
      /\ Len(sent[Peer(e)]) < Modulus
      /\ Len(delivered[e]) \in Nat /\ Len(delivered[e]) < Modulus
  BY <1>2, OrdinalBounds
<1>6. p.n \in 1..(Modulus - 1) /\ Len(delivered[e]) \in 0..(Modulus - 1)
  BY <1>4, <1>5
<1>7. \A f \in Peers : \A q \in net'[f] :
        q \in net[f] \/ (f = Peer(e) /\ q = AckOf(p))
  <2>1. CASE net' = net
    BY <2>1
  <2>2. CASE Sending(e, AckOf(p))
    BY <1>2, <2>2 DEF Sending, TypeOK
  <2> QED BY <1>1, <2>1, <2>2
<1>8. CASE IsDuplicated(p.seq, lastSeqRcvd[e])
  <2>1. rcvdMap' = rcvdMap
    BY <1>1, <1>8
  <2>2. p.n <= Len(delivered[e])
    <3>1. IsDuplicated(SeqOf(p.n), SeqOf(Len(delivered[e])))
      BY <1>4, <1>8 DEF OrderInv, Counted
    <3>2. p.n < Len(delivered[e]) + MaxRcvd
      BY DEF InWindow
    <3> QED BY <1>6, <3>1, <3>2, DuplicatedMeans
  <2>3. p.n \in 1..Len(delivered[e]) /\ delivered[e][p.n] = p.n
    BY <1>4, <1>5, <2>2 DEF OrderInv, InOrder
  <2>4. Received(e, p.n)'
    BY <1>1, <2>3 DEF Received
  <2> QED BY <1>1, <1>3, <1>7, <2>1, <2>4
<1>9. CASE ~IsDuplicated(p.seq, lastSeqRcvd[e])
  <2>1. rcvdMap' = [rcvdMap EXCEPT ![e] = PutPacket(@, p)]
    BY <1>1, <1>9
  <2>2. rcvdMap'[e] = {q \in rcvdMap[e] : q.seq # p.seq} \cup {p}
    BY <2>1 DEF PutPacket, RemoveSeq, TypeOK
  <2>3. \A f \in Peers : f # e => rcvdMap'[f] = rcvdMap[f]
    BY <2>1 DEF TypeOK
  <2>4. Received(e, p.n)'
    BY <2>2 DEF Received
  <2>5. ASSUME NEW q \in rcvdMap[e], q.seq = p.seq
        PROVE  q.n = p.n
    <3>1. From(Peer(e), q) /\ q.type = "DAT"
      BY <1>2 DEF OrderInv, Genuine
    <3> QED BY <1>2, <1>3, <2>5, <3>1, SameSeqSameOrdinal
  <2> QED BY <1>1, <1>3, <1>7, <2>2, <2>3, <2>4, <2>5
<1> QED BY <1>8, <1>9

\* Lemma: a packet that has been received stays received.
LEMMA ReceivedKept ==
  ASSUME TypeOK, OrderInv, InWindow, NoReuse, [Next]_vars,
         NEW e \in Peers, NEW n \in Nat, Received(e, n)
  PROVE  Received(e, n)'
<1>1. CASE UNCHANGED <<rcvdMap, delivered>>
  BY <1>1 DEF Received
<1>2. ASSUME NEW f \in Peers, StoreData(f)
      PROVE  Received(e, n)'
  <2>1. PICK p \in storing[f] :
          /\ Received(f, p.n)'
          /\ \A q \in rcvdMap[f] : q \in rcvdMap'[f] \/ q.n = p.n
          /\ \A g \in Peers : g # f => rcvdMap'[g] = rcvdMap[g]
          /\ delivered' = delivered
    BY <1>2, StoreReceives
  <2>2. CASE \E i \in 1..Len(delivered[e]) : delivered[e][i] = n
    BY <2>1, <2>2 DEF Received
  <2>3. CASE \E q \in rcvdMap[e] : q.n = n
    <3>1. PICK q \in rcvdMap[e] : q.n = n
      BY <2>3
    <3>2. CASE q \in rcvdMap'[e]
      BY <3>1, <3>2 DEF Received
    <3>3. CASE e = f /\ n = p.n
      BY <2>1, <3>3
    <3> QED BY <2>1, <3>1, <3>2, <3>3
  <2> QED BY <2>2, <2>3 DEF Received
<1>3. ASSUME NEW f \in Peers, Receive(f)
      PROVE  Received(e, n)'
  <2>1. PICK p \in rcvdMap[f] :
          /\ Available(f, p)
          /\ rcvdMap' = [rcvdMap EXCEPT ![f] = RemoveSeq(@, p.seq)]
          /\ delivered' = [delivered EXCEPT ![f] = Append(@, p.n)]
    BY <1>3 DEF Receive
  <2>2. p.n \in Nat
    BY DEF TypeOK, Packets
  <2>3. /\ Len(delivered[f]) \in Nat
        /\ Len(delivered'[f]) = Len(delivered[f]) + 1
        /\ delivered'[f][Len(delivered[f]) + 1] = p.n
        /\ \A g \in Peers : /\ Len(delivered[g]) \in Nat
                            /\ Len(delivered'[g]) \in Nat
                            /\ Len(delivered[g]) <= Len(delivered'[g])
                            /\ \A i \in 1..Len(delivered[g]) :
                                 delivered'[g][i] = delivered[g][i]
    BY <2>1, <2>2 DEF TypeOK
  <2>4. CASE \E i \in 1..Len(delivered[e]) : delivered[e][i] = n
    BY <2>3, <2>4, SMTT(60) DEF Received
  <2>5. CASE \E q \in rcvdMap[e] : q.n = n
    <3>1. PICK q \in rcvdMap[e] : q.n = n
      BY <2>5
    <3>2. CASE q \in rcvdMap'[e]
      BY <3>1, <3>2 DEF Received
    <3>3. CASE e = f /\ q.seq = p.seq
      <4>1. Peer(e) \in Peers /\ Peer(Peer(e)) = e
        BY PeerType
      <4>2. From(Peer(e), q) /\ q.type = "DAT" /\ From(Peer(e), p) /\ p.type = "DAT"
        BY <3>3, <4>1 DEF OrderInv, Genuine
      <4>3. n = p.n
        BY <3>1, <3>3, <4>1, <4>2, SameSeqSameOrdinal
      <4>4. Len(delivered'[e]) \in 1..Len(delivered'[e])
            /\ delivered'[e][Len(delivered'[e])] = n
        BY <2>3, <3>3, <4>3
      <4> QED BY <4>4 DEF Received
    <3> QED BY <2>1, <3>1, <3>2, <3>3 DEF RemoveSeq, TypeOK
  <2> QED BY <2>4, <2>5 DEF Received
<1> QED BY <1>1, <1>2, <1>3, RcvdUnchanged

\* Lemma: a packet the receiver thread is storing stays in its window.
LEMMA WindowKept ==
  ASSUME TypeOK, OrderInv, InWindow, NoReuse, [Next]_vars
  PROVE  InWindow'
<1> SUFFICES ASSUME NEW e \in Peers, NEW p \in storing'[e]
             PROVE  p.n < Len(delivered'[e]) + MaxRcvd
  BY DEF InWindow
<1>1. /\ Len(delivered[e]) \in Nat /\ Len(delivered'[e]) \in Nat
      /\ Len(delivered[e]) <= Len(delivered'[e])
  <2>1. delivered[e] \in Seq(Nat)
    BY DEF TypeOK
  <2>2. CASE delivered' = delivered
    BY <2>1, <2>2
  <2>3. ASSUME NEW f \in Peers, Receive(f)
        PROVE  \E n \in Nat : delivered' = [delivered EXCEPT ![f] = Append(@, n)]
    <3>1. PICK q \in rcvdMap[f] :
            delivered' = [delivered EXCEPT ![f] = Append(@, q.n)]
      BY <2>3 DEF Receive
    <3>2. q.n \in Nat
      BY DEF TypeOK, Packets
    <3> QED BY <3>1, <3>2
  <2>4. ASSUME NEW f \in Peers, NEW n \in Nat,
               delivered' = [delivered EXCEPT ![f] = Append(@, n)]
        PROVE  /\ Len(delivered[e]) \in Nat /\ Len(delivered'[e]) \in Nat
               /\ Len(delivered[e]) <= Len(delivered'[e])
    BY <2>4 DEF TypeOK
  <2>5. (Moves \/ \E f \in Peers, t \in {"DAT", "RST"} : Numbers(f, t))
          => delivered' = delivered
    BY DEF Moves, Numbers, recvVars
  <2> QED BY <2>2, <2>3, <2>4, <2>5, StepKinds
<1>2. MaxRcvd \in Nat
  BY ConstantsAssumption
<1>3. CASE p \in storing[e]
  <2>1. p.n < Len(delivered[e]) + MaxRcvd /\ p.n \in Nat
    BY <1>3 DEF InWindow, TypeOK, Packets
  <2> QED BY <1>1, <1>2, <2>1
<1>4. ASSUME p \notin storing[e]
      PROVE  p \in net[e] /\ ArriveData(e, p)
  <2>1. Connect \/ UNCHANGED vars => storing' = storing
    BY DEF Connect, ConnectReturn, ConnectTimeout, AcceptCall, AcceptReturn, vars
  <2>2. ASSUME NEW f \in Peers, Socket(f)
        PROVE  storing'[e] \subseteq storing[e]
    BY <2>2 DEF Socket, SendData, CloseOut, Close, Receive, ReceiveNull,
        StoreData, TypeOK
  <2>3. ASSUME NEW f \in Peers, NEW q, Retransmit(f, q) \/ Lose(f, q)
        PROVE  storing' = storing
    BY <2>3 DEF Retransmit, Lose
  <2>4. ASSUME NEW f \in Peers, NEW q \in net[f], Arrive(f, q)
        PROVE  \/ storing' = storing
               \/ ArriveData(f, q) /\ storing' = [storing EXCEPT ![f] = {q}]
    BY <2>4 DEF Arrive, ArriveAck, ArriveData, ArriveOutside, ArriveRst,
        ArriveSyn, ArriveFirstSyn, ArriveNowhere
  <2>5. ASSUME NEW f \in Peers, NEW q \in net[f], ArriveData(f, q),
               storing' = [storing EXCEPT ![f] = {q}]
        PROVE  f = e /\ p = q
    BY <1>4, <2>5 DEF TypeOK
  <2> QED BY <1>4, <2>1, <2>2, <2>3, <2>4, <2>5 DEF Next
<1>5. CASE p \notin storing[e]
  <2>1. Peer(e) \in Peers /\ Peer(Peer(e)) = e
    BY PeerType
  <2>2. From(Peer(e), p) /\ p.type = "DAT" /\ InRange(p.seq, lastSeqRcvd[e])
    BY <1>4, <1>5, <2>1 DEF ArriveData, OrderInv, Genuine
  <2>3. /\ p.n \in 1..Len(sent[Peer(e)])
        /\ InRange(SeqOf(p.n), SeqOf(Len(delivered[e])))
    BY <2>2 DEF From, OrderInv, Counted
  <2>4. p.n \in 1..(Modulus - 1) /\ Len(delivered[e]) \in 0..(Modulus - 1)
    BY <2>1, <2>3, OrdinalBounds
  <2>5. p.n < Len(delivered[e]) + MaxRcvd
    BY <2>3, <2>4, InRangeMeans
  <2> QED BY <1>1, <1>2, <2>4, <2>5
<1> QED BY <1>3, <1>5

\* Lemma: an ACK that a step puts in flight acknowledges a SYN, a RST or the
\* DAT that has just been stored.
LEMMA NewAck ==
  ASSUME TypeOK, OrderInv, InWindow, NoReuse, [Next]_vars,
         NEW e \in Peers, NEW a \in net'[e], a \notin net[e], a.type = "ACK"
  PROVE  \E n \in 0..Len(sent[e]) :
           /\ a.seq = SeqOf(n)
           /\ n > 0 /\ sent[e][n] = "DAT" => Received(Peer(e), n)'
<1>1. Peer(e) \in Peers /\ Peer(Peer(e)) = e
  BY PeerType
<1>2. Len(sent[e]) \in Nat
  BY DEF TypeOK
<1>3. ASSUME NEW f \in Peers, StoreData(f)
      PROVE  \E n \in 0..Len(sent[e]) :
               /\ a.seq = SeqOf(n)
               /\ n > 0 /\ sent[e][n] = "DAT" => Received(Peer(e), n)'
  <2>1. PICK p \in storing[f] :
          /\ p.type = "DAT" /\ From(Peer(f), p)
          /\ Received(f, p.n)'
          /\ \A g \in Peers : \A q \in net'[g] :
               q \in net[g] \/ (g = Peer(f) /\ q = AckOf(p))
    BY <1>3, StoreReceives
  <2>2. e = Peer(f) /\ a = AckOf(p)
    BY <2>1
  <2>3. f = Peer(e)
    BY <2>2, PeerType
  <2>4. p.n \in 1..Len(sent[e]) /\ a.seq = SeqOf(p.n)
    BY <2>1, <2>2, AckType DEF From
  <2> QED BY <1>2, <2>1, <2>3, <2>4
<1>4. ASSUME NEW f \in Peers, NEW p \in net[f], Arrive(f, p)
      PROVE  \E n \in 0..Len(sent[e]) :
               a.seq = SeqOf(n) /\ (n > 0 => sent[e][n] # "DAT")
  <2>1. Consuming(f, p) \/ Answering(f, p)
    BY <1>4 DEF Arrive, ArriveAck, ArriveData, ArriveOutside, ArriveRst,
        ArriveSyn, ArriveFirstSyn, ArriveNowhere
  <2>2. e = Peer(f) /\ a = AckOf(p) /\ Answering(f, p)
    BY <2>1, ConsumeMoves
  <2>3. Peer(f) \in Peers /\ f = Peer(e)
    BY <2>2, PeerType
  <2>4. From(e, p) /\ a.seq = p.seq
    BY <1>1, <2>2, <2>3, AckType DEF OrderInv, Genuine
  <2>5. CASE p.type = "RST"
    <3>1. p.n \in 1..Len(sent[e]) /\ p.seq = SeqOf(p.n) /\ sent[e][p.n] = "RST"
      BY <2>4, <2>5 DEF From
    <3> QED BY <1>2, <2>4, <3>1
  <2>6. CASE p.type = "SYN"
    <3>1. a.seq = SeqOf(0)
      BY <2>4, <2>6, SeqOfValue, ConstantsAssumption DEF From
    <3> QED BY <1>2, <3>1
  <2>7. ASSUME p.type \notin {"RST", "SYN"}
        PROVE  Consuming(f, p)
    BY <1>4, <2>7 DEF Arrive, ArriveAck, ArriveData, ArriveOutside, ArriveRst,
        ArriveSyn, ArriveFirstSyn, ArriveNowhere
  <2>8. ~Consuming(f, p)
    <3>1. \A rest \in RestOf(f, p) : rest \subseteq net[f]
      BY DEF RestOf
    <3> QED BY <3>1, ZenonT(60) DEF Consuming, TypeOK
  <2> QED BY <2>5, <2>6, <2>7, <2>8
<1>5. Connect \/ UNCHANGED vars => net' = net
  BY DEF Connect, ConnectReturn, ConnectTimeout, AcceptCall, AcceptReturn, vars
<1>6. ASSUME NEW f \in Peers, Close(f) \/ Receive(f) \/ ReceiveNull(f)
      PROVE  net' = net
  BY <1>6 DEF Close, Receive, ReceiveNull
<1>7. ASSUME NEW f \in Peers, NEW q, q.type # "ACK", Sending(f, q)
      PROVE  FALSE
  BY <1>7, PeerType DEF Sending, TypeOK
<1>8. ASSUME NEW f \in Peers, SendData(f) \/ CloseOut(f)
      PROVE  FALSE
  BY <1>7, <1>8 DEF SendData, CloseOut, SendNumbered, Packet
<1>9. ASSUME NEW f \in Peers, NEW q \in tasks[f], Retransmit(f, q)
      PROVE  FALSE
  BY <1>7, <1>9 DEF Retransmit, OrderInv, Genuine
<1>10. ASSUME NEW f \in Peers, NEW q \in net[f], Lose(f, q)
       PROVE  FALSE
  BY <1>10 DEF Lose, TypeOK
<1> QED BY <1>3, <1>4, <1>5, <1>6, <1>8, <1>9, <1>10 DEF Next, Socket

\* Lemma: an ACK under way stays one for a packet received.
LEMMA AckGenuineKept ==
  ASSUME TypeOK, OrderInv, AckGenuine, InWindow, NoReuse, [Next]_vars
  PROVE  AckGenuine'
<1> SUFFICES ASSUME NEW e \in Peers, NEW a \in net'[e], a.type = "ACK"
             PROVE  \E n \in 0..Len(sent'[e]) :
                      /\ a.seq = SeqOf(n)
                      /\ n > 0 /\ sent'[e][n] = "DAT" => Received(Peer(e), n)'
  BY DEF AckGenuine, SeqOf, Peer, Received
<1>1. Peer(e) \in Peers
  BY PeerType
<1>2. PICK n \in 0..Len(sent[e]) :
        /\ a.seq = SeqOf(n)
        /\ n > 0 /\ sent[e][n] = "DAT" => Received(Peer(e), n)'
  <2>1. CASE a \in net[e]
    <3>1. PICK n \in 0..Len(sent[e]) :
            /\ a.seq = SeqOf(n)
            /\ n > 0 /\ sent[e][n] = "DAT" => Received(Peer(e), n)
      BY <2>1 DEF AckGenuine
    <3>2. n \in Nat
      BY <3>1
    <3> QED BY <1>1, <3>1, <3>2, ReceivedKept
  <2>2. CASE a \notin net[e]
    BY <2>2, NewAck
  <2> QED BY <2>1, <2>2
<1>3. /\ Len(sent[e]) \in Nat /\ Len(sent'[e]) \in Nat
      /\ Len(sent[e]) <= Len(sent'[e])
      /\ \A i \in 1..Len(sent[e]) : sent'[e][i] = sent[e][i]
  BY SentGrows
<1>4. n \in 0..Len(sent'[e]) /\ (n > 0 => sent'[e][n] = sent[e][n])
  BY <1>3
<1> QED BY <1>2, <1>4

\* Lemma: a sender forgets a packet only for its acknowledgement.
LEMMA UnackStep ==
  ASSUME TypeOK, OrderInv, NoReuse, [Next]_vars, NEW e \in Peers,
         NEW p \in unackMap[e], p \notin unackMap'[e]
  PROVE  \E a \in net[e] : a.type = "ACK" /\ a.seq = p.seq
<1> USE DEF TypeOK
<1>1. Connect \/ UNCHANGED vars => unackMap' = unackMap
  BY DEF Connect, ConnectReturn, ConnectTimeout, AcceptCall, AcceptReturn,
      sendVars, vars
<1>2. ASSUME NEW f \in Peers, NEW t \in {"DAT", "RST"}, Numbers(f, t)
      PROVE  FALSE
  <2>1. PICK k, q : k \in Nat /\ k = Len(sent[f]) + 1 /\ q = Packet(t, SeqOf(k), k)
    OBVIOUS
  <2> k \in Nat  BY <2>1
  <2>2. unackMap' = [unackMap EXCEPT ![f] = @ \cup {q}]
    BY <1>2, <2>1, NumberedPacket
  <2> QED BY <2>2
<1>3. ASSUME NEW f \in Peers, SendData(f) \/ CloseOut(f)
      PROVE  FALSE
  BY <1>2, <1>3 DEF SendData, CloseOut, Numbers
<1>4. ASSUME NEW f \in Peers,
             Close(f) \/ Receive(f) \/ ReceiveNull(f) \/ StoreData(f)
      PROVE  unackMap' = unackMap
  BY <1>4 DEF Close, Receive, ReceiveNull, StoreData, sendVars
<1>5. ASSUME NEW f \in Peers, NEW q, Retransmit(f, q) \/ Lose(f, q)
      PROVE  unackMap' = unackMap
  BY <1>5 DEF Retransmit, Lose, sendVars
<1>6. ASSUME NEW f \in Peers, NEW q \in net[f], Arrive(f, q)
      PROVE  unackMap' = unackMap \/ ArriveAck(f, q)
  BY <1>6 DEF Arrive, ArriveData, ArriveOutside, ArriveRst, ArriveSyn,
      ArriveFirstSyn, ArriveNowhere, sendVars
<1>7. ASSUME NEW f \in Peers, NEW q \in net[f], ArriveAck(f, q)
      PROVE  f = e /\ q.type = "ACK" /\ q.seq = p.seq
  BY <1>7 DEF ArriveAck, RemoveSeq
<1> QED BY <1>1, <1>3, <1>4, <1>5, <1>6, <1>7 DEF Next, Socket

\* Lemma: a packet leaves unackMap only when it was received.
LEMMA AckedKept ==
  ASSUME TypeOK, AckInv, NoReuse, [Next]_vars
  PROVE  AckedIsReceived'
<1> USE DEF AckInv
<1> SUFFICES ASSUME NEW e \in Peers, NEW n \in 1..Len(sent'[e]),
                    sent'[e][n] = "DAT",
                    ~(\E p \in unackMap'[e] : p.n = n)
             PROVE  Received(Peer(e), n)'
  BY DEF AckedIsReceived, Received, Peer
<1>1. Peer(e) \in Peers
  BY PeerType
<1>2. /\ Len(sent[e]) \in Nat /\ Len(sent'[e]) \in Nat
      /\ Len(sent[e]) <= Len(sent'[e])
      /\ \A i \in 1..Len(sent[e]) : sent'[e][i] = sent[e][i]
  BY SentGrows
<1>3. n \in 1..Len(sent[e])
  <2>1. CASE sent' = sent
    BY <2>1
  <2>2. ASSUME NEW f \in Peers, NEW t \in {"DAT", "RST"}, Numbers(f, t)
        PROVE  n \in 1..Len(sent[e])
    <3>1. PICK k, p : k \in Nat /\ k = Len(sent[f]) + 1 /\ p = Packet(t, SeqOf(k), k)
      BY DEF TypeOK
    <3> k \in Nat  BY <3>1
    <3>2. /\ sent' = [sent EXCEPT ![f] = Append(@, t)]
          /\ unackMap' = [unackMap EXCEPT ![f] = @ \cup {p}]
      BY <2>2, <3>1, NumberedPacket
    <3>3. CASE f # e
      BY <3>2, <3>3 DEF TypeOK
    <3>4. CASE f = e
      <4>1. Len(sent'[e]) = k
        BY <3>1, <3>2, <3>4 DEF TypeOK
      <4>2. p \in unackMap'[e] /\ p.n = k
        BY <3>1, <3>2, <3>4 DEF TypeOK, Packet
      <4> QED BY <1>2, <3>1, <3>4, <4>1, <4>2
    <3> QED BY <3>3, <3>4
  <2>3. (Moves \/ \E f \in Peers : Receive(f)) => sent' = sent
    BY DEF Moves, Receive, sendVars
  <2> QED BY <2>1, <2>2, <2>3, StepKinds
<1>4. sent[e][n] = "DAT"
  BY <1>2, <1>3
<1>5. Received(Peer(e), n)
  <2>1. CASE ~(\E p \in unackMap[e] : p.n = n)
    BY <1>3, <1>4, <2>1 DEF AckedIsReceived
  <2>2. CASE \E p \in unackMap[e] : p.n = n
    <3>1. PICK p \in unackMap[e] : p.n = n
      BY <2>2
    <3>2. PICK a \in net[e] : a.type = "ACK" /\ a.seq = p.seq
      BY <3>1, UnackStep
    <3>3. PICK m \in 0..Len(sent[e]) :
            /\ a.seq = SeqOf(m)
            /\ m > 0 /\ sent[e][m] = "DAT" => Received(Peer(e), m)
      BY <3>2 DEF AckGenuine
    <3>4. From(e, p) /\ p.type \in {"SYN", "DAT", "RST"}
      BY DEF OrderInv, Genuine, TypeOK, Packets
    <3>5. p.seq = SeqOf(n)
      BY <1>2, <3>1, <3>4 DEF From
    <3>6. /\ m \in 0..(Modulus - 1) /\ n \in 1..Modulus /\ n < Modulus
      BY <1>3, <3>3, OrdinalBounds
    <3>7. m = n
      BY <3>2, <3>3, <3>5, <3>6, SeqOfInjective
    <3> QED BY <1>3, <1>4, <3>3, <3>7
  <2> QED BY <2>1, <2>2
<1>6. n \in Nat
  BY <1>2
<1> QED BY <1>1, <1>5, <1>6, ReceivedKept

\* Theorem: on such a connection a sender forgets a DAT only when its peer has
\* it: what sendData accepted is in unackMap, in the peer's rcvdMap, or
\* delivered.
THEOREM AcknowledgedIsReceived == NoReuse => (Spec => []AckedIsReceived)
<1> SUFFICES ASSUME NoReuse
             PROVE  Spec => []AckedIsReceived
  OBVIOUS
<1>1. Init => AckInv
  <2> SUFFICES ASSUME Init
               PROVE  AckInv
    OBVIOUS
  <2>1. AckGenuine
    BY DEF Init, AckGenuine, Syn, Packet
  <2>2. InWindow /\ AckedIsReceived
    BY DEF Init, InWindow, AckedIsReceived
  <2> QED BY <2>1, <2>2, InitOrder DEF AckInv
<1>2. TypeOK /\ AckInv /\ [Next]_vars => AckInv'
  BY StepKinds, MovesKeepOrder, NumbersKeepOrder, ReceiveKeepsOrder,
     AckGenuineKept, WindowKept, AckedKept DEF AckInv
<1>3. AckInv => AckedIsReceived
  BY DEF AckInv
<1> QED BY <1>1, <1>2, <1>3, TypeCorrect, PTL DEF Spec

----------------------------------------------------------------------------
(* The stream in the history of what a peer numbered *)

\* Did that history shut the stream, with which packet, and how many packets
\* were written before?
ShutIn(s) == \E i \in 1..Len(s) : s[i] = "RST"
IsFirstRst(s, k) == /\ k \in 1..Len(s) /\ s[k] = "RST"
                    /\ \A i \in 1..(k - 1) : s[i] = "DAT"
FirstIn(s) == CHOOSE k \in 1..Len(s) :
                s[k] = "RST" /\ \A i \in 1..(k - 1) : s[i] = "DAT"
LenIn(s) == IF ShutIn(s) THEN FirstIn(s) - 1 ELSE Len(s)

Histories == Seq({"DAT", "RST"})

\* A history that has a RST has a first one.
HasFirst(s) == ShutIn(s) => \E k : IsFirstRst(s, k)
ShutsOnce == \A e \in Peers : HasFirst(sent[e])

\* Lemma: the first RST is unique.
LEMMA FirstIsChosen ==
  ASSUME NEW s \in Histories, NEW k, IsFirstRst(s, k)
  PROVE  ShutIn(s) /\ FirstIn(s) = k /\ LenIn(s) = k - 1
<1> USE DEF Histories, IsFirstRst
<1>1. ShutIn(s)
  BY DEF ShutIn
<1>2. ASSUME NEW m \in 1..Len(s), s[m] = "RST",
             \A i \in 1..(m - 1) : s[i] = "DAT"
      PROVE  m = k
  <2>1. ~(m < k) /\ ~(k < m)
    BY <1>2
  <2> QED BY <2>1
<1>3. FirstIn(s) = k
  BY <1>2 DEF FirstIn
<1> QED BY <1>1, <1>3 DEF LenIn

\* Lemma: the packets before the first RST are DATs.
LEMMA LenInBounds ==
  ASSUME NEW s \in Histories, HasFirst(s)
  PROVE  /\ LenIn(s) \in 0..Len(s)
         /\ \A i \in 1..LenIn(s) : s[i] = "DAT"
         /\ ShutIn(s) => LenIn(s) + 1 <= Len(s) /\ s[LenIn(s) + 1] = "RST"
<1>1. CASE ShutIn(s)
  <2>1. PICK k : IsFirstRst(s, k)
    BY <1>1 DEF HasFirst
  <2>2. LenIn(s) = k - 1
    BY <2>1, FirstIsChosen
  <2> QED BY <2>1, <2>2 DEF IsFirstRst, Histories
<1>2. CASE ~ShutIn(s)
  <2>1. LenIn(s) = Len(s)
    BY <1>2 DEF LenIn
  <2> QED BY <1>2, <2>1 DEF ShutIn, Histories
<1> QED BY <1>1, <1>2

\* Lemma: one more packet: it is part of the stream when it is a DAT before
\* the first RST.
LEMMA HistoryGrows ==
  ASSUME NEW s \in Histories, HasFirst(s), NEW x \in {"DAT", "RST"},
         NEW t, t = Append(s, x)
  PROVE  /\ t \in Histories /\ HasFirst(t)
         /\ ShutIn(s) => ShutIn(t) /\ LenIn(t) = LenIn(s)
         /\ ~ShutIn(s) /\ x = "DAT" =>
              ~ShutIn(t) /\ LenIn(t) = LenIn(s) + 1
         /\ ~ShutIn(s) /\ x = "RST" => ShutIn(t) /\ LenIn(t) = LenIn(s)
<1>1. /\ t \in Histories /\ Len(s) \in Nat /\ Len(t) = Len(s) + 1
      /\ t[Len(s) + 1] = x
      /\ \A i \in 1..Len(s) : t[i] = s[i]
  BY DEF Histories
<1>2. CASE ShutIn(s)
  <2>1. PICK k : IsFirstRst(s, k)
    BY <1>2 DEF HasFirst
  <2>2. IsFirstRst(t, k)
    BY <1>1, <2>1 DEF IsFirstRst
  <2> QED BY <1>1, <1>2, <2>1, <2>2, FirstIsChosen DEF HasFirst
<1>3. CASE ~ShutIn(s) /\ x = "DAT"
  <2>1. ~ShutIn(t)
    BY <1>1, <1>3 DEF ShutIn
  <2> QED BY <1>1, <1>3, <2>1 DEF HasFirst, LenIn
<1>4. CASE ~ShutIn(s) /\ x = "RST"
  <2>1. \A i \in 1..Len(s) : s[i] = "DAT"
    BY <1>4 DEF ShutIn, Histories
  <2>2. IsFirstRst(t, Len(s) + 1)
    BY <1>1, <1>4, <2>1 DEF IsFirstRst
  <2>3. ShutIn(t) /\ LenIn(t) = Len(s) + 1 - 1
    BY <1>1, <2>2, FirstIsChosen
  <2> QED BY <1>1, <1>4, <2>2, <2>3 DEF HasFirst, LenIn
<1> QED BY <1>2, <1>3, <1>4

----------------------------------------------------------------------------
(* The refinement *)

\* Lemma: the mapped variables of a direction, before and after a step.
LEMMA StreamOf ==
  ASSUME NEW e \in Peers
  PROVE  /\ IsShut(e) = ShutIn(sent[e])
         /\ IsShut(e)' = ShutIn(sent'[e])
         /\ Written(e) = [i \in 1..LenIn(sent[e]) |-> i]
         /\ Written(e)' = [i \in 1..LenIn(sent'[e]) |-> i]
BY DEF IsShut, ShutIn, Written, WrittenLen, LenIn, FirstRst, FirstIn

\* Lemma: the first n ordinals, as a sequence.
LEMMA FirstOrdinals ==
  ASSUME NEW n \in Nat
  PROVE  /\ [i \in 1..n |-> i] \in Seq(Nat)
         /\ Len([i \in 1..n |-> i]) = n
         /\ \A i \in 1..n : [j \in 1..n |-> j][i] = i
OBVIOUS

\* Lemma: the end of the stream is noticed in receive() only.
LEMMA EofStep ==
  ASSUME TypeOK, [Next]_vars, NEW e \in Peers
  PROVE  \/ eof'[e] = eof[e]
         \/ ReceiveNull(e) /\ eof'[e] /\ UNCHANGED <<sent, delivered>>
<1>1. ASSUME NEW f \in Peers, Receive(f)
      PROVE  eof' = eof
  BY <1>1 DEF Receive
<1>2. ASSUME NEW f \in Peers, ReceiveNull(f)
      PROVE  \/ eof'[e] = eof[e]
             \/ ReceiveNull(e) /\ eof'[e] /\ UNCHANGED <<sent, delivered>>
  BY <1>2 DEF ReceiveNull, TypeOK, sendVars
<1>3. Connect \/ UNCHANGED vars => eof' = eof
  BY DEF Connect, ConnectReturn, ConnectTimeout, AcceptCall, AcceptReturn,
      recvVars, vars
<1>4. ASSUME NEW f \in Peers,
             SendData(f) \/ CloseOut(f) \/ Close(f) \/ StoreData(f)
      PROVE  eof' = eof
  BY <1>4 DEF SendData, CloseOut, Close, StoreData, recvVars
<1>5. ASSUME NEW f \in Peers, NEW p,
             Retransmit(f, p) \/ Arrive(f, p) \/ Lose(f, p)
      PROVE  eof' = eof
  BY <1>5 DEF Retransmit, Lose, Arrive, ArriveAck, ArriveData, ArriveOutside,
      ArriveRst, ArriveSyn, ArriveFirstSyn, ArriveNowhere, recvVars
<1> QED BY <1>1, <1>2, <1>3, <1>4, <1>5 DEF Next, Socket

\* Lemma: what a step does to the history and to what a reader was given.
LEMMA HistoryStep ==
  ASSUME TypeOK, [Next]_vars
  PROVE  \/ UNCHANGED <<sent, delivered>>
         \/ \E e \in Peers, t \in {"DAT", "RST"} :
              /\ sent' = [sent EXCEPT ![e] = Append(@, t)]
              /\ UNCHANGED <<delivered, eof>>
         \/ \E e \in Peers : Receive(e)
<1>1. Moves => UNCHANGED <<sent, delivered>>
  BY DEF Moves
<1>2. ASSUME NEW e \in Peers, NEW t \in {"DAT", "RST"}, Numbers(e, t)
      PROVE  /\ sent' = [sent EXCEPT ![e] = Append(@, t)]
             /\ UNCHANGED <<delivered, eof>>
  BY <1>2 DEF Numbers, SendNumbered, recvVars
<1> QED BY <1>1, <1>2, StepKinds

\* Lemma: a history with a RST keeps its first one.
LEMMA ShutsOnceKept ==
  ASSUME TypeOK, ShutsOnce, [Next]_vars
  PROVE  ShutsOnce'
<1> SUFFICES ASSUME NEW f \in Peers
             PROVE  HasFirst(sent'[f])
  BY DEF ShutsOnce, HasFirst, ShutIn, IsFirstRst
<1>1. HasFirst(sent[f]) /\ sent[f] \in Histories
  BY DEF ShutsOnce, TypeOK, Histories
<1>2. CASE sent' = sent
  BY <1>1, <1>2
<1>3. ASSUME NEW e \in Peers, NEW t \in {"DAT", "RST"},
             sent' = [sent EXCEPT ![e] = Append(@, t)]
      PROVE  HasFirst(sent'[f])
  <2>1. CASE f = e
    <3>1. sent'[f] = Append(sent[f], t)
      BY <1>3, <2>1 DEF TypeOK
    <3> QED BY <1>1, <3>1, HistoryGrows
  <2>2. CASE f # e
    BY <1>1, <1>3, <2>2 DEF TypeOK
  <2> QED BY <2>1, <2>2
<1>4. ASSUME NEW e \in Peers, Receive(e)
      PROVE  sent' = sent
  BY <1>4 DEF Receive, sendVars
<1> QED BY <1>2, <1>3, <1>4, HistoryStep

\* What a step does to the direction from e, in the words of FifoChannel.
StreamWrite(e) ==
  /\ ~IsShut(e)
  /\ Len(Written(e)') = Len(Written(e)) + 1
  /\ \A i \in 1..Len(Written(e)) : Written(e)'[i] = Written(e)[i]
  /\ IsShut(e)' = IsShut(e)
  /\ delivered'[Peer(e)] = delivered[Peer(e)]
  /\ eof'[Peer(e)] = eof[Peer(e)]
StreamShut(e) ==
  /\ ~IsShut(e)
  /\ IsShut(e)'
  /\ Written(e)' = Written(e)
  /\ delivered'[Peer(e)] = delivered[Peer(e)]
  /\ eof'[Peer(e)] = eof[Peer(e)]
StreamRead(e) ==
  /\ Len(delivered[Peer(e)]) < Len(Written(e))
  /\ delivered'[Peer(e)] =
       Append(delivered[Peer(e)], Written(e)[Len(delivered[Peer(e)]) + 1])
  /\ Written(e)' = Written(e)
  /\ IsShut(e)' = IsShut(e)
  /\ eof'[Peer(e)] = eof[Peer(e)]
StreamEnd(e) ==
  /\ IsShut(e)
  /\ Len(delivered[Peer(e)]) = Len(Written(e))
  /\ eof'[Peer(e)] = TRUE
  /\ Written(e)' = Written(e)
  /\ IsShut(e)' = IsShut(e)
  /\ delivered'[Peer(e)] = delivered[Peer(e)]
StreamStutters(e) ==
  /\ Written(e)' = Written(e)
  /\ IsShut(e)' = IsShut(e)
  /\ delivered'[Peer(e)] = delivered[Peer(e)]
  /\ eof'[Peer(e)] = eof[Peer(e)]

\* Lemma: a direction whose history stays is not written or shut.
LEMMA StreamStays ==
  ASSUME NEW e \in Peers, sent'[e] = sent[e]
  PROVE  Written(e)' = Written(e) /\ IsShut(e)' = IsShut(e)
BY StreamOf

\* Lemma: numbering a packet (sendData, closeOut) writes to the stream, shuts
\* it, or comes after its end.
LEMMA NumberingIsWrite ==
  ASSUME TypeOK, ShutsOnce, NEW e \in Peers, NEW t \in {"DAT", "RST"},
         sent'[e] = Append(sent[e], t), UNCHANGED <<delivered, eof>>
  PROVE  StreamWrite(e) \/ StreamShut(e) \/ StreamStutters(e)
<1>1. sent[e] \in Histories /\ HasFirst(sent[e])
  BY DEF TypeOK, ShutsOnce, Histories
<1>2. sent'[e] \in Histories /\ HasFirst(sent'[e])
  BY <1>1, HistoryGrows
<1>3. LenIn(sent[e]) \in Nat /\ LenIn(sent'[e]) \in Nat
  <2>1. LenIn(sent[e]) \in 0..Len(sent[e])
        /\ LenIn(sent'[e]) \in 0..Len(sent'[e])
    BY <1>1, <1>2, LenInBounds
  <2> QED BY <2>1
<1>4. UNCHANGED <<delivered[Peer(e)], eof[Peer(e)]>>
  OBVIOUS
<1>5. CASE ShutIn(sent[e])
  <2>1. ShutIn(sent'[e]) /\ LenIn(sent'[e]) = LenIn(sent[e])
    BY <1>1, <1>5, HistoryGrows
  <2>2. IsShut(e) /\ IsShut(e)' /\ IsShut(e)' = IsShut(e)
    BY <1>5, <2>1, StreamOf
  <2> QED BY <1>4, <2>1, <2>2, StreamOf DEF StreamStutters
<1>6. CASE ~ShutIn(sent[e]) /\ t = "DAT"
  <2>1. ~ShutIn(sent'[e]) /\ LenIn(sent'[e]) = LenIn(sent[e]) + 1
    BY <1>1, <1>6, HistoryGrows
  <2>2. ~IsShut(e) /\ IsShut(e)' = IsShut(e)
    BY <1>6, <2>1, StreamOf DEF ShutIn
  <2>3. /\ Len(Written(e)) = LenIn(sent[e])
        /\ Len(Written(e)') = LenIn(sent'[e])
        /\ \A i \in 1..LenIn(sent[e]) : Written(e)[i] = i
        /\ \A i \in 1..LenIn(sent'[e]) : Written(e)'[i] = i
    BY <1>3, StreamOf, FirstOrdinals
  <2>4. \A i \in 1..Len(Written(e)) : Written(e)'[i] = Written(e)[i]
    BY <1>3, <2>1, <2>3
  <2> QED BY <1>4, <2>1, <2>2, <2>3, <2>4 DEF StreamWrite
<1>7. CASE ~ShutIn(sent[e]) /\ t = "RST"
  <2>1. ShutIn(sent'[e]) /\ LenIn(sent'[e]) = LenIn(sent[e])
    BY <1>1, <1>7, HistoryGrows
  <2>2. ~IsShut(e) /\ IsShut(e)'
    BY <1>7, <2>1, StreamOf
  <2>3. Written(e)' = Written(e)
    BY <2>1, StreamOf
  <2> QED BY <1>4, <2>2, <2>3 DEF StreamShut
<1> QED BY <1>5, <1>6, <1>7

\* Lemma: a packet handed to the reader is the next one of the stream.
LEMMA ReceivingIsRead ==
  ASSUME TypeOK, OrderInv, ShutsOnce, NoReuse, NEW e \in Peers,
         Receive(Peer(e))
  PROVE  StreamRead(e)
<1>1. Peer(e) \in Peers /\ Peer(Peer(e)) = e
  BY PeerType
<1>2. PICK p \in rcvdMap[Peer(e)] :
        /\ Available(Peer(e), p)
        /\ delivered' = [delivered EXCEPT ![Peer(e)] = Append(@, p.n)]
  BY DEF Receive
<1>3. /\ p.n = Len(delivered[Peer(e)]) + 1
      /\ p.n \in 1..Len(sent[e])
      /\ sent[e][p.n] = "DAT"
  BY <1>1, <1>2, ReceiveIsNext
<1>4. UNCHANGED <<sent, eof>>
  BY DEF Receive, sendVars
<1>5. sent[e] \in Histories /\ HasFirst(sent[e]) /\ Len(sent[e]) \in Nat
      /\ Len(delivered[Peer(e)]) \in Nat
  BY <1>1 DEF TypeOK, ShutsOnce, Histories
<1>6. \A i \in 1..Len(delivered[Peer(e)]) : sent[e][i] = "DAT"
  BY <1>1 DEF OrderInv, InOrder
<1>7. LenIn(sent[e]) \in Nat /\ p.n <= LenIn(sent[e])
  <2>1. /\ LenIn(sent[e]) \in 0..Len(sent[e])
        /\ ShutIn(sent[e]) => sent[e][LenIn(sent[e]) + 1] = "RST"
    BY <1>5, LenInBounds
  <2>2. CASE ShutIn(sent[e])
    <3>1. LenIn(sent[e]) + 1 # p.n
          /\ LenIn(sent[e]) + 1 \notin 1..Len(delivered[Peer(e)])
      BY <1>3, <1>6, <2>1, <2>2
    <3> QED BY <1>3, <1>5, <2>1, <3>1
  <2>3. CASE ~ShutIn(sent[e])
    BY <1>3, <1>5, <2>3 DEF LenIn
  <2> QED BY <2>2, <2>3
<1>8. Len(Written(e)) = LenIn(sent[e]) /\ Written(e)[p.n] = p.n
  BY <1>3, <1>7, StreamOf, FirstOrdinals
<1>9. Written(e)' = Written(e) /\ IsShut(e)' = IsShut(e)
  BY <1>4, StreamStays
<1>10. delivered'[Peer(e)] = Append(delivered[Peer(e)], p.n)
  BY <1>1, <1>2 DEF TypeOK
<1> QED BY <1>3, <1>4, <1>5, <1>7, <1>8, <1>9, <1>10 DEF StreamRead

\* Lemma: receive() returns null at the end of the stream.
LEMMA NullIsEnd ==
  ASSUME TypeOK, EndInv, ShutsOnce, NoReuse, NEW e \in Peers,
         ReceiveNull(Peer(e)), eof'[Peer(e)], UNCHANGED <<sent, delivered>>
  PROVE  StreamEnd(e)
<1>1. Peer(e) \in Peers /\ Peer(Peer(e)) = e
  BY PeerType
<1>2. PICK k \in Nat : k = Len(delivered[Peer(e)]) + 1
  BY <1>1 DEF TypeOK
<1>3. k <= Len(sent[e]) /\ sent[e][k] = "RST"
  BY <1>1, <1>2, EndIsComplete DEF EndInv
<1>4. \A i \in 1..(k - 1) : sent[e][i] = "DAT"
  BY <1>1, <1>2 DEF EndInv, OrderInv, InOrder, TypeOK
<1>5. sent[e] \in Histories /\ Len(sent[e]) \in Nat
      /\ Len(delivered[Peer(e)]) \in Nat
  BY <1>1 DEF TypeOK, Histories
<1>6. IsFirstRst(sent[e], k)
  BY <1>2, <1>3, <1>4, <1>5 DEF IsFirstRst
<1>7. ShutIn(sent[e]) /\ LenIn(sent[e]) = k - 1
  BY <1>5, <1>6, FirstIsChosen
<1>8. IsShut(e) /\ Len(Written(e)) = Len(delivered[Peer(e)])
  <2>1. LenIn(sent[e]) \in Nat /\ LenIn(sent[e]) = Len(delivered[Peer(e)])
    BY <1>2, <1>5, <1>7
  <2> QED BY <1>7, <2>1, StreamOf, FirstOrdinals
<1>9. Written(e)' = Written(e) /\ IsShut(e)' = IsShut(e)
  BY StreamStays
<1>10. eof'[Peer(e)] = TRUE
  BY <1>1 DEF ReceiveNull, TypeOK
<1> QED BY <1>8, <1>9, <1>10 DEF StreamEnd

\* Lemma: every step of the sockets is a step of the channel from e to its
\* peer, or leaves it as it is.
LEMMA StreamSteps ==
  ASSUME TypeOK, EndInv, ShutsOnce, NoReuse, [Next]_vars, NEW e \in Peers
  PROVE  \/ StreamWrite(e) \/ StreamShut(e) \/ StreamRead(e)
         \/ StreamEnd(e) \/ StreamStutters(e)
<1>1. Peer(e) \in Peers /\ Peer(Peer(e)) = e
  BY PeerType
<1>2. CASE UNCHANGED <<sent, delivered>>
  <2>1. CASE eof'[Peer(e)] = eof[Peer(e)]
    BY <1>2, <2>1, StreamStays DEF StreamStutters
  <2>2. CASE ReceiveNull(Peer(e)) /\ eof'[Peer(e)]
    BY <1>2, <2>2, NullIsEnd
  <2> QED BY <1>1, <2>1, <2>2, EofStep
<1>3. ASSUME NEW f \in Peers, NEW t \in {"DAT", "RST"},
             sent' = [sent EXCEPT ![f] = Append(@, t)],
             UNCHANGED <<delivered, eof>>
      PROVE  StreamWrite(e) \/ StreamShut(e) \/ StreamStutters(e)
  <2>1. CASE f = e
    <3>1. sent'[e] = Append(sent[e], t)
      BY <1>3, <2>1 DEF TypeOK
    <3> QED BY <1>3, <3>1, NumberingIsWrite
  <2>2. CASE f # e
    <3>1. sent'[e] = sent[e]
      BY <1>3, <2>2 DEF TypeOK
    <3> QED BY <1>3, <3>1, StreamStays DEF StreamStutters
  <2> QED BY <2>1, <2>2
<1>4. ASSUME NEW f \in Peers, Receive(f)
      PROVE  StreamRead(e) \/ StreamStutters(e)
  <2>1. CASE f = Peer(e)
    BY <1>4, <2>1, ReceivingIsRead DEF EndInv
  <2>2. CASE f # Peer(e)
    <3>1. UNCHANGED <<sent, eof>> /\ delivered'[Peer(e)] = delivered[Peer(e)]
      BY <1>1, <1>4, <2>2 DEF Receive, sendVars, TypeOK
    <3> QED BY <3>1, StreamStays DEF StreamStutters
  <2> QED BY <2>1, <2>2
<1> QED BY <1>2, <1>3, <1>4, HistoryStep

\* Lemma: a direction begins empty and open.
LEMMA StreamBegins ==
  ASSUME Init, NEW e \in Peers
  PROVE  /\ Written(e) = <<>> /\ IsShut(e) = FALSE
         /\ delivered[Peer(e)] = <<>> /\ eof[Peer(e)] = FALSE
<1>1. sent[e] = <<>> /\ delivered[Peer(e)] = <<>> /\ eof[Peer(e)] = FALSE
  BY PeerType DEF Init
<1>2. IsShut(e) = FALSE
  BY <1>1 DEF IsShut
<1>3. WrittenLen(e) = 0
  BY <1>1, <1>2 DEF WrittenLen
<1> QED BY <1>1, <1>2, <1>3 DEF Written

\* Theorem: on such a connection each direction implements the reliable
\* channel: every reader reads a prefix of what was written before the first
\* closeOut(), and learns of the end only after all of it.
THEOREM StreamsImplementFifo == NoReuse => (Spec => StreamsAreFifo)
<1> SUFFICES ASSUME NoReuse
             PROVE  Spec => StreamsAreFifo
  OBVIOUS
<1>1. Init => EndInv
  BY InitOrder DEF Init, EndInv, ResetGenuine, Connected, EofIsComplete, Peers
<1>2. Init => ShutsOnce
  BY DEF Init, ShutsOnce, HasFirst, ShutIn
<1>3. TypeOK /\ EndInv /\ [Next]_vars => EndInv'
  BY StepKinds, MovesKeepOrder, NumbersKeepOrder, ReceiveKeepsOrder, ResetKept,
     ConnectedKept, EofKept DEF EndInv
<1>4. TypeOK /\ ShutsOnce /\ [Next]_vars => ShutsOnce'
  BY ShutsOnceKept
<1>5. "client" \in Peers /\ "server" \in Peers
      /\ Peer("client") = "server" /\ Peer("server") = "client"
  BY DEF Peers, Peer
<1>6. Init => ToServer!Init
  BY <1>5, StreamBegins DEF ToServer!Init
<1>7. Init => ToClient!Init
  BY <1>5, StreamBegins DEF ToClient!Init
<1>8. TypeOK /\ EndInv /\ ShutsOnce /\ [Next]_vars
        => [ToServer!Next]_(ToServer!fifoVars)
  <2> SUFFICES ASSUME TypeOK, EndInv, ShutsOnce, [Next]_vars
               PROVE  [ToServer!Next]_(ToServer!fifoVars)
    OBVIOUS
  <2>1. \/ StreamWrite("client") \/ StreamShut("client")
        \/ StreamRead("client") \/ StreamEnd("client")
        \/ StreamStutters("client")
    BY <1>5, StreamSteps
  <2> QED BY <1>5, <2>1 DEF StreamWrite, StreamShut, StreamRead, StreamEnd,
       StreamStutters, ToServer!Next, ToServer!Write, ToServer!Shut,
       ToServer!Read, ToServer!End, ToServer!fifoVars
<1>9. TypeOK /\ EndInv /\ ShutsOnce /\ [Next]_vars
        => [ToClient!Next]_(ToClient!fifoVars)
  <2> SUFFICES ASSUME TypeOK, EndInv, ShutsOnce, [Next]_vars
               PROVE  [ToClient!Next]_(ToClient!fifoVars)
    OBVIOUS
  <2>1. \/ StreamWrite("server") \/ StreamShut("server")
        \/ StreamRead("server") \/ StreamEnd("server")
        \/ StreamStutters("server")
    BY <1>5, StreamSteps
  <2> QED BY <1>5, <2>1 DEF StreamWrite, StreamShut, StreamRead, StreamEnd,
       StreamStutters, ToClient!Next, ToClient!Write, ToClient!Shut,
       ToClient!Read, ToClient!End, ToClient!fifoVars
<1> QED
  BY <1>1, <1>2, <1>3, <1>4, <1>6, <1>7, <1>8, <1>9, TypeCorrect, PTL
  DEF Spec, StreamsAreFifo, ToServer!Spec, ToClient!Spec
=============================================================================
