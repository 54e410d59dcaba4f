------------------------------- MODULE RTPFec -------------------------------
(***************************************************************************)
(* Parity protection of an RTP flow between two routers: target_t sends    *)
(* every packet of a source and, after k of them, a packet with the parity *)
(* of the group (RTPFecSender_t); the other router keeps what arrives and  *)
(* rebuilds a packet when it is the only one of a group that is missing    *)
(* (RTPFecReceiver_t).  The path loses packets and may let one overtake    *)
(* others.                                                                 *)
(*                                                                         *)
(* The source numbers its packets in a row; some may be lost before they   *)
(* reach the sending router.  What a packet carries is not modelled byte   *)
(* by byte: a field is a set of terms, the exclusive or of which is its    *)
(* value, and the field of the n-th packet of the source is {n}.  parity   *)
(* stands for body and length, flags for what lies in the first 16 bits of *)
(* the protection block: padding, extension, CSRC count and marker.        *)
(***************************************************************************)
EXTENDS Integers, Sequences, FiniteSets

CONSTANTS SeqMod,     \* RTP_MAX_SEQ_NUM
          MaxDiff,    \* RTP_MAX_SEQ_DIFF
          MaxBuff,    \* MAX_BUFF, and the width of the mask
          FirstSeq,   \* the number of the source's packet 0
          GroupSizes, \* the values of k the program sets
          Steps,      \* how far the source may be on at the next packet
          MaxOrdinal, \* bound: the last packet of the source
          MaxChanges, \* bound: changes of k
          MaxFlight,  \* bound: the source waits when so many are in flight
          NULL        \* an empty slot of the buffer

ASSUME FecAssumption ==
  /\ SeqMod \in Nat \ {0}
  /\ MaxBuff \in Nat \ {0}
  /\ MaxDiff \in Nat /\ MaxBuff <= MaxDiff /\ 2 * MaxDiff < SeqMod
  /\ FirstSeq \in 0..(SeqMod - 1)
  /\ GroupSizes \subseteq 0..MaxBuff
  /\ Steps \subseteq Nat \ {0}
  /\ MaxOrdinal \in Nat /\ MaxChanges \in Nat /\ MaxFlight \in Nat

Ordinals == 0..MaxOrdinal
Slots == 0..(MaxBuff - 1)
SeqOf(n) == (FirstSeq + n) % SeqMod

VARIABLES
  k,         \* RTPFecHolder_t.k of the sending router, 0: no protection
  sender,    \* its RTPFecSender_t for the source
  next,      \* the source's next packet has at least this ordinal
  changes,   \* how often k has changed
  path,      \* "ordered", or "reordering" when packets overtake
  net,       \* packets in flight
  channel,   \* has the receiving router a RTPFecReceiver_t for the source?
  active,    \* RTPFecReceiver_t.active
  frame,     \* RTPContainer_t.frame
  nData,     \* RTPContainer_t.nData: where getData goes on
  overrun,   \* a search goes on with what it read past the buffer's end:
             \* what follows is undefined
  sent,      \* history: ordinals sent
  protected, \* history: parity packets sent
  received,  \* history: ordinals that arrived
  recovered, \* history: packets rebuilt
  used       \* history: parity packets processed by an active receiver

senderVars == <<k, sender, next, changes, sent, protected>>
receiverVars == <<channel, active, frame, nData, overrun, received,
                  recovered, used>>
vars == <<senderVars, path, net, receiverVars>>

----------------------------------------------------------------------------
(* Packets *)

Xor(S, T) == (S \ T) \cup (T \ S)

\* The exclusive or of a field of the packets in P.
XorField(P, field) ==
  {t \in UNION {p[field] : p \in P} :
     Cardinality({p \in P : t \in p[field]}) % 2 = 1}

Original(n) == [seq |-> SeqOf(n), parity |-> {n}, flags |-> {n},
                type |-> {n}, time |-> {n}]

\* Words of the header of a parity packet, no ordinals: secondWord (payload
\* type and mask) and SNBase.
SecondWord == -1
SNBase == -2

ASSUME NullAssumption == \A n \in Ordinals : NULL # Original(n)

IsFec(p) == "mask" \in DOMAIN p

----------------------------------------------------------------------------
(* The sender.  Beside a definition stand faulty variants of it. *)

resetTX(size) == [k |-> size, SQArray |-> <<>>, mask |-> {}, parity |-> {},
                  flags |-> {}]

setK(s, size) == IF size < s.k THEN resetTX(size) ELSE [s EXCEPT !.k = size]

\* A group that is full has been sent: the next packet starts a new one.
StartedKeepingParity(s) ==
  IF Len(s.SQArray) >= s.k
  THEN [resetTX(s.k) EXCEPT !.parity = s.parity, !.flags = s.flags] ELSE s
Started(s) == IF Len(s.SQArray) >= s.k THEN resetTX(s.k) ELSE s

\* How far packet n is from the first of its group (no care for the wrap).
diffSQWrapped(s, n) ==
  IF s.SQArray = <<>> THEN 0 ELSE (SeqOf(n) - Head(s.SQArray)) % SeqMod
diffSQ(s, n) == IF s.SQArray = <<>> THEN 0 ELSE SeqOf(n) - Head(s.SQArray)

InReachTooFar(s, n) == diffSQ(s, n) \in 0..MaxBuff
InReach(s, n) == diffSQ(s, n) \in Slots

\* s takes n into its group, unless n is out of the reach of the mask.
Protect(s, n) ==
  IF InReach(s, n)
  THEN [s EXCEPT !.SQArray = Append(@, SeqOf(n)),
                 !.mask    = @ \cup {diffSQ(s, n)},
                 !.parity  = Xor(@, {n}),
                 !.flags   = Xor(@, {n})]
  ELSE s

\* The parity packet that s sends after packet n.  protectionBlock and
\* rtpFecHeader are one place in memory: secondWord is written over the
\* parity of the timestamps before TSRecovery takes it, and the payload
\* type in it is that of the last packet.
FecPacket(s, n) == [base |-> Head(s.SQArray), mask |-> s.mask,
                    parity |-> s.parity, flags |-> s.flags,
                    type |-> {n}, time |-> {SecondWord}]

\* The sender after that: SNBase has been written over the flags, which stay
\* so when the group is opened again.
AfterFec(s) == [s EXCEPT !.flags = {SNBase}]

----------------------------------------------------------------------------
(* The receiver *)

Held == {frame[i] : i \in Slots} \ {NULL}
FreeSeqs(fr, S) ==
  [i \in Slots |-> IF fr[i] # NULL /\ fr[i].seq \in S THEN NULL ELSE fr[i]]
EmptyFrame == [i \in Slots |-> NULL]

\* How far p is from the first slot.
Distance(p) ==
  LET d == IF frame[0] = NULL THEN 0 ELSE p.seq - frame[0].seq
  IN  CASE d > MaxDiff  -> d - SeqMod
        [] d < -MaxDiff -> d + SeqMod
        [] OTHER        -> d

\* The buffer when p comes from before the first slot.
Shifted(p, d) ==
  [i \in Slots |-> IF i = 0 THEN p
                   ELSE IF i + d >= 0 THEN frame[i + d]
                   ELSE IF i < MaxBuff + d THEN NULL ELSE frame[i]]

\* RTPContainer_t::insert, of a receiver that is active: a packet too far
\* ahead empties the buffer and is not kept.
InsertForAll(p) ==
  LET d == Distance(p)
  IN  IF \E q \in Held : q.seq = p.seq THEN UNCHANGED <<frame, active, nData>>
      ELSE IF d < 0 THEN frame' = Shifted(p, d) /\ UNCHANGED <<active, nData>>
      ELSE IF d >= MaxBuff
      THEN frame' = EmptyFrame /\ nData' = 0 /\ UNCHANGED active
      ELSE frame' = [frame EXCEPT ![d] = p] /\ UNCHANGED <<active, nData>>
Insert(p) ==
  LET d == Distance(p)
  IN  IF \E q \in Held : q.seq = p.seq THEN UNCHANGED <<frame, active, nData>>
      ELSE IF d < 0 THEN frame' = Shifted(p, d) /\ UNCHANGED <<active, nData>>
      ELSE IF d >= MaxBuff
      THEN frame' = EmptyFrame /\ nData' = 0 /\ active' = FALSE
      ELSE frame' = [frame EXCEPT ![d] = p] /\ UNCHANGED <<active, nData>>

Group(f) == {f.base + i : i \in f.mask}
Missing(f) == Group(f) \ {p.seq : p \in Held}
Others(f) == {p \in Held : p.seq \in Group(f)}

\* The packet rebuilt from f and what is held of its group.  (The code's
\* fallback for a timestamp of 0 cannot apply: SecondWord is in every one.)
Rebuilt(f, lost) ==
  LET known == Others(f) \cup {f}
  IN  [seq |-> lost % SeqMod, parity |-> XorField(known, "parity"),
       flags |-> XorField(known, "flags"),
       type |-> XorField(known, "type"), time |-> XorField(known, "time")]

\* The search goes from slot nData until it has met every other packet of
\* the group.  When one of them is before nData it does not meet it, reads
\* past the last slot and goes on with what it finds there.
RunsOut(f) == \E i \in Slots : i < nData /\ frame[i] \in Others(f)

\* getData is called once more than the search needs: it also reads past the
\* last slot, but for nothing, when the last packet it meets is in that slot.
\* Reading there empties the buffer.
ReadsPast(f) == IF Others(f) = {} THEN nData = MaxBuff
                ELSE frame[MaxBuff - 1] \in Others(f)

\* free(SQ) sets nData back, for every other number of the group.  Without
\* one the search has moved on by one.
AfterSearchOn(f) == nData + 1
AfterSearch(f) == IF Others(f) # {} \/ ReadsPast(f) THEN 0 ELSE nData + 1

\* fecPktToRecv of an active receiver.
GiveUp(f) ==
  /\ Cardinality(Missing(f)) # 1
  /\ frame' = FreeSeqs(frame, Group(f))
  /\ nData' = 0
  /\ UNCHANGED <<overrun, recovered>>

Search(f) ==
  \E lost \in Missing(f) :
    /\ Missing(f) = {lost}
    /\ IF RunsOut(f)
       THEN overrun' = TRUE /\ UNCHANGED <<frame, nData, recovered>>
       ELSE /\ recovered' = recovered \cup {Rebuilt(f, lost)}
            /\ frame' = IF ReadsPast(f) THEN EmptyFrame
                        ELSE FreeSeqs(frame, Group(f))
            /\ nData' = AfterSearch(f)
            /\ UNCHANGED overrun

----------------------------------------------------------------------------
(* The actions *)

Init ==
  /\ k \in GroupSizes /\ sender = resetTX(k) /\ next = 0 /\ changes = 0
  /\ path \in {"ordered", "reordering"}
  /\ net = <<>>
  /\ channel = FALSE /\ active = FALSE
  /\ frame = EmptyFrame /\ nData = 0 /\ overrun = FALSE
  /\ sent = {} /\ protected = {} /\ received = {} /\ recovered = {} /\ used = {}

\* RTPFecHolder_t::setFecParams; type None stops the protection and leaves
\* the sender as it is.  A sender that does not exist yet is as good as a
\* new one, since it is made with the k of the holder.
SetFecParams(size) ==
  /\ changes < MaxChanges
  /\ changes' = changes + 1
  /\ k' = size
  /\ \/ size = 0 /\ UNCHANGED sender
     \/ sender' = setK(sender, size)
  /\ UNCHANGED <<next, sent, protected, path, net, receiverVars>>

\* RTPFecHolder_t::delRTPFec, when the source is taken for gone.
DelRTPFec ==
  /\ changes < MaxChanges
  /\ changes' = changes + 1
  /\ sender' = resetTX(k)
  /\ UNCHANGED <<k, next, sent, protected, path, net, receiverVars>>

\* target_t::deliver: the packet, then its parity packet if one is due.
Deliver(n) ==
  LET s == Protect(Started(sender), n)
      due == IF Len(s.SQArray) < s.k THEN <<>> ELSE <<FecPacket(s, n)>>
  IN  /\ Len(net) < MaxFlight
      /\ next' = n + 1
      /\ sent' = sent \cup {n}
      /\ IF k = 0
         THEN net' = Append(net, Original(n)) /\ UNCHANGED <<sender, protected>>
         ELSE /\ sender' = IF due = <<>> THEN s ELSE AfterFec(s)
              /\ net' = Append(net, Original(n)) \o due
              /\ protected' = protected \cup {due[i] : i \in DOMAIN due}
      /\ UNCHANGED <<k, changes, path, receiverVars>>

\* The i-th packet in flight, when it may be the next to arrive.
Arrives(i) ==
  /\ i \in DOMAIN net
  /\ path = "ordered" => i = 1
  /\ net' = [j \in 1..(Len(net) - 1) |-> IF j < i THEN net[j] ELSE net[j + 1]]

Lose(i) == Arrives(i) /\ UNCHANGED <<senderVars, path, receiverVars>>

\* targetMgr_t::IOReady with a packet of the source: it is delivered, and
\* kept if the receiver is active.
ArriveData(i) ==
  /\ ~IsFec(net[i])
  /\ Arrives(i)
  /\ received' = received \cup net[i].parity
  /\ IF active THEN Insert(net[i]) ELSE UNCHANGED <<frame, active, nData>>
  /\ UNCHANGED <<senderVars, path, channel, overrun, recovered, used>>

\* The first parity packet only makes the receiver, as RTPFecHolder_t looks
\* the new one up too late; the next one only sets it active, as does the
\* first after the buffer was emptied.
ArriveFirst(i) ==
  /\ IsFec(net[i])
  /\ ~active
  /\ Arrives(i)
  /\ channel' = TRUE
  /\ active' = channel
  /\ UNCHANGED <<senderVars, path, frame, nData, overrun, received, recovered,
                 used>>

\* What is rebuilt is delivered; the parity packet itself is not.
ArriveFec(i) ==
  /\ IsFec(net[i])
  /\ active
  /\ Arrives(i)
  /\ used' = used \cup {net[i]}
  /\ GiveUp(net[i]) \/ Search(net[i])
  /\ UNCHANGED <<senderVars, path, channel, active, received>>

Source == \E step \in Steps :
            next + step - 1 <= MaxOrdinal /\ Deliver(next + step - 1)
Network == \E i \in DOMAIN net : Lose(i)
Receiver ==
  \E i \in DOMAIN net : ArriveData(i) \/ ArriveFirst(i) \/ ArriveFec(i)

Next ==
  /\ ~overrun
  /\ \/ \E size \in GroupSizes : SetFecParams(size)
     \/ DelRTPFec
     \/ Source
     \/ Network
     \/ Receiver

Spec == Init /\ [][Next]_vars

----------------------------------------------------------------------------
(* Properties *)

NoReuse == MaxOrdinal < SeqMod - MaxBuff

\* Groups of one packet, which k = 1 makes, break two of the properties.
NoSingles == 1 \notin GroupSizes

\* The state has its type: a buffer of MaxBuff slots, a group that is not
\* larger than the mask, parity packets with a base and a mask.
TypeOK ==
  /\ k \in GroupSizes
  /\ sender.k \in GroupSizes
  /\ sender.SQArray \in Seq(0..(SeqMod - 1))
  /\ sender.mask \subseteq Slots
  /\ sender.parity \subseteq Ordinals
  /\ sender.flags \subseteq Ordinals \cup {SNBase}
  /\ next \in 0..(MaxOrdinal + 1)
  /\ nData \in 0..MaxBuff
  /\ active => channel

\* A group that k, raised after it was sent, has opened again: a part of it
\* was sent before.
SentBefore(f) == \E g \in protected \ {f} : g.parity \subseteq f.parity

\* Every parity packet is the parity of exactly the packets its base and mask
\* name, and all of them were sent: mask, parity and list of numbers of the
\* sender never part, also when k changes or the numbers wrap in a group.
\* The flags are theirs too, but for a group that was opened again: SNBase of
\* the first parity packet is left in them.
ParityCoversGroup ==
  \A f \in protected :
    /\ f.parity \subseteq sent
    /\ Group(f) = {SeqOf(n) : n \in f.parity}
    /\ f.flags = f.parity \/ SentBefore(f)

ProtectedOnce(f) == \A g \in protected \ {f} : Group(g) \cap Group(f) = {}
Carries(p, n) == p.seq = SeqOf(n) /\ p.parity = {n}
AsSent(p) ==
  \E n \in sent :
    /\ Carries(p, n)
    /\ \/ p.flags = {n}
       \/ \E f \in protected : p.seq \in Group(f) /\ SentBefore(f)

\* What a router rebuilds is a packet that was sent, with the body and length
\* it was sent with, and with its flags (padding, extension, CSRC count and
\* marker) unless it is of a group that was opened again: the groups of the
\* sender and the buffer of the receiver never mix packets, whatever is lost
\* or overtaken, also when k changes or the numbers wrap in a group.
RecoveredIsWhole == NoReuse => \A p \in recovered : AsSent(p)

\* On a path that keeps the order no packet is delivered and rebuilt: a
\* receiver never takes a packet for lost because it has dropped it.  (A
\* group of one that is opened again when k is raised makes it do so.)
NothingTwice ==
  NoReuse /\ NoSingles /\ path = "ordered" =>
    \A p \in recovered, n \in received : p.seq # SeqOf(n)

\* On a path that keeps the order, an active receiver that gets the parity of
\* a group of which one packet has not arrived delivers that packet - unless
\* k was raised after the group was complete, which opens the group again, or
\* a group of one has moved the start of the search past its packets.
SingleLossIsRecovered ==
  NoReuse /\ NoSingles /\ path = "ordered" =>
    \A f \in {g \in used : ProtectedOnce(g)} :
      LET members == {n \in sent : \E i \in f.mask : SeqOf(n) = f.base + i}
          lost == members \ received
      IN  Cardinality(lost) = 1 =>
            \A n \in lost : \E p \in recovered : Carries(p, n)

\* The search for the packets of a group meets all of them before the buffer
\* ends, whatever parity packets moved its start before, if groups have two
\* packets or more: it never uses what it reads past the last slot.
\* (A group that is open when the numbers wrap stays open for a turn: it may
\* then hold the same number twice, which is a group of one to the receiver.)
SearchMeetsGroup == NoReuse /\ NoSingles => ~overrun

\* "if k packets were processed, a FEC pkt was sent, so I need to be reseted"
\* (RTPFec.cc:512): a group that was sent is over.  Not when k is raised before
\* the next packet: the full group is taken for one that is still to be filled,
\* and sent a second time.
GroupsAreClosed == NoReuse => \A f \in protected : ProtectedOnce(f)
=============================================================================
