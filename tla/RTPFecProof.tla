---------------------------- MODULE RTPFecProof -----------------------------
(***************************************************************************)
(* Proofs about RTPFec, for every size of the numbers, every group size    *)
(* and every pattern of losses: the types, that a parity packet is the     *)
(* parity of exactly the packets its header names, and, as long as no      *)
(* number is used for two packets, what the receiver rebuilds.             *)
(***************************************************************************)
EXTENDS RTPFec, SequenceTheorems, FiniteSetTheorems, TLAPS

Senders == [k : GroupSizes, SQArray : Seq(0..(SeqMod - 1)),
            mask : SUBSET Slots, parity : SUBSET Ordinals,
            flags : SUBSET (Ordinals \cup {SNBase})]

\* The open group of s: its base and mask name the packets in its parity.
Covers(s) ==
  IF s.SQArray = <<>> THEN s.mask = {} /\ s.parity = {}
  ELSE {Head(s.SQArray) + i : i \in s.mask} = {SeqOf(n) : n \in s.parity}

\* The flags of s are those of its group, or what was sent of it, one of the
\* parity packets in P, has left its SNBase in them.
FlagsOf(s, P) ==
  \/ s.flags = s.parity
  \/ SNBase \in s.flags /\ \E g \in P : g.parity \subseteq s.parity

TypeInv ==
  /\ k \in GroupSizes
  /\ sender \in Senders
  /\ next \in 0..(MaxOrdinal + 1)
  /\ nData \in 0..MaxBuff
  /\ active \in BOOLEAN /\ channel \in BOOLEAN
  /\ active => channel

SenderInv ==
  /\ TypeInv
  /\ Covers(sender)
  /\ FlagsOf(sender, protected)
  /\ sender.parity \subseteq sent
  /\ \A n \in sent : n < next
  /\ sent \subseteq Ordinals
  /\ ParityCoversGroup

\* The number of a packet is a number.
LEMMA SeqOfInRange ==
  ASSUME NEW n \in Ordinals PROVE SeqOf(n) \in 0..(SeqMod - 1)
BY FecAssumption DEF SeqOf, Ordinals

\* What is appended to a sequence does not change its first element.
LEMMA HeadOfAppend ==
  ASSUME NEW S, NEW q \in Seq(S), q # <<>>, NEW x \in S
  PROVE  Head(Append(q, x)) = Head(q) /\ Head(q) \in S
<1>1. Len(q) \in Nat /\ Len(q) # 0
  BY EmptySeq
<1>2. Append(q, x)[1] = q[1] /\ Append(q, x) \in Seq(S) /\ Append(q, x) # <<>>
  BY <1>1, AppendProperties
<1>3. Head(q) = q[1] /\ Head(Append(q, x)) = Append(q, x)[1]
  BY <1>2, HeadTailProperties
<1>4. q[1] \in S
  BY <1>1, ElementOfSeq
<1> QED
  BY <1>2, <1>3, <1>4

\* A sender that is reset has an empty group.
LEMMA ResetCovers ==
  ASSUME NEW size \in GroupSizes
  PROVE  resetTX(size) \in Senders /\ Covers(resetTX(size))
BY DEF resetTX, Senders, Covers

\* Starting a new group, or going on with the old one, keeps Covers.
LEMMA StartedCovers ==
  ASSUME NEW s \in Senders, Covers(s)
  PROVE  /\ Started(s) \in Senders /\ Covers(Started(s))
         /\ Started(s).parity \subseteq s.parity
<1>1. CASE Len(s.SQArray) >= s.k
  <2>1. Started(s) = resetTX(s.k) /\ s.k \in GroupSizes
    BY <1>1 DEF Started, Senders
  <2>2. resetTX(s.k).parity = {}
    BY DEF resetTX
  <2> QED
    BY <2>1, <2>2, ResetCovers
<1>2. CASE ~(Len(s.SQArray) >= s.k)
  BY <1>2 DEF Started
<1> QED
  BY <1>1, <1>2

\* A packet that is new to the group is added to the list of numbers, the
\* mask and the parity together, or to none of them.
LEMMA ProtectCovers ==
  ASSUME NEW s \in Senders, Covers(s), NEW n \in Ordinals, n \notin s.parity
  PROVE  LET t == Protect(s, n)
         IN  /\ t \in Senders /\ Covers(t) /\ t.SQArray # <<>>
             /\ t.parity \subseteq s.parity \cup {n}
<1> DEFINE d == diffSQ(s, n)
           t == Protect(s, n)
<1>0. SeqOf(n) \in 0..(SeqMod - 1) /\ s.SQArray \in Seq(0..(SeqMod - 1))
  BY SeqOfInRange DEF Senders
<1>1. CASE ~InReach(s, n)
  <2>1. s.SQArray # <<>>
    BY <1>1, FecAssumption DEF InReach, diffSQ, Slots
  <2> QED
    BY <1>1, <2>1 DEF Protect
<1>2. CASE InReach(s, n)
  <2>1. t = [s EXCEPT !.SQArray = Append(@, SeqOf(n)), !.mask = @ \cup {d},
                      !.parity = Xor(@, {n}), !.flags = Xor(@, {n})]
    BY <1>2 DEF Protect
  <2>2. /\ Xor(s.parity, {n}) = s.parity \cup {n}
        /\ Xor(s.flags, {n}) \in SUBSET (Ordinals \cup {SNBase})
    BY DEF Xor, Senders
  <2>3. /\ t.SQArray = Append(s.SQArray, SeqOf(n))
        /\ t.mask = s.mask \cup {d}
        /\ t.parity = s.parity \cup {n}
        /\ t.k = s.k
    BY <2>1, <2>2 DEF Senders
  <2>4. d \in Slots
    BY <1>2 DEF InReach
  <2>5. Append(s.SQArray, SeqOf(n)) \in Seq(0..(SeqMod - 1))
    BY <1>0
  <2>6. t \in Senders
    <3>1. s.mask \cup {d} \in SUBSET Slots /\ s.parity \cup {n} \in SUBSET Ordinals
      BY <2>4 DEF Senders
    <3> QED
      BY <2>1, <2>2, <2>5, <3>1 DEF Senders
  <2>7. t.SQArray # <<>>
    BY <1>0, <2>3
  <2>8. Covers(t)
    <3>1. CASE s.SQArray = <<>>
      <4>1. s.mask = {} /\ s.parity = {} /\ d = 0
        BY <3>1 DEF Covers, diffSQ
      <4>2. Head(t.SQArray) = SeqOf(n)
        BY <1>0, <2>3, <3>1
      <4> HIDE DEF d, t
      <4>3. {Head(t.SQArray) + i : i \in t.mask} = {SeqOf(n)}
        BY <1>0, <2>3, <4>1, <4>2
      <4>4. {SeqOf(m) : m \in t.parity} = {SeqOf(n)}
        BY <2>3, <4>1
      <4> QED
        BY <2>7, <4>3, <4>4 DEF Covers
    <3>2. CASE s.SQArray # <<>>
      <4>0. /\ Head(Append(s.SQArray, SeqOf(n))) = Head(s.SQArray)
            /\ Head(s.SQArray) \in 0..(SeqMod - 1)
        <5> DEFINE S == 0..(SeqMod - 1)
        <5>1. s.SQArray \in Seq(S) /\ SeqOf(n) \in S
          BY <1>0
        <5> HIDE DEF S
        <5>2. /\ Head(Append(s.SQArray, SeqOf(n))) = Head(s.SQArray)
              /\ Head(s.SQArray) \in S
          BY <3>2, <5>1, HeadOfAppend
        <5> QED
          BY <5>2 DEF S
      <4>1. Head(t.SQArray) = Head(s.SQArray) /\ Head(s.SQArray) \in Int
        BY <2>3, <4>0, FecAssumption
      <4>2. Head(s.SQArray) + d = SeqOf(n)
        BY <1>0, <3>2, <4>1 DEF diffSQ
      <4>3. {Head(s.SQArray) + i : i \in s.mask} = {SeqOf(m) : m \in s.parity}
        BY <3>2 DEF Covers
      <4> HIDE DEF d, t
      <4>4. {Head(t.SQArray) + i : i \in t.mask}
              = {Head(s.SQArray) + i : i \in s.mask} \cup {Head(s.SQArray) + d}
        BY <2>3, <4>1
      <4>5. {SeqOf(m) : m \in t.parity}
              = {SeqOf(m) : m \in s.parity} \cup {SeqOf(n)}
        BY <2>3
      <4> QED
        BY <2>7, <4>2, <4>3, <4>4, <4>5 DEF Covers
    <3> QED
      BY <3>1, <3>2
  <2> QED
    BY <2>3, <2>6, <2>7, <2>8
<1> QED
  BY <1>1, <1>2

\* Lemma: the flags follow, and a packet that completes the group is in it.
LEMMA ProtectFlags ==
  ASSUME NEW s \in Senders, NEW P, FlagsOf(s, P), NEW n \in Ordinals,
         n \notin s.parity, s.SQArray = <<>> \/ Len(s.SQArray) < s.k
  PROVE  LET t == Protect(s, n)
         IN  /\ FlagsOf(t, P)
             /\ ~(Len(t.SQArray) < t.k) => n \in t.parity
<1> DEFINE t == Protect(s, n)
<1>1. CASE ~InReach(s, n)
  <2>1. s.SQArray # <<>>
    BY <1>1, FecAssumption DEF InReach, diffSQ, Slots
  <2> QED
    BY <1>1, <2>1 DEF Protect
<1>2. CASE InReach(s, n)
  <2>1. /\ t.parity = Xor(s.parity, {n})
        /\ t.flags = Xor(s.flags, {n})
    BY <1>2 DEF Protect, Senders
  <2>2. t.parity = s.parity \cup {n}
    BY <2>1 DEF Xor
  <2>3. n # SNBase
    BY FecAssumption DEF Ordinals, SNBase
  <2>4. CASE s.flags = s.parity
    BY <2>1, <2>2, <2>4 DEF FlagsOf
  <2>5. CASE SNBase \in s.flags /\ \E g \in P : g.parity \subseteq s.parity
    <3>1. SNBase \in t.flags
      BY <2>1, <2>3, <2>5 DEF Xor
    <3> QED
      BY <2>2, <2>5, <3>1 DEF FlagsOf
  <2> QED
    BY <2>2, <2>4, <2>5 DEF FlagsOf
<1> QED
  BY <1>1, <1>2

\* Lemma: so they do when a new group is started.
LEMMA StartedFlags ==
  ASSUME NEW s \in Senders, NEW P, FlagsOf(s, P)
  PROVE  /\ FlagsOf(Started(s), P)
         /\ Started(s).SQArray = <<>> \/ Len(Started(s).SQArray) < Started(s).k
<1>1. s.k \in Int
  <2>1. s.k \in 0..MaxBuff
    BY FecAssumption DEF Senders
  <2> QED
    BY <2>1
<1>2. Len(s.SQArray) \in Nat
  <2>1. s.SQArray \in Seq(0..(SeqMod - 1))
    BY DEF Senders
  <2> QED
    BY <2>1, LenProperties
<1> QED
  BY <1>1, <1>2 DEF Started, FlagsOf, resetTX

\* Lemma: what the sender keeps of a group it has sent.
LEMMA AfterFecKeeps ==
  ASSUME NEW s \in Senders
  PROVE  LET t == AfterFec(s)
         IN  /\ t \in Senders
             /\ t.k = s.k /\ t.SQArray = s.SQArray /\ t.mask = s.mask
             /\ t.parity = s.parity /\ t.flags = {SNBase}
             /\ Covers(s) => Covers(t)
<1> DEFINE t == AfterFec(s)
<1>1. t \in Senders
  BY DEF AfterFec, Senders
<1>2. /\ t.k = s.k /\ t.SQArray = s.SQArray /\ t.mask = s.mask
      /\ t.parity = s.parity /\ t.flags = {SNBase}
  BY DEF AfterFec, Senders
<1> QED
  BY <1>1, <1>2 DEF Covers

\* The parity packet of a group that covers its packets names them.
LEMMA FecPacketCovers ==
  ASSUME NEW s \in Senders, Covers(s), s.SQArray # <<>>, NEW n
  PROVE  /\ FecPacket(s, n).parity = s.parity
         /\ FecPacket(s, n).flags = s.flags
         /\ Group(FecPacket(s, n)) = {SeqOf(m) : m \in s.parity}
BY DEF FecPacket, Group, Covers

\* So does a change of k, which may drop the group but adds nothing to it.
LEMMA SetKCovers ==
  ASSUME NEW s \in Senders, Covers(s), NEW size \in GroupSizes
  PROVE  /\ setK(s, size) \in Senders /\ Covers(setK(s, size))
         /\ setK(s, size).parity \subseteq s.parity
         /\ \A P : FlagsOf(s, P) => FlagsOf(setK(s, size), P)
<1>1. CASE size < s.k
  <2>1. resetTX(size).parity = {} /\ resetTX(size).flags = {}
    BY DEF resetTX
  <2> QED
    BY <1>1, <2>1, ResetCovers DEF setK, FlagsOf
<1>2. CASE ~(size < s.k)
  BY <1>2 DEF setK, Senders, Covers, FlagsOf
<1> QED
  BY <1>1, <1>2

\* The step of the induction, by action.
LEMMA NextSender == ASSUME SenderInv, [Next]_vars PROVE SenderInv'
<1> USE DEF SenderInv
<1>1. ASSUME NEW size \in GroupSizes, SetFecParams(size) PROVE SenderInv'
  <2>1. sender' = sender \/ sender' = setK(sender, size)
    BY <1>1 DEF SetFecParams
  <2>2. /\ sender' \in Senders /\ Covers(sender')
        /\ sender'.parity \subseteq sender.parity
        /\ FlagsOf(sender', protected)
    BY <2>1, SetKCovers DEF TypeInv
  <2>3. /\ k' \in GroupSizes
        /\ UNCHANGED <<next, sent, protected, nData, active, channel>>
    BY <1>1 DEF SetFecParams, receiverVars
  <2>4. TypeInv'
    BY <2>2, <2>3 DEF TypeInv
  <2>5. Covers(sender)'
    BY <2>2 DEF Covers, SeqOf
  <2> QED
    BY <2>2, <2>3, <2>4, <2>5 DEF ParityCoversGroup, SentBefore
<1>2. CASE DelRTPFec
  <2>1. sender' = resetTX(k) /\ k \in GroupSizes
    BY <1>2 DEF DelRTPFec, TypeInv
  <2>2. /\ sender' \in Senders /\ Covers(sender') /\ sender'.parity = {}
        /\ FlagsOf(sender', protected)
    BY <2>1, ResetCovers DEF resetTX, FlagsOf
  <2>3. UNCHANGED <<k, next, sent, protected, nData, active, channel>>
    BY <1>2 DEF DelRTPFec, receiverVars
  <2>4. TypeInv'
    BY <2>2, <2>3 DEF TypeInv
  <2>5. Covers(sender)'
    BY <2>2 DEF Covers, SeqOf
  <2> QED
    BY <2>2, <2>3, <2>4, <2>5 DEF ParityCoversGroup, SentBefore
<1>3. ASSUME NEW step \in Steps, next + step - 1 <= MaxOrdinal,
             Deliver(next + step - 1)
      PROVE  SenderInv'
  <2> DEFINE n == next + step - 1
             s == Protect(Started(sender), n)
             due == IF Len(s.SQArray) < s.k THEN <<>> ELSE <<FecPacket(s, n)>>
  <2>1. step \in Nat \ {0} /\ next \in Nat /\ MaxOrdinal \in Nat
    BY FecAssumption DEF TypeInv
  <2>2. n \in Ordinals /\ next <= n
    BY <1>3, <2>1 DEF Ordinals
  <2>3. n \notin sent
    BY <2>1, <2>2 DEF TypeInv, Ordinals
  <2>4. /\ Started(sender) \in Senders /\ Covers(Started(sender))
        /\ Started(sender).parity \subseteq sender.parity
    BY StartedCovers DEF TypeInv
  <2>5. /\ s \in Senders /\ Covers(s) /\ s.SQArray # <<>>
        /\ s.parity \subseteq Started(sender).parity \cup {n}
    BY <2>2, <2>3, <2>4, ProtectCovers
  <2>6. s.parity \subseteq sent \cup {n}
    BY <2>4, <2>5
  <2>7. /\ next' = n + 1 /\ sent' = sent \cup {n}
        /\ UNCHANGED <<k, nData, active, channel>>
    BY <1>3 DEF Deliver, receiverVars
  <2>8. \/ sender' = sender /\ protected' = protected
        \/ sender' = s /\ protected' = protected
        \/ /\ ~(Len(s.SQArray) < s.k)
           /\ sender' = AfterFec(s)
           /\ protected' = protected \cup {FecPacket(s, n)}
    <3>1. CASE k = 0
      BY <1>3, <3>1 DEF Deliver
    <3>2. CASE k # 0 /\ Len(s.SQArray) < s.k
      <4>1. due = <<>> /\ {due[i] : i \in DOMAIN due} = {}
        BY <3>2
      <4> QED
        BY <1>3, <3>2, <4>1 DEF Deliver
    <3>3. CASE k # 0 /\ ~(Len(s.SQArray) < s.k)
      <4>1. /\ due = <<FecPacket(s, n)>> /\ due # <<>>
            /\ {due[i] : i \in DOMAIN due} = {FecPacket(s, n)}
        BY <3>3
      <4> QED
        BY <1>3, <3>3, <4>1 DEF Deliver
    <3> QED
      BY <3>1, <3>2, <3>3
  <2>14. /\ FlagsOf(s, protected)
         /\ ~(Len(s.SQArray) < s.k) => n \in s.parity
    <3>1. /\ FlagsOf(Started(sender), protected)
          /\ \/ Started(sender).SQArray = <<>>
             \/ Len(Started(sender).SQArray) < Started(sender).k
      BY StartedFlags DEF TypeInv
    <3> QED
      BY <2>2, <2>3, <2>4, <3>1, ProtectFlags
  <2> HIDE DEF s, n, due
  <2>15. /\ sender' \in Senders /\ Covers(sender')
         /\ sender'.parity \subseteq sent \cup {n}
    BY <2>5, <2>6, <2>8, AfterFecKeeps DEF TypeInv
  <2>9. TypeInv'
    BY <2>1, <2>2, <2>15, <2>7 DEF TypeInv, Ordinals
  <2>10. \A m \in sent' : m < next'
    BY <2>1, <2>2, <2>7 DEF Ordinals
  <2>11. sent' \subseteq Ordinals /\ sender'.parity \subseteq sent'
    BY <2>2, <2>15, <2>7
  <2>12. Covers(sender)'
    BY <2>15 DEF Covers, SeqOf
  <2>16. /\ FecPacket(s, n).parity = s.parity
         /\ FecPacket(s, n).flags = s.flags
         /\ Group(FecPacket(s, n)) = {SeqOf(m) : m \in s.parity}
    BY <2>5, FecPacketCovers
  <2>17. FlagsOf(sender', protected')
    <3>1. CASE sender' = sender /\ protected' = protected
      BY <3>1
    <3>2. CASE sender' = s /\ protected' = protected
      BY <2>14, <3>2
    <3>3. CASE /\ sender' = AfterFec(s)
               /\ protected' = protected \cup {FecPacket(s, n)}
      <4>1. sender'.flags = {SNBase} /\ sender'.parity = s.parity
        BY <2>5, <3>3, AfterFecKeeps
      <4> QED
        BY <2>16, <3>3, <4>1 DEF FlagsOf
    <3> QED
      BY <2>8, <3>1, <3>2, <3>3
  <2>13. ParityCoversGroup'
    <3>0. PICK f : f = FecPacket(s, n)
      OBVIOUS
    <3>1. f.parity \subseteq sent'
      BY <2>6, <2>7, <2>16, <3>0
    <3>2. \A h \in protected : h.parity \subseteq sent /\ h.parity \subseteq sent'
      BY <2>7 DEF ParityCoversGroup
    <3>3. ASSUME ~(Len(s.SQArray) < s.k), s.flags # s.parity
          PROVE  \E g \in protected : g # f /\ g.parity \subseteq f.parity
      <4>1. PICK g \in protected : g.parity \subseteq s.parity
        BY <2>14, <3>3 DEF FlagsOf
      <4>2. n \in f.parity /\ n \notin g.parity
        BY <2>3, <2>14, <2>16, <3>0, <3>2, <3>3
      <4> QED
        BY <2>16, <3>0, <4>1, <4>2
    <3>4. protected \subseteq protected'
      BY <2>8
    <3>5. \A h \in protected : h.flags = h.parity \/ SentBefore(h)'
      BY <3>4 DEF ParityCoversGroup, SentBefore
    <3>6. CASE protected' = protected
      BY <3>2, <3>5, <3>6 DEF ParityCoversGroup, Group, SeqOf
    <3>7. CASE /\ ~(Len(s.SQArray) < s.k)
               /\ protected' = protected \cup {FecPacket(s, n)}
      <4>1. f.flags = f.parity \/ SentBefore(f)'
        BY <2>16, <3>0, <3>3, <3>4, <3>7 DEF SentBefore
      <4>2. Group(f) = {SeqOf(m) : m \in f.parity}
        BY <2>16, <3>0
      <4>3. protected' = protected \cup {f}
        BY <3>0, <3>7
      <4> QED
        BY <3>1, <3>2, <3>5, <4>1, <4>2, <4>3
        DEF ParityCoversGroup, Group, SeqOf
    <3> QED
      BY <2>8, <3>6, <3>7
  <2>18. FlagsOf(sender, protected)'
    BY <2>17 DEF FlagsOf
  <2> QED
    BY <2>9, <2>10, <2>11, <2>12, <2>13, <2>18
<1>4. ASSUME UNCHANGED senderVars, nData' \in 0..MaxBuff,
             active' \in BOOLEAN, channel' \in BOOLEAN, active' => channel'
      PROVE  SenderInv'
  <2>1. UNCHANGED <<k, sender, next, sent, protected>>
    BY <1>4 DEF senderVars
  <2>2. TypeInv'
    BY <1>4, <2>1 DEF TypeInv
  <2>3. Covers(sender)' /\ FlagsOf(sender, protected)'
    BY <2>1 DEF Covers, FlagsOf, SeqOf
  <2>4. ParityCoversGroup'
    BY <2>1 DEF ParityCoversGroup, Group, SeqOf, SentBefore
  <2> QED
    BY <2>1, <2>2, <2>3, <2>4
<1>5. ASSUME NEW i \in DOMAIN net, Lose(i) \/ ArriveData(i) \/ ArriveFirst(i)
      PROVE  SenderInv'
  <2>1. CASE Lose(i)
    BY <1>4, <2>1 DEF Lose, receiverVars, TypeInv
  <2>2. CASE ArriveData(i)
    <3>1. (active' = active \/ active' = FALSE) /\ (nData' = nData \/ nData' = 0)
      BY <2>2 DEF ArriveData, Insert
    <3>2. nData' \in 0..MaxBuff
      BY <3>1, FecAssumption DEF TypeInv
    <3>3. active' \in BOOLEAN /\ (active' => active)
      <4>1. active \in BOOLEAN
        BY DEF TypeInv
      <4>2. CASE active' = active
        BY <4>1, <4>2
      <4>3. CASE active' = FALSE
        BY <4>3
      <4> QED
        BY <3>1, <4>2, <4>3
    <3>4. UNCHANGED senderVars /\ channel' = channel
      BY <2>2 DEF ArriveData
    <3> QED
      BY <1>4, <3>2, <3>3, <3>4 DEF TypeInv
  <2>3. CASE ArriveFirst(i)
    BY <1>4, <2>3 DEF ArriveFirst, TypeInv
  <2> QED
    BY <1>5, <2>1, <2>2, <2>3
<1>6. ASSUME NEW i \in DOMAIN net, ArriveFec(i) PROVE SenderInv'
  <2>1. nData' = nData \/ nData' = 0 \/ nData' = AfterSearch(net[i])
    BY <1>6 DEF ArriveFec, GiveUp, Search
  <2>2. nData' \in 0..MaxBuff
    BY <2>1, FecAssumption DEF AfterSearch, ReadsPast, TypeInv
  <2> QED
    BY <1>4, <1>6, <2>2 DEF ArriveFec, TypeInv
<1>7. CASE UNCHANGED vars
  BY <1>4, <1>7 DEF vars, receiverVars, TypeInv
<1> QED
  BY <1>1, <1>2, <1>3, <1>5, <1>6, <1>7 DEF Next, Source, Network, Receiver

\* Its base.
LEMMA InitSender == ASSUME Init PROVE SenderInv
<1>1. k \in GroupSizes /\ sender = resetTX(k)
  BY DEF Init
<1>2. sender \in Senders /\ Covers(sender)
  BY <1>1, ResetCovers
<1>3. sender.parity = {} /\ FlagsOf(sender, protected)
  BY <1>1 DEF resetTX, FlagsOf
<1>4. next \in 0..(MaxOrdinal + 1) /\ nData \in 0..MaxBuff
  BY FecAssumption DEF Init
<1>5. TypeInv
  BY <1>1, <1>2, <1>4 DEF Init, TypeInv
<1> QED
  BY <1>2, <1>3, <1>5 DEF Init, SenderInv, ParityCoversGroup

\* The inductive invariant holds in every behaviour.
LEMMA SenderInvHolds == Spec => []SenderInv
<1>1. SenderInv /\ [Next]_vars => SenderInv'
  BY NextSender
<1> QED
  BY <1>1, InitSender, PTL DEF Spec

\* Type correctness of sender and receiver, for all numbers and group sizes.
THEOREM FecTypeCorrect == Spec => []TypeOK
<1>1. SenderInv => TypeOK
  BY DEF SenderInv, TypeInv, TypeOK, Senders
<1> QED
  BY <1>1, SenderInvHolds, PTL

\* Every parity packet of target_t is the parity of exactly the packets that
\* its base and mask name, all of which were sent; its flags are theirs too,
\* unless k, raised after they were sent, has opened a sent group again.
THEOREM ParityIsOfItsGroup == Spec => []ParityCoversGroup
<1>1. SenderInv => ParityCoversGroup
  BY DEF SenderInv
<1> QED
  BY <1>1, SenderInvHolds, PTL

----------------------------------------------------------------------------
(* Numbers *)

\* Lemma: the remainder of a number below the divisor.
LEMMA ModSmall ==
  ASSUME NEW m \in Nat, NEW a \in Nat, a < m
  PROVE  a % m = a
BY SMT

\* Lemma: and of one that is less than two turns.
LEMMA ModNext ==
  ASSUME NEW m \in Nat, NEW a \in Nat, m <= a, a < 2 * m
  PROVE  a % m = a - m
BY SMT

\* Lemma: the number of the n-th packet, when no number is used twice.
LEMMA SeqOfValue ==
  ASSUME NoReuse, NEW n \in Ordinals
  PROVE  /\ SeqOf(n) = IF FirstSeq + n < SeqMod THEN FirstSeq + n
                       ELSE FirstSeq + n - SeqMod
         /\ SeqOf(n) \in 0..(SeqMod - 1)
         /\ n \in Nat /\ n < SeqMod - MaxBuff
<1>1. /\ SeqMod \in Nat /\ FirstSeq \in Nat /\ FirstSeq < SeqMod
      /\ MaxBuff \in Nat /\ n \in Nat /\ n < SeqMod - MaxBuff
  BY FecAssumption DEF NoReuse, Ordinals
<1>2. FirstSeq + n \in Nat /\ FirstSeq + n < 2 * SeqMod
  BY <1>1
<1>3. CASE FirstSeq + n < SeqMod
  BY <1>1, <1>2, <1>3, ModSmall DEF SeqOf
<1>4. CASE FirstSeq + n >= SeqMod
  <2>1. (FirstSeq + n) % SeqMod = (FirstSeq + n) - SeqMod
    BY <1>1, <1>2, <1>4, ModNext
  <2> QED
    BY <1>1, <1>2, <1>4, <2>1 DEF SeqOf
<1> QED
  BY <1>1, <1>2, <1>3, <1>4

\* Lemma: then a number belongs to one packet.
LEMMA SeqOfInjective ==
  ASSUME NoReuse, NEW m \in Ordinals, NEW n \in Ordinals, SeqOf(m) = SeqOf(n)
  PROVE  m = n
<1>1. /\ SeqMod \in Nat /\ FirstSeq \in Nat /\ FirstSeq < SeqMod
      /\ MaxBuff \in Nat
  BY FecAssumption
<1> QED
  BY <1>1, SeqOfValue

\* Lemma: the difference of two numbers, and of the packets they belong to.
LEMMA SeqOfDifference ==
  ASSUME NoReuse, NEW m \in Ordinals, NEW n \in Ordinals, m <= n
  PROVE  \/ SeqOf(n) - SeqOf(m) = n - m
         \/ SeqOf(n) - SeqOf(m) = n - m - SeqMod
<1>1. /\ SeqMod \in Nat /\ FirstSeq \in Nat /\ FirstSeq < SeqMod
      /\ MaxBuff \in Nat
  BY FecAssumption
<1> QED
  BY <1>1, SeqOfValue

----------------------------------------------------------------------------
(* What is in flight, held and rebuilt *)

Originals == {Original(n) : n \in sent}
FecPackets == [base : 0..(SeqMod - 1), mask : SUBSET Slots,
               parity : SUBSET Ordinals,
               flags : SUBSET (Ordinals \cup {SNBase}),
               type : SUBSET Ordinals, time : {{SecondWord}}]

\* A packet on the path or in the buffer is one that was sent.
FlightInv ==
  /\ SenderInv
  /\ protected \subseteq FecPackets
  /\ net \in Seq(protected \cup Originals)
  /\ frame \in [Slots -> Originals \cup {NULL}]
  /\ RecoveredIsWhole

\* Lemma: the two kinds of packets.
LEMMA PacketKinds ==
  /\ \A f \in FecPackets : IsFec(f)
  /\ \A n : /\ ~IsFec(Original(n)) /\ Original(n).seq = SeqOf(n)
            /\ Original(n).parity = {n} /\ Original(n).flags = {n}
  /\ \A m, n : Original(m) = Original(n) => m = n
<1>1. \A f \in FecPackets : IsFec(f)
  BY DEF FecPackets, IsFec
<1>2. \A n : /\ ~IsFec(Original(n)) /\ Original(n).seq = SeqOf(n)
             /\ Original(n).parity = {n} /\ Original(n).flags = {n}
  BY DEF Original, IsFec
<1>3. \A m, n : {m} = {n} => m = n
  OBVIOUS
<1>4. \A m, n : Original(m) = Original(n) => m = n
  BY <1>2, <1>3
<1> QED
  BY <1>1, <1>2, <1>4

\* Lemma: what is held, by the packets' ordinals.
LEMMA HeldOriginals ==
  ASSUME frame \in [Slots -> Originals \cup {NULL}], sent \subseteq Ordinals
  PROVE  /\ Held \subseteq Originals
         /\ \A n : Original(n) \in Held => n \in sent
<1>1. Held \subseteq Originals
  BY DEF Held
<1>2. ASSUME NEW n, Original(n) \in Held PROVE n \in sent
  BY <1>1, <1>2, PacketKinds DEF Originals
<1> QED
  BY <1>1, <1>2

\* Lemma: the exclusive or of such a field of a group and of all its packets
\* but one is that one.
LEMMA XorIsTheRest ==
  ASSUME NEW f, IsFec(f), NEW field \in {"parity", "flags"},
         NEW m \in f[field],
         NEW K, K = {Original(n) : n \in f[field] \ {m}} \cup {f}
  PROVE  XorField(K, field) = {m}
<1> DEFINE In(t) == {p \in K : t \in p[field]}
<1>1. /\ \A n : Original(n) # f /\ Original(n)[field] = {n}
      /\ \A i, n : Original(i) = Original(n) => i = n
  BY PacketKinds
<1>2. In(m) = {f}
  BY <1>1
<1>3. ASSUME NEW t \in f[field], t # m PROVE In(t) = {Original(t)} \cup {f}
  BY <1>1, <1>3
<1>4. Cardinality({f}) = 1
  BY FS_Singleton
<1>5. ASSUME NEW t \in f[field], t # m PROVE Cardinality(In(t)) = 2
  <2>1. IsFiniteSet({Original(t)}) /\ Cardinality({Original(t)}) = 1
    BY FS_Singleton
  <2>2. Cardinality({Original(t)} \cup {f}) = 2
    BY <1>1, <2>1, FS_AddElement, SMTT(60)
  <2> QED
    BY <1>3, <1>5, <2>2
<1>6. UNION {p[field] : p \in K} = f[field]
  <2>1. \A p \in K : p[field] \subseteq f[field]
    BY <1>1
  <2> QED
    BY <2>1
<1>7. XorField(K, field)
        = {t \in UNION {p[field] : p \in K} : Cardinality(In(t)) % 2 = 1}
  BY DEF XorField
<1> HIDE DEF In
<1>8. \A t \in f[field] : Cardinality(In(t)) % 2 = 1 <=> t = m
  <2>1. 1 % 2 = 1 /\ 2 % 2 = 0
    OBVIOUS
  <2> QED
    BY <1>2, <1>4, <1>5, <2>1
<1> QED
  BY <1>6, <1>7, <1>8

\* Lemma: the packets of a group are those in its parity, and when one of
\* them is missing the others are held.
LEMMA OthersOfGroup ==
  ASSUME NoReuse, FlightInv, NEW f \in protected
  PROVE  /\ \A n \in sent : SeqOf(n) \in Group(f) <=> n \in f.parity
         /\ Group(f) = {SeqOf(n) : n \in f.parity}
         /\ Missing(f) = {SeqOf(n) : n \in {j \in f.parity :
                                              Original(j) \notin Held}}
         /\ Others(f) = {Original(n) : n \in {j \in f.parity :
                                               Original(j) \in Held}}
<1>1. /\ f.parity \subseteq sent /\ sent \subseteq Ordinals
      /\ Group(f) = {SeqOf(n) : n \in f.parity}
  BY DEF FlightInv, SenderInv, ParityCoversGroup
<1>2. \A n \in sent : SeqOf(n) \in Group(f) <=> n \in f.parity
  BY <1>1, SeqOfInjective
<1>3. Held \subseteq Originals /\ \A n : Original(n).seq = SeqOf(n)
  BY <1>1, HeldOriginals, PacketKinds DEF FlightInv
<1>4. \A p \in Held : \E n \in sent : p = Original(n) /\ p.seq = SeqOf(n)
  BY <1>3 DEF Originals
<1>5. Missing(f) = {SeqOf(n) : n \in {j \in f.parity :
                                        Original(j) \notin Held}}
  <2>1. \A j \in f.parity : (\E p \in Held : p.seq = SeqOf(j))
                              <=> Original(j) \in Held
    BY <1>1, <1>3, <1>4, SeqOfInjective
  <2> QED
    BY <1>1, <2>1 DEF Missing
<1>6. Others(f) = {Original(n) : n \in {j \in f.parity :
                                         Original(j) \in Held}}
  BY <1>1, <1>2, <1>3, <1>4 DEF Others
<1> QED
  BY <1>1, <1>2, <1>5, <1>6

\* Lemma: what the search rebuilds is the packet that is missing.
LEMMA RebuiltIsTheMissing ==
  ASSUME NoReuse, FlightInv, NEW f \in protected, NEW lost,
         Missing(f) = {lost}
  PROVE  \E m \in f.parity : /\ lost = SeqOf(m) /\ Original(m) \notin Held
                             /\ Carries(Rebuilt(f, lost), m)
                             /\ f.flags = f.parity
                                  => Rebuilt(f, lost).flags = {m}
<1>1. PICK m \in f.parity : lost = SeqOf(m) /\ Original(m) \notin Held
  BY OthersOfGroup
<1>2. m \in sent /\ f.parity \subseteq Ordinals /\ IsFec(f)
  BY PacketKinds DEF FlightInv, SenderInv, ParityCoversGroup
<1>3. \A j \in f.parity : Original(j) \notin Held => j = m
  BY <1>1, <1>2, OthersOfGroup, SeqOfInjective
<1>4. Others(f) = {Original(n) : n \in f.parity \ {m}}
  BY <1>1, <1>3, OthersOfGroup
<1>5. XorField(Others(f) \cup {f}, "parity") = {m}
  BY <1>2, <1>4, XorIsTheRest
<1>6. SeqOf(m) % SeqMod = SeqOf(m)
  <2>1. SeqOf(m) \in 0..(SeqMod - 1) /\ SeqMod \in Nat
    BY <1>2, SeqOfValue, FecAssumption
  <2>2. SeqOf(m) \in Nat /\ SeqOf(m) < SeqMod
    BY <2>1
  <2> QED
    BY <2>1, <2>2, ModSmall
<1>7. Carries(Rebuilt(f, lost), m)
  BY <1>1, <1>5, <1>6 DEF Carries, Rebuilt
<1>8. ASSUME f.flags = f.parity PROVE Rebuilt(f, lost).flags = {m}
  <2>1. XorField(Others(f) \cup {f}, "flags") = {m}
    BY <1>2, <1>4, <1>8, XorIsTheRest
  <2> QED
    BY <2>1 DEF Rebuilt
<1> QED
  BY <1>1, <1>7, <1>8

\* Lemma: the sequence without its i-th element.
LEMMA WithoutOne ==
  ASSUME NEW S, NEW q \in Seq(S), NEW i \in DOMAIN q, NEW r,
         r = [j \in 1..(Len(q) - 1) |-> IF j < i THEN q[j] ELSE q[j + 1]]
  PROVE  /\ r \in Seq(S) /\ Len(r) = Len(q) - 1
         /\ DOMAIN r = 1..(Len(q) - 1) /\ DOMAIN q = 1..Len(q)
         /\ Len(q) \in Nat \ {0} /\ i \in 1..Len(q)
<1>1. Len(q) \in Nat /\ q \in [1..Len(q) -> S] /\ DOMAIN q = 1..Len(q)
  BY LenProperties
<1>2. i \in 1..Len(q) /\ Len(q) - 1 \in Nat
  BY <1>1
<1>3. \A j \in 1..(Len(q) - 1) : j \in 1..Len(q) /\ j + 1 \in 1..Len(q)
  BY <1>1
<1>4. r \in [1..(Len(q) - 1) -> S]
  BY <1>1, <1>3
<1>5. r \in Seq(S)
  BY <1>2, <1>4, SeqDef
<1>6. DOMAIN r = 1..(Len(q) - 1) /\ Len(r) = Len(q) - 1
  BY <1>2, <1>4, <1>5, LenProperties
<1> QED
  BY <1>1, <1>2, <1>5, <1>6

\* Lemma: the distance of a packet from the first slot is a number.
LEMMA DistanceType ==
  ASSUME frame \in [Slots -> Originals \cup {NULL}], sent \subseteq Ordinals,
         NEW n \in sent
  PROVE  Distance(Original(n)) \in Int
<1>1. /\ SeqMod \in Nat /\ MaxDiff \in Nat /\ MaxBuff \in Nat \ {0}
      /\ 0 \in Slots
  BY FecAssumption DEF Slots
<1>2. \A j \in sent : Original(j).seq \in Int
  <2>1. \A j \in sent : SeqOf(j) \in Int
    BY <1>1, SeqOfInRange
  <2> QED
    BY <2>1, PacketKinds
<1>3. frame[0] # NULL => frame[0].seq \in Int
  BY <1>1, <1>2 DEF Originals
<1> QED
  BY <1>1, <1>2, <1>3 DEF Distance

\* Lemma: insert keeps packets of the source in the buffer.
LEMMA InsertType ==
  ASSUME frame \in [Slots -> Originals \cup {NULL}], sent \subseteq Ordinals,
         NEW n \in sent, Insert(Original(n))
  PROVE  frame' \in [Slots -> Originals \cup {NULL}]
<1> DEFINE p == Original(n)
           d == Distance(p)
           B == Originals \cup {NULL}
<1>1. d \in Int /\ MaxBuff \in Nat /\ Slots = 0..(MaxBuff - 1)
  BY DistanceType, FecAssumption DEF Slots
<1>2. p \in B /\ NULL \in B /\ frame \in [Slots -> B]
  BY DEF Originals
<1>3. \/ frame' = frame
      \/ d < 0 /\ frame' = Shifted(p, d)
      \/ frame' = EmptyFrame
      \/ frame' = [frame EXCEPT ![d] = p]
  BY DEF Insert
<1> HIDE DEF p, d, B
<1>4. CASE d < 0 /\ frame' = Shifted(p, d)
  <2>1. \A i \in Slots : i + d >= 0 => i + d \in Slots
    BY <1>1, <1>4
  <2> QED
    BY <1>2, <1>4, <2>1 DEF Shifted, B
<1>5. CASE frame' = EmptyFrame
  BY <1>2, <1>5 DEF EmptyFrame, B
<1>6. CASE frame' = [frame EXCEPT ![d] = p]
  BY <1>2, <1>6 DEF B
<1> QED
  BY <1>2, <1>3, <1>4, <1>5, <1>6 DEF B

\* Lemma: a parity packet has its type.
LEMMA FecPacketType ==
  ASSUME NEW s \in Senders, s.SQArray # <<>>, NEW n \in Ordinals
  PROVE  FecPacket(s, n) \in FecPackets
<1> DEFINE S == 0..(SeqMod - 1)
<1>1. s.SQArray \in Seq(S)
  BY DEF Senders
<1> HIDE DEF S
<1>2. Head(s.SQArray) \in S
  BY <1>1, HeadTailProperties
<1>3. /\ s.mask \in SUBSET Slots /\ s.parity \in SUBSET Ordinals
      /\ s.flags \in SUBSET (Ordinals \cup {SNBase})
  BY DEF Senders
<1> QED
  BY <1>2, <1>3 DEF S, FecPacket, FecPackets

\* Lemma: what has been sent stays in the histories, and the net with it.
LEMMA FlightGrows ==
  ASSUME FlightInv, sent \subseteq sent', protected \subseteq protected'
  PROVE  /\ net \in Seq(protected' \cup Originals')
         /\ Originals \subseteq Originals'
         /\ frame \in [Slots -> Originals' \cup {NULL}]
<1>1. Originals \subseteq Originals'
  BY DEF Originals, Original, SeqOf
<1>2. protected \cup Originals \subseteq protected' \cup Originals'
  BY <1>1
<1>3. net \in Seq(protected' \cup Originals')
  BY <1>2, SeqMonotonic DEF FlightInv
<1>4. frame \in [Slots -> Originals' \cup {NULL}]
  BY <1>1 DEF FlightInv
<1> QED
  BY <1>1, <1>3, <1>4

\* Lemma: a packet that is as it was sent stays so.
LEMMA AsSentStays ==
  ASSUME sent \subseteq sent', protected \subseteq protected',
         NEW p, AsSent(p)
  PROVE  AsSent(p)'
<1>1. PICK n \in sent : /\ Carries(p, n)
                        /\ \/ p.flags = {n}
                           \/ \E f \in protected :
                                 p.seq \in Group(f) /\ SentBefore(f)
  BY DEF AsSent
<1>2. n \in sent' /\ Carries(p, n)'
  BY <1>1 DEF Carries, SeqOf
<1>3. \A f \in protected :
        f \in protected' /\ Group(f)' = Group(f) /\ (SentBefore(f) => SentBefore(f)')
  BY DEF Group, SentBefore
<1> QED
  BY <1>1, <1>2, <1>3 DEF AsSent

\* Lemma: the steps that leave the sender alone and rebuild nothing.
LEMMA ReceiverFlight ==
  ASSUME FlightInv, SenderInv', UNCHANGED senderVars,
         net' \in Seq(protected \cup Originals),
         frame' \in [Slots -> Originals \cup {NULL}],
         NoReuse => \A p \in recovered' : AsSent(p)
  PROVE  FlightInv'
<1>1. UNCHANGED <<sent, protected>>
  BY DEF senderVars
<1>2. RecoveredIsWhole'
  BY <1>1, AsSentStays DEF RecoveredIsWhole, NoReuse
<1>3. /\ (protected \subseteq FecPackets)'
      /\ (protected \cup Originals)' = protected \cup Originals
      /\ Slots' = Slots /\ Originals' = Originals
  BY <1>1 DEF FlightInv, FecPackets, Slots, Ordinals, SecondWord, SNBase,
     Originals, Original, SeqOf
<1> QED
  BY <1>2, <1>3 DEF FlightInv

\* Lemma: deliver with no protection, in the middle of a group, and at the
\* end of one.
LEMMA DeliverCases ==
  ASSUME NEW n, Deliver(n), FlightInv
  PROVE  LET s == Protect(Started(sender), n)
             f == FecPacket(s, n)
         IN  \/ /\ k = 0 /\ UNCHANGED <<sender, protected>>
                /\ net' = Append(net, Original(n))
             \/ /\ k # 0 /\ sender' = s /\ Len(s.SQArray) < s.k
                /\ protected' = protected
                /\ net' = Append(net, Original(n))
             \/ /\ k # 0 /\ sender' = AfterFec(s) /\ ~(Len(s.SQArray) < s.k)
                /\ protected' = protected \cup {f}
                /\ net' = Append(net, Original(n)) \o <<f>>
<1> DEFINE s == Protect(Started(sender), n)
           f == FecPacket(s, n)
           due == IF Len(s.SQArray) < s.k THEN <<>> ELSE <<f>>
           S == (protected \cup Originals) \cup {Original(n)}
<1>1. \/ /\ k = 0 /\ UNCHANGED <<sender, protected>>
         /\ net' = Append(net, Original(n))
      \/ /\ k # 0 /\ sender' = IF due = <<>> THEN s ELSE AfterFec(s)
         /\ protected' = protected \cup {due[i] : i \in DOMAIN due}
         /\ net' = Append(net, Original(n)) \o due
  BY DEF Deliver
<1> HIDE DEF s, f
<1>2. CASE Len(s.SQArray) < s.k
  <2>1. due = <<>> /\ {due[i] : i \in DOMAIN due} = {}
    BY <1>2
  <2>2. Append(net, Original(n)) \o <<>> = Append(net, Original(n))
    <3>1. net \in Seq(protected \cup Originals)
      BY DEF FlightInv
    <3>2. net \in Seq(S) /\ Original(n) \in S
      BY <3>1, SeqMonotonic
    <3> HIDE DEF S
    <3>3. Append(net, Original(n)) \in Seq(S)
      BY <3>2, AppendProperties
    <3> QED
      BY <3>3, ConcatEmptySeq
  <2> QED
    BY <1>1, <1>2, <2>1, <2>2 DEF s, f
<1>3. CASE ~(Len(s.SQArray) < s.k)
  <2>1. due = <<f>> /\ due # <<>> /\ {due[i] : i \in DOMAIN due} = {f}
    BY <1>3
  <2> QED
    BY <1>1, <1>3, <2>1 DEF s, f
<1> QED
  BY <1>2, <1>3

\* The step of the induction, by action.
LEMMA NextFlight == ASSUME FlightInv, [Next]_vars PROVE FlightInv'
<1>1. SenderInv'
  BY NextSender DEF FlightInv
<1> DEFINE B == protected \cup Originals
           Popped(i) ==
             [j \in 1..(Len(net) - 1) |-> IF j < i THEN net[j] ELSE net[j + 1]]
<1>2. ASSUME NEW i \in DOMAIN net, Arrives(i) PROVE net' \in Seq(B)
  <2>1. net \in Seq(B)
    BY DEF FlightInv
  <2>2. net' = Popped(i)
    BY <1>2 DEF Arrives
  <2> HIDE DEF B
  <2> QED
    BY <2>1, <2>2, WithoutOne
<1>3. ASSUME NEW i \in DOMAIN net
      PROVE  net[i] \in protected \/ \E n \in sent : net[i] = Original(n)
  <2>1. net \in Seq(B)
    BY DEF FlightInv
  <2>2. DOMAIN net = 1..Len(net)
    BY <2>1, LenProperties
  <2>3. net[i] \in B
    BY <2>1, <2>2, ElementOfSeq
  <2> QED
    BY <2>3 DEF Originals
<1>11. ASSUME UNCHANGED <<sent, protected, net, frame, recovered>>
       PROVE  FlightInv'
  <2>1. RecoveredIsWhole'
    BY <1>11, AsSentStays DEF FlightInv, RecoveredIsWhole, NoReuse
  <2> QED
    BY <1>1, <1>11, <2>1 DEF FlightInv, Originals, Original, SeqOf
<1>4. ASSUME NEW size \in GroupSizes, SetFecParams(size) PROVE FlightInv'
  BY <1>4, <1>11 DEF SetFecParams, receiverVars
<1>5. CASE DelRTPFec
  BY <1>5, <1>11 DEF DelRTPFec, receiverVars
<1>6. ASSUME NEW step \in Steps, next + step - 1 <= MaxOrdinal,
             Deliver(next + step - 1)
      PROVE  FlightInv'
  <2> DEFINE n == next + step - 1
             s == Protect(Started(sender), n)
             T == protected' \cup Originals'
  <2>1. step \in Nat \ {0} /\ next \in Nat /\ MaxOrdinal \in Nat
    BY FecAssumption DEF FlightInv, SenderInv, TypeInv
  <2>2. n \in Ordinals /\ n \notin sent
    BY <1>6, <2>1 DEF Ordinals, FlightInv, SenderInv
  <2>3. FecPacket(s, n) \in FecPackets
    <3>1. /\ Started(sender) \in Senders /\ Covers(Started(sender))
          /\ Started(sender).parity \subseteq sender.parity
      BY StartedCovers DEF FlightInv, SenderInv, TypeInv
    <3>2. s \in Senders /\ s.SQArray # <<>>
      BY <2>2, <3>1, ProtectCovers DEF FlightInv, SenderInv
    <3> HIDE DEF s, n
    <3> QED
      BY <2>2, <3>2, FecPacketType
  <2>4. /\ sent' = sent \cup {n}
        /\ UNCHANGED <<frame, recovered>>
        /\ protected \subseteq protected'
        /\ protected' \subseteq protected \cup {FecPacket(s, n)}
        /\ \/ net' = Append(net, Original(n))
           \/ /\ net' = Append(net, Original(n)) \o <<FecPacket(s, n)>>
              /\ FecPacket(s, n) \in protected'
    <3>1. /\ sent' = sent \cup {n}
          /\ UNCHANGED <<frame, recovered>>
      BY <1>6 DEF Deliver, receiverVars
    <3>2. Deliver(n)
      BY <1>6
    <3> HIDE DEF n
    <3> QED
      BY <3>1, <3>2, DeliverCases
  <2>5. net \in Seq(T) /\ frame' \in [Slots -> Originals' \cup {NULL}]
    BY <2>4, FlightGrows
  <2>6. Original(n) \in T
    BY <2>4 DEF Originals, Original, SeqOf
  <2> HIDE DEF s, n, T
  <2>7. net' \in Seq(T)
    <3>1. Append(net, Original(n)) \in Seq(T)
      BY <2>5, <2>6, AppendProperties
    <3>2. FecPacket(s, n) \in protected' => <<FecPacket(s, n)>> \in Seq(T)
      BY DEF T
    <3> QED
      BY <2>4, <3>1, <3>2, ConcatProperties
  <2>8. RecoveredIsWhole'
    BY <2>4, AsSentStays DEF FlightInv, RecoveredIsWhole, NoReuse
  <2> QED
    BY <1>1, <2>3, <2>4, <2>5, <2>7, <2>8 DEF FlightInv, T, FecPackets, Slots,
         Ordinals, SecondWord, SNBase
<1>7. ASSUME NEW i \in DOMAIN net, Lose(i) \/ ArriveFirst(i) PROVE FlightInv'
  <2>1. Arrives(i) /\ UNCHANGED <<senderVars, frame, recovered>>
    BY <1>7 DEF Lose, ArriveFirst, receiverVars
  <2> QED
    BY <1>1, <1>2, <2>1, ReceiverFlight DEF FlightInv, RecoveredIsWhole
<1>8. ASSUME NEW i \in DOMAIN net, ArriveData(i) PROVE FlightInv'
  <2>1. Arrives(i) /\ UNCHANGED <<senderVars, recovered>>
    BY <1>8 DEF ArriveData
  <2>2. \/ frame' = frame
        \/ Insert(net[i])
    BY <1>8 DEF ArriveData
  <2>3. PICK n \in sent : net[i] = Original(n)
    <3>1. \A f \in protected : IsFec(f)
      BY PacketKinds DEF FlightInv
    <3> QED
      BY <1>3, <1>8, <3>1 DEF ArriveData
  <2>4. frame' \in [Slots -> Originals \cup {NULL}]
    BY <2>2, <2>3, InsertType DEF FlightInv, SenderInv
  <2> QED
    BY <1>1, <1>2, <2>1, <2>4, ReceiverFlight DEF FlightInv, RecoveredIsWhole
<1>9. ASSUME NEW i \in DOMAIN net, ArriveFec(i) PROVE FlightInv'
  <2> DEFINE f == net[i]
  <2>1. Arrives(i) /\ UNCHANGED senderVars
    BY <1>9 DEF ArriveFec
  <2>2. f \in protected
    BY <1>3, <1>9, PacketKinds DEF ArriveFec
  <2>3. /\ frame' = frame \/ frame' = EmptyFrame
                          \/ frame' = FreeSeqs(frame, Group(f))
        /\ \/ recovered' = recovered
           \/ \E lost : Missing(f) = {lost} /\
                        recovered' = recovered \cup {Rebuilt(f, lost)}
    BY <1>9 DEF ArriveFec, GiveUp, Search
  <2> HIDE DEF f
  <2>4. frame' \in [Slots -> Originals \cup {NULL}]
    BY <2>3 DEF FlightInv, EmptyFrame, FreeSeqs
  <2>5. ASSUME NoReuse, NEW p \in recovered'
        PROVE  AsSent(p)
    <3>1. CASE p \in recovered
      BY <2>5, <3>1 DEF FlightInv, RecoveredIsWhole
    <3>2. CASE p \notin recovered
      <4>1. PICK lost : Missing(f) = {lost} /\ p = Rebuilt(f, lost)
        BY <2>3, <3>2
      <4>2. PICK m \in f.parity :
              /\ lost = SeqOf(m) /\ Carries(p, m)
              /\ f.flags = f.parity => p.flags = {m}
        BY <2>2, <2>5, <4>1, RebuiltIsTheMissing
      <4>3. m \in sent /\ (f.flags = f.parity \/ SentBefore(f))
        BY <2>2, <4>2 DEF FlightInv, SenderInv, ParityCoversGroup
      <4>4. p.seq \in Group(f)
        BY <2>2, <2>5, <4>2, OthersOfGroup DEF Carries
      <4> QED
        BY <2>2, <4>2, <4>3, <4>4 DEF AsSent
    <3> QED
      BY <3>1, <3>2
  <2> QED
    BY <1>1, <1>2, <2>1, <2>4, <2>5, ReceiverFlight
<1>10. CASE UNCHANGED vars
  BY <1>1, <1>10, ReceiverFlight DEF vars, receiverVars, FlightInv,
       RecoveredIsWhole
<1> QED
  BY <1>4, <1>5, <1>6, <1>7, <1>8, <1>9, <1>10
     DEF Next, Source, Network, Receiver

\* Its base.
LEMMA InitFlight == ASSUME Init PROVE FlightInv
<1>1. SenderInv
  BY InitSender
<1>2. net \in Seq(protected \cup Originals)
  BY EmptySeq DEF Init
<1>3. frame \in [Slots -> Originals \cup {NULL}]
  BY DEF Init, EmptyFrame
<1> QED
  BY <1>1, <1>2, <1>3 DEF Init, FlightInv, RecoveredIsWhole

\* Lemma: the inductive invariant holds in every behaviour.
LEMMA FlightInvHolds == Spec => []FlightInv
<1>1. FlightInv /\ [Next]_vars => FlightInv'
  BY NextFlight
<1> QED
  BY <1>1, InitFlight, PTL DEF Spec

\* Theorem: what fecPktToRecv rebuilds is a packet that was sent, as it was
\* sent - but for the flags, if it is of a group that was opened again -,
\* whatever the path loses or reorders.
THEOREM RebuiltWasSent == Spec => []RecoveredIsWhole
<1>1. FlightInv => RecoveredIsWhole
  BY DEF FlightInv
<1> QED
  BY <1>1, FlightInvHolds, PTL

----------------------------------------------------------------------------
(* The search *)

\* A group with two numbers has two packets.
Plural(s) ==
  /\ s.SQArray # <<>> => s.parity # {}
  /\ Len(s.SQArray) >= 2 => \E a, b \in s.parity : a # b

\* A receiver whose groups have two packets or more starts every search at
\* the first slot.
SearchInv ==
  /\ FlightInv
  /\ k # 0 => sender.k = k
  /\ Plural(sender)
  /\ NoSingles => \A f \in protected : \E a, b \in f.parity : a # b
  /\ NoReuse /\ NoSingles => nData = 0 /\ ~overrun

\* Lemma: a group that is reset or taken over from before is plural.
LEMMA StartedPlural ==
  ASSUME NEW s \in Senders, Plural(s)
  PROVE  Plural(Started(s)) /\ Started(s).k = s.k
BY EmptySeq DEF Started, resetTX, Plural

\* Lemma: and stays so with a new packet.
LEMMA ProtectPlural ==
  ASSUME NEW s \in Senders, Plural(s), NEW n \in Ordinals, n \notin s.parity
  PROVE  Plural(Protect(s, n)) /\ Protect(s, n).k = s.k
<1>1. CASE ~InReach(s, n)
  BY <1>1 DEF Protect
<1>2. CASE InReach(s, n)
  <2> DEFINE S == 0..(SeqMod - 1)
             t == Protect(s, n)
  <2>1. SeqOf(n) \in S /\ s.SQArray \in Seq(S)
    BY SeqOfInRange DEF Senders
  <2>2. t = [s EXCEPT !.SQArray = Append(@, SeqOf(n)),
                      !.mask = @ \cup {diffSQ(s, n)},
                      !.parity = Xor(@, {n}),
                      !.flags = Xor(@, {n})]
    BY <1>2 DEF Protect
  <2>3. Xor(s.parity, {n}) = s.parity \cup {n}
    BY DEF Xor
  <2>4. /\ t.SQArray = Append(s.SQArray, SeqOf(n))
        /\ t.parity = s.parity \cup {n}
        /\ t.k = s.k
    BY <2>2, <2>3 DEF Senders
  <2> HIDE DEF S, t
  <2>5. Len(t.SQArray) = Len(s.SQArray) + 1 /\ Len(s.SQArray) \in Nat
    BY <2>1, <2>4, AppendProperties, LenProperties
  <2>6. Len(t.SQArray) >= 2 => s.SQArray # <<>>
    BY <2>1, <2>5, EmptySeq
  <2>7. Len(t.SQArray) >= 2 => \E a, b \in t.parity : a # b
    BY <2>4, <2>6 DEF Plural
  <2>8. Plural(t)
    BY <2>4, <2>7 DEF Plural
  <2> QED
    BY <2>4, <2>8 DEF t
<1> QED
  BY <1>1, <1>2

\* Lemma: the search for a packet that is missing of a group of two or more
\* starts and ends at the first slot.
LEMMA SearchFromTheStart ==
  ASSUME SearchInv, NoReuse, NoSingles, NEW f \in protected,
         NEW lost, Missing(f) = {lost}
  PROVE  ~RunsOut(f) /\ AfterSearch(f) = 0 /\ Others(f) # {}
<1>1. nData = 0 /\ \A i \in Slots : ~(i < nData)
  BY FecAssumption DEF SearchInv, Slots
<1>2. ~RunsOut(f)
  BY <1>1 DEF RunsOut
<1>3. PICK a \in f.parity, b \in f.parity : a # b
  BY DEF SearchInv
<1>4. /\ f.parity \subseteq sent /\ sent \subseteq Ordinals /\ FlightInv
  BY DEF SearchInv, FlightInv, SenderInv, ParityCoversGroup
<1>5. SeqOf(a) # SeqOf(b)
  BY <1>3, <1>4, SeqOfInjective
<1>6. Original(a) \in Held \/ Original(b) \in Held
  BY <1>3, <1>4, <1>5, OthersOfGroup
<1>7. Others(f) # {}
  BY <1>3, <1>4, <1>6, OthersOfGroup
<1> QED
  BY <1>2, <1>7 DEF AfterSearch

\* The step of the induction, by action.
LEMMA NextSearch == ASSUME SearchInv, [Next]_vars PROVE SearchInv'
<1>1. FlightInv'
  BY NextFlight DEF SearchInv
<1>2. ASSUME k' # 0 => sender'.k = k', Plural(sender'),
             UNCHANGED <<protected, nData, overrun>>
      PROVE  SearchInv'
  BY <1>1, <1>2 DEF SearchInv, Plural, NoReuse, NoSingles
<1>3. ASSUME NEW size \in GroupSizes, SetFecParams(size) PROVE SearchInv'
  <2>1. sender \in Senders
    BY DEF SearchInv, FlightInv, SenderInv, TypeInv
  <2>2. /\ k' = size
        /\ \/ size = 0 /\ sender' = sender
           \/ sender' = setK(sender, size)
        /\ UNCHANGED <<protected, nData, overrun>>
    BY <1>3 DEF SetFecParams, receiverVars
  <2>3. setK(sender, size).k = size /\ Plural(setK(sender, size))
    <3>1. CASE size < sender.k
      BY <3>1, EmptySeq DEF setK, resetTX, Plural
    <3>2. CASE ~(size < sender.k)
      BY <2>1, <3>2 DEF setK, Senders, Plural, SearchInv
    <3> QED
      BY <3>1, <3>2
  <2> QED
    BY <1>2, <2>2, <2>3 DEF SearchInv
<1>4. CASE DelRTPFec
  <2>1. /\ sender' = resetTX(k) /\ k' = k
        /\ UNCHANGED <<protected, nData, overrun>>
    BY <1>4 DEF DelRTPFec, receiverVars
  <2>2. resetTX(k).k = k /\ Plural(resetTX(k))
    BY EmptySeq DEF resetTX, Plural
  <2> QED
    BY <1>2, <2>1, <2>2
<1>5. ASSUME NEW step \in Steps, next + step - 1 <= MaxOrdinal,
             Deliver(next + step - 1)
      PROVE  SearchInv'
  <2> DEFINE n == next + step - 1
             s == Protect(Started(sender), n)
  <2>1. step \in Nat \ {0} /\ next \in Nat /\ MaxOrdinal \in Nat
    BY FecAssumption DEF SearchInv, FlightInv, SenderInv, TypeInv
  <2>2. n \in Ordinals /\ n \notin sent
    BY <1>5, <2>1 DEF Ordinals, SearchInv, FlightInv, SenderInv
  <2>3. /\ Started(sender) \in Senders
        /\ Started(sender).parity \subseteq sender.parity
        /\ sender.parity \subseteq sent
        /\ Plural(Started(sender)) /\ Started(sender).k = sender.k
    BY StartedCovers, StartedPlural
       DEF SearchInv, FlightInv, SenderInv, TypeInv
  <2>4. Plural(s) /\ s.k = sender.k
    BY <2>2, <2>3, ProtectPlural
  <2>9. s \in Senders
    <3>1. Covers(Started(sender)) /\ n \notin Started(sender).parity
      BY <2>2, <2>3, StartedCovers DEF SearchInv, FlightInv, SenderInv, TypeInv
    <3> QED
      BY <2>2, <2>3, <3>1, ProtectCovers
  <2>5. Deliver(n) /\ UNCHANGED <<k, nData, overrun>>
    BY <1>5 DEF Deliver, receiverVars
  <2> HIDE DEF n
  <2>6. \/ UNCHANGED <<sender, protected>>
        \/ k # 0 /\ sender' = s /\ protected' = protected
        \/ /\ k # 0 /\ sender' = AfterFec(s) /\ ~(Len(s.SQArray) < s.k)
           /\ protected' = protected \cup {FecPacket(s, n)}
    BY <2>5, DeliverCases DEF SearchInv
  <2> HIDE DEF s
  <2>10. Plural(AfterFec(s)) /\ AfterFec(s).k = s.k
    BY <2>4, <2>9, AfterFecKeeps DEF Plural
  <2>7. CASE protected' = protected
    BY <1>2, <2>4, <2>5, <2>6, <2>7, <2>10 DEF SearchInv
  <2>8. CASE /\ k # 0 /\ sender' = AfterFec(s) /\ ~(Len(s.SQArray) < s.k)
             /\ protected' = protected \cup {FecPacket(s, n)}
    <3>1. s.k = k /\ k \in 0..MaxBuff /\ MaxBuff \in Nat
      BY <2>4, <2>8, FecAssumption
         DEF SearchInv, FlightInv, SenderInv, TypeInv
    <3>2. NoSingles => k >= 2
      BY <2>8, <3>1 DEF NoSingles, SearchInv, FlightInv, SenderInv, TypeInv
    <3>3. Len(s.SQArray) \in Nat
      <4>1. s.SQArray \in Seq(0..(SeqMod - 1))
        BY <2>9 DEF Senders
      <4> QED
        BY <4>1, LenProperties
    <3>4. NoSingles => \E a, b \in FecPacket(s, n).parity : a # b
      BY <2>4, <2>8, <3>1, <3>2, <3>3 DEF Plural, FecPacket
    <3>5. k' # 0 => sender'.k = k'
      BY <2>5, <2>8, <2>10, <3>1
    <3> QED
      BY <1>1, <2>5, <2>8, <2>10, <3>4, <3>5
         DEF SearchInv, NoReuse, NoSingles, Plural
  <2> QED
    BY <2>6, <2>7, <2>8
<1>6. ASSUME UNCHANGED <<k, sender, protected>>,
             NoReuse /\ NoSingles => nData' = 0 /\ ~overrun'
      PROVE  SearchInv'
  BY <1>1, <1>6 DEF SearchInv, Plural, NoReuse, NoSingles
<1>7. ASSUME NEW i \in DOMAIN net, Lose(i) \/ ArriveFirst(i) PROVE SearchInv'
  BY <1>6, <1>7 DEF Lose, ArriveFirst, senderVars, receiverVars, SearchInv
<1>8. ASSUME NEW i \in DOMAIN net, ArriveData(i) PROVE SearchInv'
  <2>1. nData' = nData \/ nData' = 0
    BY <1>8 DEF ArriveData, Insert
  <2> QED
    BY <1>6, <1>8, <2>1 DEF ArriveData, senderVars, SearchInv
<1>9. ASSUME NEW i \in DOMAIN net, ArriveFec(i) PROVE SearchInv'
  <2>1. UNCHANGED <<k, sender, protected>>
    BY <1>9 DEF ArriveFec, senderVars
  <2>2. net[i] \in protected
    <3>1. net \in Seq(protected \cup Originals)
      BY DEF SearchInv, FlightInv
    <3>2. DOMAIN net = 1..Len(net)
      BY <3>1, LenProperties
    <3>3. net[i] \in protected \cup Originals
      BY <3>1, <3>2, ElementOfSeq
    <3> QED
      BY <1>9, <3>3, PacketKinds DEF ArriveFec, Originals
  <2>3. ASSUME NoReuse, NoSingles PROVE nData' = 0 /\ ~overrun'
    <3>1. nData = 0 /\ ~overrun
      BY <2>3 DEF SearchInv
    <3>2. CASE GiveUp(net[i])
      BY <3>1, <3>2 DEF GiveUp
    <3>3. CASE Search(net[i])
      <4>1. PICK lost : /\ Missing(net[i]) = {lost}
                        /\ IF RunsOut(net[i]) THEN overrun' = TRUE
                           ELSE /\ nData' = AfterSearch(net[i])
                                /\ UNCHANGED overrun
        BY <3>3 DEF Search
      <4>2. ~RunsOut(net[i]) /\ AfterSearch(net[i]) = 0
        BY <2>2, <2>3, <4>1, SearchFromTheStart
      <4> QED
        BY <3>1, <4>1, <4>2
    <3> QED
      BY <1>9, <3>2, <3>3 DEF ArriveFec
  <2> QED
    BY <1>6, <2>1, <2>3
<1>10. CASE UNCHANGED vars
  BY <1>6, <1>10 DEF vars, senderVars, receiverVars, SearchInv
<1> QED
  BY <1>3, <1>4, <1>5, <1>7, <1>8, <1>9, <1>10
     DEF Next, Source, Network, Receiver

\* Its base.
LEMMA InitSearch == ASSUME Init PROVE SearchInv
<1>1. sender = resetTX(k) /\ protected = {} /\ nData = 0 /\ overrun = FALSE
  BY DEF Init
<1>2. Plural(sender) /\ sender.k = k
  BY <1>1, EmptySeq DEF resetTX, Plural
<1> QED
  BY <1>1, <1>2, InitFlight DEF SearchInv

\* Lemma: the inductive invariant holds in every behaviour.
LEMMA SearchInvHolds == Spec => []SearchInv
<1>1. SearchInv /\ [Next]_vars => SearchInv'
  BY NextSearch
<1> QED
  BY <1>1, InitSearch, PTL DEF Spec

\* Theorem: no search of fecPktToRecv uses what it reads past the buffer's end,
\* when groups have two packets or more.
THEOREM SearchesMeetTheirGroup == Spec => []SearchMeetsGroup
<1>1. SearchInv => SearchMeetsGroup
  BY DEF SearchInv, SearchMeetsGroup
<1> QED
  BY <1>1, SearchInvHolds, PTL

-----------------------------------------------------------------------------
(***************************************************************************)
(* On a path that keeps the order: a packet that arrives is never rebuilt  *)
(* as well, and the only packet of a group that is lost is rebuilt.  The   *)
(* argument is by the order of what is in flight, then by what becomes of  *)
(* the packets of a group until its parity packet arrives, then by what is *)
(* done with that.                                                         *)
(***************************************************************************)

InNet(x) == \E i \in DOMAIN net : net[i] = x
Below(S, T) == \A a \in S, b \in T : a < b
Reaches(S, T) == \A a \in S : \E b \in T : a <= b
Short(P) == \A a, b \in P : a - b < MaxBuff

----------------------------------------------------------------------------
(* The order of what is in flight *)

\* A group is followed by those that contain it and by later ones.
FollowedBy(P, Q) == P \subseteq Q \/ Below(P, Q)

\* What p and a later packet q on the path have to do with each other.
Precedes(p, q) ==
  IF IsFec(q) THEN IF IsFec(p) THEN p # q /\ FollowedBy(p.parity, q.parity)
                   ELSE Reaches(p.parity, q.parity)
  ELSE Below(p.parity, q.parity)

\* What has arrived, R, and p, which has not.
Passed(R, p) == IF IsFec(p) THEN Reaches(R, p.parity) ELSE Below(R, p.parity)

\* The first packet of the group of s has the number its base names, and the
\* others are in the reach of the mask.
Spans(s) ==
  s.SQArray # <<>> =>
    \E h \in s.parity : /\ Head(s.SQArray) = SeqOf(h)
                        /\ \A a \in s.parity : h <= a /\ a - h < MaxBuff

LineInv ==
  /\ SearchInv
  /\ NoReuse => Spans(sender) /\ \A f \in protected : Short(f.parity)
  /\ received \subseteq sent
  /\ \A n \in sent : Original(n) \in Held => n \in received
  /\ path = "ordered" =>
       /\ \A i, j \in DOMAIN net : i < j => Precedes(net[i], net[j])
       /\ \A i \in DOMAIN net : Passed(received, net[i])
       /\ \A i \in DOMAIN net :
            IsFec(net[i]) => FollowedBy(net[i].parity, sender.parity)

\* Lemma: the ordinals, and the packets in flight.
LEMMA InFlight ==
  ASSUME SearchInv
  PROVE  /\ sent \subseteq Ordinals /\ sent \subseteq Nat /\ next \in Nat
         /\ \A n \in sent : n < next
         /\ net \in Seq(protected \cup Originals)
         /\ Len(net) \in Nat /\ DOMAIN net = 1..Len(net)
         /\ \A f \in protected : IsFec(f) /\ f.parity \subseteq sent
         /\ \A i \in DOMAIN net :
              /\ net[i].parity \subseteq sent
              /\ IF IsFec(net[i]) THEN net[i] \in protected
                 ELSE \E n \in sent : net[i] = Original(n)
<1>1. FlightInv /\ SenderInv /\ TypeInv
  BY DEF SearchInv, FlightInv, SenderInv
<1>2. /\ sent \subseteq Ordinals /\ next \in Nat /\ Ordinals \subseteq Nat
      /\ \A n \in sent : n < next
  BY <1>1, FecAssumption DEF SenderInv, TypeInv, Ordinals
<1>3. net \in Seq(protected \cup Originals)
  BY <1>1 DEF FlightInv
<1>4. Len(net) \in Nat /\ DOMAIN net = 1..Len(net)
  BY <1>3, LenProperties
<1>5. \A f \in protected : IsFec(f) /\ f.parity \subseteq sent
  BY <1>1, PacketKinds DEF FlightInv, SenderInv, ParityCoversGroup
<1>6. ASSUME NEW i \in DOMAIN net
      PROVE  /\ net[i].parity \subseteq sent
             /\ IF IsFec(net[i]) THEN net[i] \in protected
                ELSE \E n \in sent : net[i] = Original(n)
  <2>1. net[i] \in protected \cup Originals
    BY <1>3, <1>4, ElementOfSeq
  <2> QED
    BY <1>5, <2>1, PacketKinds DEF Originals
<1> QED
  BY <1>1, <1>2, <1>3, <1>4, <1>5, <1>6

\* Lemma: the path with its first packet gone.
LEMMA FirstGone ==
  ASSUME SearchInv, path = "ordered", NEW i \in DOMAIN net, Arrives(i)
  PROVE  /\ i = 1 /\ 1 \in DOMAIN net /\ DOMAIN net' = 1..(Len(net) - 1)
         /\ \A j \in DOMAIN net' : /\ j + 1 \in DOMAIN net /\ j \in DOMAIN net
                                   /\ 1 < j + 1 /\ net'[j] = net[j + 1]
<1>1. i = 1 /\ net' = [j \in 1..(Len(net) - 1) |->
                         IF j < i THEN net[j] ELSE net[j + 1]]
  BY DEF Arrives
<1>2. Len(net) \in Nat /\ DOMAIN net = 1..Len(net)
  BY InFlight
<1> QED
  BY <1>1, <1>2

\* Lemma: the path with some packet gone.
LEMMA SomeGone ==
  ASSUME SearchInv, NEW i \in DOMAIN net, Arrives(i)
  PROVE  \A x : InNet(x)' => InNet(x)
<1>1. net' = [j \in 1..(Len(net) - 1) |->
                 IF j < i THEN net[j] ELSE net[j + 1]]
  BY DEF Arrives
<1>2. Len(net) \in Nat /\ DOMAIN net = 1..Len(net)
  BY InFlight
<1>3. \A j \in DOMAIN net' : /\ j \in DOMAIN net /\ j + 1 \in DOMAIN net
                             /\ net'[j] = net[j] \/ net'[j] = net[j + 1]
  BY <1>1, <1>2
<1> QED
  BY <1>3 DEF InNet

\* Lemma: the group of the sender after a new packet.
LEMMA DeliverGroup ==
  ASSUME SearchInv, NoReuse => Spans(sender), k # 0,
         NEW n \in Ordinals, \A a \in sent : a < n
  PROVE  LET o == Started(sender)
             s == Protect(o, n)
         IN  /\ o.parity = sender.parity \/ o.parity = {}
             /\ \/ /\ s.parity = o.parity \cup {n}
                   /\ NoReuse => \A a \in o.parity : n - a < MaxBuff
                \/ s = o /\ Len(s.SQArray) < s.k
             /\ NoReuse => Spans(s)
<1> DEFINE o == Started(sender)
           s == Protect(o, n)
<1>1. /\ sender \in Senders /\ Covers(sender) /\ sender.parity \subseteq sent
      /\ sender.k = k /\ sent \subseteq Ordinals /\ Ordinals \subseteq Nat
  BY FecAssumption
     DEF SearchInv, FlightInv, SenderInv, TypeInv, Ordinals
<1>2. /\ o.parity = sender.parity \/ o.parity = {}
      /\ o.SQArray = <<>> \/ o = sender
      /\ Len(o.SQArray) < o.k
  <2>1. CASE Len(sender.SQArray) >= sender.k
    <3>1. o = resetTX(k)
      BY <1>1, <2>1 DEF Started
    <3>2. k \in Nat \ {0}
      BY FecAssumption DEF SearchInv, FlightInv, SenderInv, TypeInv
    <3> QED
      BY <3>1, <3>2, EmptySeq DEF resetTX
  <2>2. CASE ~(Len(sender.SQArray) >= sender.k)
    <3>1. Len(sender.SQArray) \in Nat /\ sender.k \in Nat
      <4>1. sender.SQArray \in Seq(0..(SeqMod - 1))
        BY <1>1 DEF Senders
      <4>2. sender.k \in 0..MaxBuff /\ MaxBuff \in Nat
        BY <1>1, FecAssumption DEF Senders
      <4> QED
        BY <4>1, <4>2, LenProperties
    <3>2. o = sender
      BY <2>2 DEF Started
    <3> QED
      BY <2>2, <3>1, <3>2
  <2> QED
    BY <2>1, <2>2
<1>3. o \in Senders /\ Covers(o) /\ o.parity \subseteq sent
  BY <1>1, StartedCovers
<1>4. NoReuse => Spans(o)
  BY <1>2 DEF Spans
<1>5. CASE ~InReach(o, n)
  BY <1>2, <1>4, <1>5 DEF Protect
<1>6. CASE InReach(o, n)
  <2> DEFINE S == 0..(SeqMod - 1)
  <2>1. s = [o EXCEPT !.SQArray = Append(@, SeqOf(n)),
                      !.mask = @ \cup {diffSQ(o, n)},
                      !.parity = Xor(@, {n}),
                      !.flags = Xor(@, {n})]
    BY <1>6 DEF Protect
  <2>2. Xor(o.parity, {n}) = o.parity \cup {n}
    BY <1>1, <1>3 DEF Xor
  <2>3. s.SQArray = Append(o.SQArray, SeqOf(n)) /\ s.parity = o.parity \cup {n}
    BY <2>1, <2>2, <1>3 DEF Senders
  <2>4. SeqOf(n) \in S /\ o.SQArray \in Seq(S)
    BY <1>3, SeqOfInRange DEF Senders
  <2> HIDE DEF S, s, o
  <2>5. CASE o.SQArray = <<>>
    <3>1. o.parity = {}
      BY <1>3, <2>5 DEF Covers
    <3>2. Head(s.SQArray) = SeqOf(n)
      BY <2>3, <2>4, <2>5
    <3>3. Spans(s)
      BY <1>1, <2>3, <3>1, <3>2, FecAssumption DEF Spans
    <3> QED
      BY <1>2, <2>3, <3>1, <3>3 DEF s, o
  <2>6. CASE o.SQArray # <<>>
    <3>1. Head(s.SQArray) = Head(o.SQArray)
      BY <2>3, <2>4, <2>6, HeadOfAppend
    <3>2. ASSUME NoReuse
          PROVE  Spans(s) /\ \A a \in o.parity : n - a < MaxBuff
      <4>1. PICK h \in o.parity :
              /\ Head(o.SQArray) = SeqOf(h)
              /\ \A a \in o.parity : h <= a /\ a - h < MaxBuff
        BY <1>4, <2>6, <3>2 DEF Spans
      <4>2. SeqOf(n) - SeqOf(h) \in Slots
        BY <1>6, <2>6, <4>1 DEF InReach, diffSQ
      <4>3. h \in Ordinals /\ h < n /\ h \in Nat /\ n \in Nat
        BY <1>1, <1>3, <4>1
      <4>4. n - h < MaxBuff
        <5>1. MaxBuff \in Nat /\ SeqMod \in Nat /\ n < SeqMod
          BY <3>2, SeqOfValue, FecAssumption
        <5>2. \/ SeqOf(n) - SeqOf(h) = n - h
              \/ SeqOf(n) - SeqOf(h) = n - h - SeqMod
          BY <3>2, <4>3, SeqOfDifference
        <5>3. n - h \in Slots \/ n - h - SeqMod \in Slots
          BY <4>2, <5>2
        <5> QED
          BY <4>3, <5>1, <5>3 DEF Slots
      <4>5. \A a \in o.parity : a \in Nat /\ n - a < MaxBuff
        <5>1. \A a \in o.parity : a \in Nat
          BY <1>1, <1>3
        <5>2. MaxBuff \in Nat
          BY FecAssumption
        <5> QED
          BY <4>1, <4>3, <4>4, <5>1, <5>2
      <4>6. \A a \in s.parity : h <= a /\ a - h < MaxBuff
        BY <2>3, <4>1, <4>3, <4>4
      <4> QED
        BY <2>3, <3>1, <4>1, <4>5, <4>6 DEF Spans
    <3> QED
      BY <1>2, <2>3, <3>2 DEF s, o
  <2> QED
    BY <2>5, <2>6
<1> QED
  BY <1>5, <1>6

\* Lemma: insert adds nothing to the buffer but the packet it is given.
LEMMA InsertHeld ==
  ASSUME SearchInv, NEW n \in sent, Insert(Original(n))
  PROVE  \A q \in Held' : q \in Held \/ q = Original(n)
<1> DEFINE p == Original(n)
           d == Distance(p)
<1>1. frame \in [Slots -> Originals \cup {NULL}] /\ sent \subseteq Ordinals
  BY InFlight DEF SearchInv, FlightInv
<1>2. d \in Int /\ MaxBuff \in Nat /\ Slots = 0..(MaxBuff - 1)
  BY <1>1, DistanceType, FecAssumption DEF Slots
<1>3. \/ frame' = frame
      \/ d < 0 /\ frame' = Shifted(p, d)
      \/ frame' = EmptyFrame
      \/ frame' = [frame EXCEPT ![d] = p]
  BY DEF Insert
<1> HIDE DEF p, d
<1>4. ASSUME NEW i \in Slots
      PROVE  \/ frame'[i] = NULL \/ frame'[i] = p
             \/ \E j \in Slots : frame'[i] = frame[j]
  <2>1. CASE d < 0 /\ frame' = Shifted(p, d)
    <3>1. i + d >= 0 => i + d \in Slots
      BY <1>2, <2>1
    <3> QED
      BY <2>1, <3>1 DEF Shifted
  <2>2. CASE frame' = EmptyFrame
    BY <2>2 DEF EmptyFrame
  <2>3. CASE frame' = [frame EXCEPT ![d] = p]
    BY <1>1, <2>3
  <2> QED
    BY <1>3, <2>1, <2>2, <2>3
<1> QED
  BY <1>4 DEF Held, p

\* Lemma: what is freed is no longer held.
LEMMA FreeHeld ==
  ASSUME NEW S, \/ frame' = frame \/ frame' = EmptyFrame
                \/ frame' = FreeSeqs(frame, S)
  PROVE  Held' \subseteq Held
<1>1. \A i \in Slots : frame'[i] = frame[i] \/ frame'[i] = NULL
  BY DEF EmptyFrame, FreeSeqs
<1> QED
  BY <1>1 DEF Held

\* Lemma: the steps that take a packet off the path.
LEMMA PopLine ==
  ASSUME LineInv, SearchInv', UNCHANGED <<senderVars, path>>,
         NEW i \in DOMAIN net, Arrives(i),
         received' \subseteq sent,
         \A n \in sent : Original(n) \in Held' => n \in received',
         path = "ordered" =>
           \A j \in DOMAIN net : 1 < j => Passed(received', net[j])
  PROVE  LineInv'
<1>1. /\ NoReuse' => Spans(sender)' /\ \A f \in protected' : Short(f.parity)
      /\ \A n \in sent' : Original(n) \in Held' => n \in received'
      /\ received' \subseteq sent'
  BY DEF LineInv, senderVars, NoReuse, Spans, SeqOf, Short, Original
<1>2. ASSUME path' = "ordered"
      PROVE  /\ \A a, b \in DOMAIN net' : a < b => Precedes(net'[a], net'[b])
             /\ \A a \in DOMAIN net' : Passed(received', net'[a])
             /\ \A a \in DOMAIN net' :
                  IsFec(net'[a]) => FollowedBy(net'[a].parity, sender'.parity)
  <2>1. path = "ordered" /\ SearchInv /\ sender' = sender
    BY <1>2 DEF LineInv, senderVars
  <2>2. /\ Len(net) \in Nat /\ DOMAIN net = 1..Len(net)
        /\ DOMAIN net' = 1..(Len(net) - 1)
        /\ \A j \in DOMAIN net' : /\ j + 1 \in DOMAIN net /\ j \in DOMAIN net
                                  /\ 1 < j + 1 /\ net'[j] = net[j + 1]
    BY <2>1, FirstGone, InFlight
  <2>3. ASSUME NEW a \in DOMAIN net', NEW b \in DOMAIN net', a < b
        PROVE  Precedes(net'[a], net'[b])
    <3>1. a + 1 < b + 1
      BY <2>2, <2>3
    <3> QED
      BY <2>1, <2>2, <3>1 DEF LineInv
  <2>4. ASSUME NEW a \in DOMAIN net' PROVE Passed(received', net'[a])
    BY <2>1, <2>2
  <2> QED
    BY <2>1, <2>2, <2>3, <2>4 DEF LineInv
<1> QED
  BY <1>1, <1>2 DEF LineInv

\* Lemma: the path after deliver.
LEMMA DeliverNet ==
  ASSUME SearchInv, NEW n, Deliver(n)
  PROVE  LET s == Protect(Started(sender), n)
             f == FecPacket(s, n)
             l == Len(net)
         IN  /\ \A j \in DOMAIN net : j \in DOMAIN net' /\ net'[j] = net[j]
             /\ l + 1 \in DOMAIN net' /\ net'[l + 1] = Original(n)
             /\ \/ /\ k = 0 /\ UNCHANGED <<sender, protected>>
                   /\ DOMAIN net' = 1..(l + 1)
                \/ /\ k # 0 /\ sender' = s /\ Len(s.SQArray) < s.k
                   /\ protected' = protected
                   /\ DOMAIN net' = 1..(l + 1)
                \/ /\ k # 0 /\ sender' = AfterFec(s) /\ ~(Len(s.SQArray) < s.k)
                   /\ protected' = protected \cup {f}
                   /\ DOMAIN net' = 1..(l + 2) /\ net'[l + 2] = f
<1> DEFINE s == Protect(Started(sender), n)
           f == FecPacket(s, n)
           l == Len(net)
           S == (protected \cup Originals) \cup {Original(n), f}
           q == Append(net, Original(n))
<1>1. \/ /\ k = 0 /\ UNCHANGED <<sender, protected>>
         /\ net' = Append(net, Original(n))
      \/ /\ k # 0 /\ sender' = s /\ Len(s.SQArray) < s.k
         /\ protected' = protected
         /\ net' = Append(net, Original(n))
      \/ /\ k # 0 /\ sender' = AfterFec(s) /\ ~(Len(s.SQArray) < s.k)
         /\ protected' = protected \cup {f}
         /\ net' = Append(net, Original(n)) \o <<f>>
  BY DeliverCases DEF SearchInv
<1>2. net \in Seq(protected \cup Originals)
  BY DEF SearchInv, FlightInv
<1>3. net \in Seq(S) /\ Original(n) \in S /\ f \in S
  BY <1>2, SeqMonotonic
<1> HIDE DEF S, f, s
<1>4. /\ q \in Seq(S) /\ Len(q) = l + 1 /\ l \in Nat
      /\ \A j \in 1..l : q[j] = net[j] /\ q[l + 1] = Original(n)
      /\ DOMAIN net = 1..l /\ DOMAIN q = 1..(l + 1)
  <2>1. /\ q \in Seq(S) /\ Len(q) = l + 1 /\ l \in Nat
        /\ \A j \in 1..l : q[j] = net[j]
        /\ q[l + 1] = Original(n)
    BY <1>3, AppendProperties, LenProperties
  <2>2. DOMAIN net = 1..l /\ DOMAIN q = 1..(l + 1)
    BY <1>3, <2>1, LenProperties
  <2> QED
    BY <2>1, <2>2
<1>5. q[l + 1] = Original(n)
  BY <1>3, AppendProperties
<1> HIDE DEF q, l
<1>6. CASE net' = q
  BY <1>1, <1>4, <1>5, <1>6 DEF q, l, s, f
<1>7. CASE k # 0 /\ sender' = AfterFec(s) /\ ~(Len(s.SQArray) < s.k)
           /\ protected' = protected \cup {f} /\ net' = q \o <<f>>
  <2>1. net' = Append(q, f)
    BY <1>3, <1>4, <1>7, AppendIsConcat
  <2>2. /\ Append(q, f) \in Seq(S) /\ Len(Append(q, f)) = l + 2
        /\ \A j \in 1..(l + 1) : Append(q, f)[j] = q[j]
        /\ Append(q, f)[l + 2] = f
    <3>1. /\ Append(q, f) \in Seq(S) /\ Len(Append(q, f)) = Len(q) + 1
          /\ \A j \in 1..Len(q) : Append(q, f)[j] = q[j]
          /\ Append(q, f)[Len(q) + 1] = f
      BY <1>3, <1>4, AppendProperties
    <3>2. (l + 1) + 1 = l + 2
      BY <1>4
    <3> QED
      BY <1>4, <3>1, <3>2
  <2>3. DOMAIN net' = 1..(l + 2)
    BY <2>1, <2>2, LenProperties
  <2>4. \A j \in DOMAIN net : j \in DOMAIN net' /\ net'[j] = net[j]
    BY <1>4, <2>1, <2>2, <2>3
  <2>5. l + 1 \in DOMAIN net' /\ net'[l + 1] = Original(n)
    BY <1>4, <1>5, <2>1, <2>2, <2>3
  <2>6. net'[l + 2] = f
    BY <2>1, <2>2
  <2> QED
    BY <1>7, <2>3, <2>4, <2>5, <2>6 DEF l, s, f
<1> QED
  BY <1>1, <1>6, <1>7 DEF q

\* The groups of s and t are the same.
SameGroup(s, t) == t.parity = s.parity /\ t.SQArray = s.SQArray

\* Lemma: what deliver leaves of the sender, a parity packet sent or not.
LEMMA DeliverSender ==
  ASSUME SearchInv, NEW n \in Ordinals, n \notin sent
  PROVE  LET s == Protect(Started(sender), n)
         IN  SameGroup(s, s) /\ SameGroup(s, AfterFec(s))
<1> DEFINE s == Protect(Started(sender), n)
<1>1. /\ sender \in Senders /\ Covers(sender) /\ sender.parity \subseteq sent
  BY DEF SearchInv, FlightInv, SenderInv, TypeInv
<1>2. /\ Started(sender) \in Senders /\ Covers(Started(sender))
      /\ n \notin Started(sender).parity
  BY <1>1, StartedCovers
<1>3. s \in Senders
  BY <1>2, ProtectCovers
<1> QED
  BY <1>3, AfterFecKeeps DEF SameGroup

\* Lemma: a new packet, and its parity packet, go behind what is in flight.
LEMMA DeliverLine ==
  ASSUME LineInv, SearchInv', NEW n \in Ordinals, next <= n, Deliver(n)
  PROVE  LineInv'
<1> DEFINE o == Started(sender)
           s == Protect(o, n)
           f == FecPacket(s, n)
           l == Len(net)
<1>1. /\ SearchInv
      /\ NoReuse => Spans(sender)
      /\ received \subseteq sent
  BY DEF LineInv
<1>2. /\ sent \subseteq Nat /\ next \in Nat /\ n \in Nat
      /\ l \in Nat /\ DOMAIN net = 1..l
      /\ \A i \in DOMAIN net : net[i].parity \subseteq sent
      /\ \A a \in sent : a < n
  <2>1. /\ sent \subseteq Nat /\ next \in Nat
        /\ l \in Nat /\ DOMAIN net = 1..l
        /\ \A i \in DOMAIN net : net[i].parity \subseteq sent
        /\ \A a \in sent : a < next
    BY <1>1, InFlight
  <2>2. n \in Nat
    BY FecAssumption DEF Ordinals
  <2> QED
    BY <2>1, <2>2
<1>3. k # 0 => /\ o.parity = sender.parity \/ o.parity = {}
               /\ \/ /\ s.parity = o.parity \cup {n}
                     /\ NoReuse => \A a \in o.parity : n - a < MaxBuff
                  \/ s = o /\ Len(s.SQArray) < s.k
               /\ NoReuse => Spans(s)
  BY <1>1, <1>2, DeliverGroup
<1>4. f.parity = s.parity /\ IsFec(f)
  BY DEF FecPacket, IsFec
<1>5. ~IsFec(Original(n)) /\ Original(n).parity = {n}
  BY PacketKinds
<1>6. /\ \A j \in DOMAIN net : j \in DOMAIN net' /\ net'[j] = net[j]
      /\ net'[l + 1] = Original(n)
      /\ \/ /\ UNCHANGED <<sender, protected>>
            /\ DOMAIN net' = 1..(l + 1)
         \/ /\ k # 0 /\ SameGroup(s, sender')
            /\ protected' = protected
            /\ DOMAIN net' = 1..(l + 1)
         \/ /\ k # 0 /\ SameGroup(s, sender') /\ ~(Len(s.SQArray) < s.k)
            /\ protected' = protected \cup {f}
            /\ DOMAIN net' = 1..(l + 2) /\ net'[l + 2] = f
  <2>1. n \notin sent
    BY <1>2
  <2> QED
    BY <1>1, <2>1, DeliverNet, DeliverSender
<1>7. UNCHANGED <<path, frame, received>> /\ sent' = sent \cup {n}
  BY DEF Deliver, receiverVars
<1> HIDE DEF l, s, o, f
<1>8. /\ \/ sender' = sender
         \/ k # 0 /\ SameGroup(s, sender')
      /\ \A g \in protected' :
           \/ g \in protected
           \/ g = f /\ k # 0 /\ s.parity = o.parity \cup {n} /\ SameGroup(s, sender')
  BY <1>3, <1>6
<1>9. NoReuse => Spans(sender)' /\ \A g \in protected' : Short(g.parity)
  <2>1. NoReuse => Spans(sender')
    BY <1>1, <1>3, <1>8 DEF Spans, SameGroup
  <2>2. ASSUME NoReuse, NEW g \in protected' PROVE Short(g.parity)
    <3>1. CASE g \in protected
      BY <2>2, <3>1 DEF LineInv
    <3>2. CASE g = f /\ k # 0 /\ s.parity = o.parity \cup {n} /\ SameGroup(s, sender')
      <4>1. PICK h \in s.parity : \A a \in s.parity : h <= a /\ a - h < MaxBuff
        <5>1. Spans(s) /\ sender' \in Senders /\ Covers(sender)'
          BY <1>3, <2>2, <3>2 
             DEF SearchInv, FlightInv, SenderInv, TypeInv, Senders, Slots,
                 Ordinals
        <5>2. s.SQArray # <<>>
          BY <3>2, <5>1 DEF Covers, SameGroup
        <5> QED
          BY <5>1, <5>2 DEF Spans
      <4>2. s.parity \subseteq Nat
        <5>1. o.parity \subseteq sender.parity /\ sender.parity \subseteq sent
          BY <1>1, <1>3, <3>2 DEF SearchInv, FlightInv, SenderInv
        <5> QED
          BY <1>2, <3>2, <5>1
      <4>3. MaxBuff \in Nat
        BY FecAssumption
      <4>4. \A a, b \in s.parity : a - b < MaxBuff
        BY <4>1, <4>2, <4>3
      <4> QED
        BY <1>4, <3>2, <4>4 DEF Short
    <3> QED
      BY <1>8, <3>1, <3>2
  <2> QED
    BY <2>1, <2>2 DEF Spans, NoReuse, SeqOf
<1>10. received' \subseteq sent'
  BY <1>1, <1>7
<1>11. \A m \in sent' : Original(m) \in Held' => m \in received'
  <2>1. Held' = Held
    BY <1>7 DEF Held
  <2>2. \A m : Original(m) \in Held => m \in sent
    BY <1>1, HeldOriginals, InFlight DEF SearchInv, FlightInv
  <2> QED
    BY <1>7, <2>1, <2>2 DEF LineInv
<1>12. ASSUME path = "ordered"
       PROVE  /\ \A i, j \in DOMAIN net' : i < j => Precedes(net'[i], net'[j])
              /\ \A i \in DOMAIN net' : Passed(received', net'[i])
              /\ \A i \in DOMAIN net' :
                   IsFec(net'[i]) => FollowedBy(net'[i].parity, sender'.parity)
  <2>1. ASSUME NEW P \in SUBSET sent
        PROVE  /\ Below(P, {n}) /\ n \notin P
               /\ n \in f.parity => Reaches(P, f.parity)
               /\ FollowedBy(P, sender.parity) /\ k # 0 =>
                    FollowedBy(P, s.parity)
    <3>1. \A a \in P : a \in Nat /\ a < n
      BY <1>2
    <3>2. Below(P, {n}) /\ n \notin P
      BY <1>2, <3>1 DEF Below
    <3>3. n \in f.parity => Reaches(P, f.parity)
      BY <1>2, <3>1 DEF Reaches
    <3>4. ASSUME k # 0, FollowedBy(P, sender.parity)
          PROVE  FollowedBy(P, s.parity)
      <4>1. FollowedBy(P, o.parity)
        BY <1>3, <3>4 DEF FollowedBy, Below
      <4>2. FollowedBy(P, o.parity \cup {n})
        BY <3>2, <4>1 DEF FollowedBy, Below
      <4> QED
        BY <1>3, <3>4, <4>1, <4>2
    <3> QED
      BY <3>2, <3>3, <3>4
  <2>2. \A i \in DOMAIN net' :
          \/ i \in DOMAIN net
          \/ i = l + 1 /\ l + 1 \notin DOMAIN net
          \/ /\ i = l + 2 /\ net'[i] = f /\ SameGroup(s, sender') /\ k # 0
             /\ s.parity = o.parity \cup {n} /\ l + 2 \notin DOMAIN net
    BY <1>2, <1>3, <1>6
  <2>3. ASSUME NEW i \in DOMAIN net'
        PROVE  /\ Passed(received', net'[i])
               /\ IsFec(net'[i]) => FollowedBy(net'[i].parity, sender'.parity)
    <3>1. CASE i \in DOMAIN net
      <4>1. /\ net'[i] = net[i] /\ Passed(received, net[i])
            /\ IsFec(net[i]) => FollowedBy(net[i].parity, sender.parity)
            /\ net[i].parity \subseteq sent
        BY <1>2, <1>6, <1>12, <3>1 DEF LineInv
      <4> QED
        BY <1>7, <1>8, <2>1, <4>1 DEF SameGroup
    <3>2. CASE i = l + 1
      <4>1. Below(received, {n})
        BY <1>1, <2>1
      <4> QED
        BY <1>5, <1>6, <1>7, <3>2, <4>1 DEF Passed
    <3>3. CASE net'[i] = f /\ SameGroup(s, sender') /\ s.parity = o.parity \cup {n}
      <4>1. n \in f.parity
        BY <1>4, <3>3
      <4>2. Reaches(received, f.parity)
        BY <1>1, <2>1, <4>1
      <4> QED
        BY <1>4, <1>7, <3>3, <4>2 DEF Passed, FollowedBy, SameGroup
    <3> QED
      BY <2>2, <3>1, <3>2, <3>3
  <2>4. ASSUME NEW i \in DOMAIN net', NEW j \in DOMAIN net', i < j
        PROVE  Precedes(net'[i], net'[j])
    <3>1. CASE j \in DOMAIN net
      <4>1. i \in DOMAIN net
        BY <1>2, <1>6, <2>4, <3>1
      <4> QED
        BY <1>6, <1>12, <2>4, <3>1, <4>1 DEF LineInv
    <3>2. CASE j = l + 1
      <4>1. i \in DOMAIN net
        BY <1>2, <1>6, <2>4, <3>2
      <4>2. Below(net[i].parity, {n})
        BY <1>2, <2>1, <4>1
      <4> QED
        BY <1>5, <1>6, <3>2, <4>1, <4>2 DEF Precedes
    <3>3. CASE /\ j = l + 2 /\ net'[j] = f /\ SameGroup(s, sender') /\ k # 0
               /\ s.parity = o.parity \cup {n}
      <4>1. n \in f.parity
        BY <1>4, <3>3
      <4>2. CASE i \in DOMAIN net
        <5>1. /\ net[i].parity \subseteq sent
              /\ IsFec(net[i]) => FollowedBy(net[i].parity, sender.parity)
          BY <1>2, <1>12, <4>2 DEF LineInv
        <5>2. /\ Reaches(net[i].parity, f.parity) /\ n \notin net[i].parity
              /\ IsFec(net[i]) => FollowedBy(net[i].parity, f.parity)
          BY <1>4, <2>1, <3>3, <4>1, <5>1
        <5> QED
          BY <1>4, <1>6, <3>3, <4>1, <4>2, <5>2 DEF Precedes
      <4>3. CASE i = l + 1
        <5>1. Reaches({n}, f.parity)
          BY <1>2, <4>1 DEF Reaches
        <5>2. /\ net'[i] = Original(n) /\ net'[j] = f
              /\ IsFec(net'[j]) /\ ~IsFec(net'[i]) /\ net'[i].parity = {n}
          BY <1>4, <1>5, <1>6, <3>3, <4>3
        <5> QED
          BY <3>3, <5>1, <5>2 DEF Precedes
      <4>4. i \in DOMAIN net \/ i = l + 1
        BY <1>2, <2>2, <2>4, <3>3
      <4> QED
        BY <4>2, <4>3, <4>4
    <3> QED
      BY <2>2, <3>1, <3>2, <3>3
  <2> QED
    BY <2>3, <2>4
<1> QED
  BY <1>7, <1>9, <1>10, <1>11, <1>12 DEF LineInv

\* Lemma: the steps that change the sender's group, but not what was sent.
LEMMA SenderLine ==
  ASSUME LineInv, SearchInv',
         \/ UNCHANGED sender
         \/ \E size : sender' = resetTX(size)
         \/ \E size : sender' = [sender EXCEPT !.k = size],
         UNCHANGED <<sent, protected, path, net, frame, received>>
  PROVE  LineInv'
<1>1. sender \in Senders
  BY DEF LineInv, SearchInv, FlightInv, SenderInv, TypeInv
<1>2. \/ sender'.SQArray = <<>> /\ sender'.parity = {}
      \/ sender'.SQArray = sender.SQArray /\ sender'.parity = sender.parity
  BY <1>1 DEF resetTX, Senders
<1>3. Spans(sender) => Spans(sender')
  BY <1>2 DEF Spans
<1>4. \A P : FollowedBy(P, sender.parity) => FollowedBy(P, sender'.parity)
  BY <1>2 DEF FollowedBy, Below
<1>5. Held' = Held
  BY DEF Held
<1>6. /\ NoReuse => Spans(sender')
      /\ NoReuse => \A f \in protected' : Short(f.parity)
      /\ received' \subseteq sent'
      /\ \A n \in sent' : Original(n) \in Held' => n \in received'
  BY <1>3, <1>5 DEF LineInv
<1>7. path' = "ordered" =>
        /\ \A i, j \in DOMAIN net' : i < j => Precedes(net'[i], net'[j])
        /\ \A i \in DOMAIN net' : Passed(received', net'[i])
        /\ \A i \in DOMAIN net' :
             IsFec(net'[i]) => FollowedBy(net'[i].parity, sender'.parity)
  BY <1>4 DEF LineInv
<1> QED
  BY <1>6, <1>7 DEF LineInv

\* Lemma: what a packet that arrives first says of those behind it.
LEMMA PassedByNext ==
  ASSUME LineInv, path = "ordered", 1 \in DOMAIN net, NEW j \in DOMAIN net,
         1 < j, NEW R, R \subseteq received \cup net[1].parity, ~IsFec(net[1])
  PROVE  Passed(R, net[j])
<1>1. Precedes(net[1], net[j]) /\ Passed(received, net[j])
  BY DEF LineInv
<1> QED
  BY <1>1 DEF Precedes, Passed, Reaches, Below

\* The step of the induction, by action.
LEMMA NextLine == ASSUME LineInv, [Next]_vars PROVE LineInv'
<1>1. SearchInv /\ SearchInv'
  BY NextSearch DEF LineInv
<1>2. ASSUME NEW size \in GroupSizes, SetFecParams(size) PROVE LineInv'
  <2>1. /\ sender' = sender \/ sender' = setK(sender, size)
        /\ UNCHANGED <<sent, protected, path, net, frame, received>>
    BY <1>2 DEF SetFecParams, receiverVars
  <2> QED
    BY <1>1, <2>1, SenderLine DEF setK
<1>3. CASE DelRTPFec
  BY <1>1, <1>3, SenderLine DEF DelRTPFec, receiverVars
<1>4. ASSUME NEW step \in Steps, next + step - 1 <= MaxOrdinal,
             Deliver(next + step - 1)
      PROVE  LineInv'
  <2> DEFINE n == next + step - 1
  <2>1. step \in Nat \ {0} /\ next \in Nat /\ MaxOrdinal \in Nat
    BY <1>1, InFlight, FecAssumption
  <2>2. n \in Ordinals /\ next <= n /\ Deliver(n)
    BY <1>4, <2>1 DEF Ordinals
  <2> HIDE DEF n
  <2> QED
    BY <1>1, <2>2, DeliverLine
<1>5. ASSUME NEW i \in DOMAIN net, Arrives(i),
             UNCHANGED <<senderVars, path, received>>, Held' \subseteq Held
      PROVE  LineInv'
  <2>1. path = "ordered" =>
          \A j \in DOMAIN net : 1 < j => Passed(received', net[j])
    BY <1>5 DEF LineInv
  <2>2. /\ received' \subseteq sent
        /\ \A n \in sent : Original(n) \in Held' => n \in received'
    BY <1>5 DEF LineInv
  <2> QED
    BY <1>1, <1>5, <2>1, <2>2, PopLine
<1>6. ASSUME NEW i \in DOMAIN net, Lose(i) \/ ArriveFirst(i) PROVE LineInv'
  BY <1>5, <1>6 DEF Lose, ArriveFirst, receiverVars, Held
<1>7. ASSUME NEW i \in DOMAIN net, ArriveData(i) PROVE LineInv'
  <2>1. /\ ~IsFec(net[i]) /\ Arrives(i) /\ UNCHANGED <<senderVars, path>>
        /\ received' = received \cup net[i].parity
        /\ frame' = frame \/ Insert(net[i])
    BY <1>7 DEF ArriveData
  <2>2. PICK n \in sent : net[i] = Original(n)
    BY <1>1, <2>1, InFlight
  <2>3. received' = received \cup {n}
    BY <2>1, <2>2, PacketKinds
  <2>4. \A q \in Held' : q \in Held \/ q = Original(n)
    <3>1. CASE frame' = frame
      BY <3>1 DEF Held
    <3>2. CASE Insert(net[i])
      BY <1>1, <2>2, <3>2, InsertHeld
    <3> QED
      BY <2>1, <3>1, <3>2
  <2>5. received' \subseteq sent
    BY <2>3 DEF LineInv
  <2>6. \A m \in sent : Original(m) \in Held' => m \in received'
    BY <2>3, <2>4, PacketKinds DEF LineInv
  <2>7. ASSUME path = "ordered"
        PROVE  \A j \in DOMAIN net : 1 < j => Passed(received', net[j])
    <3>1. i = 1 /\ 1 \in DOMAIN net
      BY <1>1, <2>1, <2>7, FirstGone
    <3> QED
      BY <2>1, <2>7, <3>1, PassedByNext
  <2> QED
    BY <1>1, <2>1, <2>5, <2>6, <2>7, PopLine
<1>8. ASSUME NEW i \in DOMAIN net, ArriveFec(i) PROVE LineInv'
  <2>1. /\ Arrives(i) /\ UNCHANGED <<senderVars, path, received>>
        /\ \/ frame' = frame \/ frame' = EmptyFrame
           \/ frame' = FreeSeqs(frame, Group(net[i]))
    BY <1>8 DEF ArriveFec, GiveUp, Search
  <2>2. Held' \subseteq Held
    BY <2>1, FreeHeld
  <2> QED
    BY <1>5, <2>1, <2>2
<1>9. CASE UNCHANGED vars
  BY <1>1, <1>9, SenderLine DEF vars, senderVars, receiverVars
<1> QED
  BY <1>2, <1>3, <1>4, <1>6, <1>7, <1>8, <1>9
     DEF Next, Source, Network, Receiver

\* Its base.
LEMMA InitLine == ASSUME Init PROVE LineInv
<1>1. /\ sender = resetTX(k) /\ protected = {} /\ received = {} /\ sent = {}
      /\ net = <<>>
  BY DEF Init
<1>2. DOMAIN net = {} /\ sender.SQArray = <<>>
  BY <1>1 DEF resetTX
<1> QED
  BY <1>1, <1>2, InitSearch DEF LineInv, Spans

----------------------------------------------------------------------------
(* The packets of a group until its parity packet arrives *)

Orderly == path = "ordered" /\ NoReuse /\ NoSingles

\* Packet a is neither held nor on its way.
Gone(a) == Original(a) \notin Held /\ ~InNet(Original(a))

\* Parity packet g has been dealt with, and so have the packets in it.
Over(g) == ~InNet(g) /\ \A a \in g.parity : Gone(a)

\* A group that was opened again, after its parity packet had arrived.
Reopened(P) == \E g \in protected : g.parity \subseteq P /\ Over(g)

\* A group whose parity packet is on its way or may still be sent.
Pending(P) ==
  \/ \E i \in DOMAIN net : IsFec(net[i]) /\ P = net[i].parity
  \/ P = sender.parity /\ \A a \in P : next - a < MaxBuff

\* An active receiver holds what has arrived of P.
Kept(P) == active => \A r \in P \cap received : Original(r) \in Held

\* Packet y is in slot j at its distance from packet h, or so far behind it
\* that no packet y is grouped with can take the slot.
InPlace(y, h, j) == y = h + j \/ y + MaxBuff <= h + j

\* The packets of P that are in the buffer are in their place from the first.
Placed(P) ==
  \A j \in Slots, y \in P :
    frame[j] = Original(y) =>
      \E h \in sent : frame[0] = Original(h) /\ InPlace(y, h, j)

KeptInv ==
  /\ LineInv
  /\ ~active => frame = EmptyFrame
  /\ Orderly =>
       \A P \in SUBSET Ordinals :
         Pending(P) => Reopened(P) \/ (Kept(P) /\ Placed(P))

\* Lemma: what is held was sent, and is not the empty slot.
LEMMA HeldSlots ==
  ASSUME SearchInv
  PROVE  /\ \A n \in sent : NULL # Original(n)
         /\ \A n \in sent : Original(n) \in Held
              <=> \E j \in Slots : frame[j] = Original(n)
         /\ \A j \in Slots : frame[j] = NULL
                            \/ \E n \in sent : frame[j] = Original(n)
         /\ 0 \in Slots /\ \A j \in Slots : j \in Nat /\ j < MaxBuff
         /\ MaxBuff \in Nat /\ frame \in [Slots -> Originals \cup {NULL}]
<1>1. frame \in [Slots -> Originals \cup {NULL}] /\ sent \subseteq Ordinals
  BY InFlight DEF SearchInv, FlightInv
<1>2. \A n \in sent : NULL # Original(n)
  BY <1>1, NullAssumption
<1>3. \A j \in Slots : frame[j] = NULL \/ \E n \in sent : frame[j] = Original(n)
  BY <1>1 DEF Originals
<1>4. /\ 0 \in Slots /\ \A j \in Slots : j \in Nat /\ j < MaxBuff
      /\ MaxBuff \in Nat
  BY FecAssumption DEF Slots
<1> QED
  BY <1>1, <1>2, <1>3, <1>4 DEF Held

\* Lemma: a parity packet that arrives ends every group that packets have
\* arrived of: those it is part of are now opened again, the others have not
\* begun.
LEMMA FecEndsGroups ==
  ASSUME LineInv, Orderly, NEW i \in DOMAIN net, NEW f, net[i] = f, IsFec(f),
         Arrives(i), UNCHANGED <<senderVars, path, received>>,
         \A a \in f.parity : Original(a) \notin Held',
         NEW P, Pending(P)'
  PROVE  Reopened(P)' \/ P \cap received = {}
<1>1. SearchInv /\ path = "ordered" /\ NoReuse /\ NoSingles
  BY DEF LineInv, Orderly
<1>2. /\ i = 1 /\ 1 \in DOMAIN net
      /\ \A j \in DOMAIN net' : /\ j + 1 \in DOMAIN net /\ 1 < j + 1
                                /\ net'[j] = net[j + 1]
                                /\ Precedes(f, net'[j])
  BY <1>1, FirstGone DEF LineInv
<1>3. f \in protected /\ f.parity # {} /\ Reaches(received, f.parity)
  <2>1. f \in protected
    BY <1>1, InFlight
  <2>2. f.parity # {}
    BY <1>1, <2>1 DEF SearchInv
  <2>3. Reaches(received, f.parity)
    BY <1>1 DEF LineInv, Passed
  <2> QED
    BY <2>1, <2>2, <2>3
<1>4. f.parity \subseteq Nat /\ received \subseteq Nat
  BY <1>1, <1>3, InFlight DEF LineInv
<1>5. FollowedBy(f.parity, P)
  <2>1. CASE \E j \in DOMAIN net' : IsFec(net'[j]) /\ P = net'[j].parity
    BY <1>2, <2>1 DEF Precedes
  <2>2. CASE P = sender'.parity
    BY <1>1, <2>2 DEF LineInv, senderVars
  <2> QED
    BY <2>1, <2>2 DEF Pending
<1>6. CASE f.parity \subseteq P
  <2>1. ~(\E j \in DOMAIN net' : net'[j] = f)
    <3> SUFFICES ASSUME NEW j \in DOMAIN net', net'[j] = f PROVE FALSE
      OBVIOUS
    <3> QED
      BY <1>2 DEF Precedes
  <2>2. ASSUME NEW a \in f.parity
        PROVE  ~(\E j \in DOMAIN net' : net'[j] = Original(a))
    <3> SUFFICES ASSUME NEW j \in DOMAIN net', net'[j] = Original(a)
                 PROVE  FALSE
      OBVIOUS
    <3>1. /\ Precedes(f, Original(a)) /\ ~IsFec(Original(a))
          /\ Original(a).parity = {a}
      BY <1>2, PacketKinds
    <3> QED
      BY <1>4, <3>1 DEF Precedes, Below
  <2>3. f \in protected'
    BY <1>3 DEF senderVars
  <2>4. Over(f)'
    <3>1. \A a \in f.parity : Original(a) \notin Held'
      OBVIOUS
    <3> QED
      BY <2>1, <2>2, <3>1 DEF Over, Gone, InNet, Original, SeqOf
  <2> QED
    BY <1>6, <2>3, <2>4 DEF Reopened
<1>7. CASE Below(f.parity, P)
  <2> SUFFICES ASSUME NEW r \in P \cap received PROVE FALSE
    OBVIOUS
  <2>1. PICK b \in f.parity : r <= b
    BY <1>3 DEF Reaches
  <2>2. b < r
    BY <1>7, <2>1 DEF Below
  <2>3. r \in Nat /\ b \in Nat
    BY <1>4
  <2> QED
    BY <2>1, <2>2, <2>3
<1> QED
  BY <1>5, <1>6, <1>7 DEF FollowedBy

\* Lemma: when a packet is taken off the path, no group becomes pending.
LEMMA PendingShrinks ==
  ASSUME SearchInv, NEW i \in DOMAIN net, Arrives(i), UNCHANGED senderVars,
         NEW P, Pending(P)'
  PROVE  Pending(P)
<1>1. net' = [j \in 1..(Len(net) - 1) |->
                 IF j < i THEN net[j] ELSE net[j + 1]]
  BY DEF Arrives
<1>2. Len(net) \in Nat /\ DOMAIN net = 1..Len(net)
  BY InFlight
<1>3. \A j \in DOMAIN net' : \E m \in DOMAIN net : net'[j] = net[m]
  BY <1>1, <1>2
<1>4. CASE \E j \in DOMAIN net' : IsFec(net'[j]) /\ P = net'[j].parity
  BY <1>3, <1>4 DEF Pending
<1>5. CASE P = sender'.parity /\ \A a \in P : next' - a < MaxBuff
  BY <1>5 DEF Pending, senderVars
<1> QED
  BY <1>4, <1>5 DEF Pending

\* Lemma: and what was opened again stays so, if only packets from the path
\* come into the buffer.
LEMMA ReopenedStays ==
  ASSUME SearchInv, NEW i \in DOMAIN net, Arrives(i), UNCHANGED senderVars,
         \A q \in Held' : q \in Held \/ q = net[i],
         NEW P, Reopened(P)
  PROVE  Reopened(P)'
<1>1. PICK g \in protected : g.parity \subseteq P /\ Over(g)
  BY DEF Reopened
<1>2. \A x : ~InNet(x) => ~(\E j \in DOMAIN net' : net'[j] = x)
  <2>1. net' = [j \in 1..(Len(net) - 1) |->
                   IF j < i THEN net[j] ELSE net[j + 1]]
    BY DEF Arrives
  <2>2. Len(net) \in Nat /\ DOMAIN net = 1..Len(net)
    BY InFlight
  <2> QED
    BY <2>1, <2>2 DEF InNet
<1>3. ASSUME NEW a \in g.parity PROVE Original(a) \notin Held'
  BY <1>1, <1>3 DEF Over, Gone, InNet
<1>4. Over(g)'
  BY <1>1, <1>2, <1>3 DEF Over, Gone, InNet, Original, SeqOf
<1> QED
  BY <1>1, <1>4 DEF Reopened, senderVars

\* Lemma: the packets of a pending group are in the reach of the mask from
\* the packet that arrives.
LEMMA PendingNear ==
  ASSUME LineInv, Orderly, NEW i \in DOMAIN net, NEW n \in sent,
         net[i] = Original(n), Arrives(i), UNCHANGED <<senderVars, path>>,
         NEW P \in SUBSET Ordinals, Pending(P)', NEW y \in P
  PROVE  n - y < MaxBuff
<1>1. SearchInv /\ path = "ordered" /\ NoReuse
  BY DEF LineInv, Orderly
<1>2. y \in Nat /\ n \in Nat /\ MaxBuff \in Nat /\ next \in Nat /\ n < next
  BY <1>1, InFlight, FecAssumption DEF Ordinals
<1>3. ASSUME NEW j \in DOMAIN net', IsFec(net'[j]), P = net'[j].parity
      PROVE  n - y < MaxBuff
  <2>1. /\ i = 1 /\ j + 1 \in DOMAIN net /\ 1 < j + 1 /\ 1 \in DOMAIN net
        /\ net'[j] = net[j + 1]
    BY <1>1, FirstGone
  <2>2. Precedes(Original(n), net'[j])
    BY <1>1, <2>1 DEF LineInv
  <2>3. PICK b \in P : n <= b
    BY <1>3, <2>2, PacketKinds DEF Precedes, Reaches
  <2>4. b - y < MaxBuff
    <3>1. net'[j] \in protected
      BY <1>1, <1>3, <2>1, InFlight
    <3> QED
      BY <1>1, <1>3, <3>1 DEF LineInv, Short
  <2>5. b \in Nat
    BY FecAssumption DEF Ordinals
  <2> QED
    BY <1>2, <2>3, <2>4, <2>5
<1>4. CASE P = sender'.parity /\ \A a \in P : next' - a < MaxBuff
  BY <1>2, <1>4 DEF senderVars
<1> QED
  BY <1>3, <1>4 DEF Pending

\* Lemma: how far a packet is from an earlier one in the first slot, unless
\* it is so far that it seems to be before that.
LEMMA DistanceOf ==
  ASSUME NoReuse, NEW h \in Ordinals, NEW n \in Ordinals, h < n,
         frame[0] = Original(h), frame[0] # NULL
  PROVE  LET d == Distance(Original(n))
         IN  d = n - h \/ (n - h > MaxDiff /\ d \in Int /\ d < 0 - MaxBuff)
<1> DEFINE e == SeqOf(n) - SeqOf(h)
           d == Distance(Original(n))
<1>1. /\ SeqMod \in Nat /\ MaxDiff \in Nat /\ 2 * MaxDiff < SeqMod
      /\ MaxBuff \in Nat /\ MaxBuff <= MaxDiff
  BY FecAssumption
<1>2. h \in Nat /\ n \in Nat /\ n < SeqMod - MaxBuff
  BY SeqOfValue
<1>3. e = n - h \/ e = n - h - SeqMod
  BY <1>2, SeqOfDifference
<1>4. Original(n).seq = SeqOf(n) /\ frame[0].seq = SeqOf(h)
  BY PacketKinds
<1>5. d = IF e > MaxDiff THEN e - SeqMod
          ELSE IF e < -MaxDiff THEN e + SeqMod ELSE e
  <2>1. e \in Int
    <3>1. n - h \in Int /\ n - h - SeqMod \in Int
      BY <1>1, <1>2
    <3> QED
      BY <1>3, <3>1
  <2>2. Original(n).seq - frame[0].seq = e
    BY <1>4
  <2> HIDE DEF e
  <2> QED
    BY <1>1, <2>1, <2>2 DEF Distance
<1> HIDE DEF e, d
<1>6. d = n - h \/ (n - h > MaxDiff /\ d \in Int /\ d < 0 - MaxBuff)
  <2>1. CASE e = n - h
    <3>1. ~(e < -MaxDiff)
      BY <1>1, <1>2, <2>1
    <3>2. d = IF n - h > MaxDiff THEN n - h - SeqMod ELSE n - h
      BY <1>5, <2>1, <3>1
    <3> QED
      BY <1>1, <1>2, <3>2
  <2>2. CASE e = n - h - SeqMod
    <3>1. ~(e > MaxDiff)
      BY <1>1, <1>2, <2>2
    <3>2. d = IF n - h - SeqMod < -MaxDiff THEN n - h ELSE n - h - SeqMod
      <4>1. n - h - SeqMod + SeqMod = n - h
        BY <1>1, <1>2
      <4> QED
        BY <1>5, <2>2, <3>1, <4>1
    <3> QED
      BY <1>1, <1>2, <3>2
  <2> QED
    BY <1>3, <2>1, <2>2
<1> QED
  BY <1>6 DEF d

\* Lemma: what becomes of the buffer when a packet arrives in order: it is
\* put into the first slot, or in the slot of its distance, or it is so far
\* ahead that it takes the first slot, or that it empties the buffer.
LEMMA InsertInOrder ==
  ASSUME LineInv, Orderly, NEW n \in sent, \A r \in received : r < n,
         Insert(Original(n))
  PROVE  \/ frame' = EmptyFrame /\ active' = FALSE
         \/ /\ \/ frame[0] = NULL
               \/ \E h \in sent : frame[0] = Original(h) /\ n - h > MaxBuff
            /\ frame' = [frame EXCEPT ![0] = Original(n)] /\ active' = active
         \/ \E h \in sent : /\ frame[0] = Original(h) /\ n - h \in Slots
                            /\ h < n /\ active' = active
                            /\ frame' = [frame EXCEPT ![n - h] = Original(n)]
<1> DEFINE p == Original(n)
           d == Distance(p)
<1>1. SearchInv /\ NoReuse /\ sent \subseteq Ordinals /\ sent \subseteq Nat
  BY InFlight DEF LineInv, Orderly
<1>2. /\ MaxBuff \in Nat \ {0} /\ MaxDiff \in Nat /\ MaxBuff <= MaxDiff
      /\ Slots = 0..(MaxBuff - 1) /\ 0 \in Slots
  BY FecAssumption DEF Slots
<1>3. ~(\E q \in Held : q.seq = p.seq)
  <2> SUFFICES ASSUME NEW q \in Held, q.seq = p.seq PROVE FALSE
    OBVIOUS
  <2>1. PICK m \in sent : q = Original(m)
    BY <1>1, HeldSlots DEF Held
  <2>2. m = n
    BY <1>1, <2>1, SeqOfInjective, PacketKinds
  <2>3. n < n
    BY <2>1, <2>2 DEF LineInv
  <2> QED
    BY <1>1, <2>3
<1>4. \/ d < 0 /\ frame' = Shifted(p, d) /\ active' = active
      \/ ~(d < 0) /\ d >= MaxBuff /\ frame' = EmptyFrame /\ active' = FALSE
      \/ /\ ~(d < 0) /\ ~(d >= MaxBuff) /\ active' = active
         /\ frame' = [frame EXCEPT ![d] = p]
  BY <1>3 DEF Insert
<1>5. CASE frame[0] = NULL
  <2>1. d = 0
    BY <1>2, <1>5, FecAssumption DEF Distance
  <2> QED
    BY <1>2, <1>4, <1>5, <2>1
<1>6. CASE frame[0] # NULL
  <2>1. PICK h \in sent : frame[0] = Original(h)
    BY <1>1, <1>2, <1>6, HeldSlots
  <2>2. h < n /\ h \in Nat /\ n \in Nat /\ h \in Ordinals /\ n \in Ordinals
    <3>1. Original(h) \in Held
      BY <1>2, <1>6, <2>1 DEF Held
    <3> QED
      BY <1>1, <3>1 DEF LineInv
  <2>3. d = n - h \/ (n - h > MaxDiff /\ d \in Int /\ d < 0 - MaxBuff)
    BY <1>1, <1>6, <2>1, <2>2, DistanceOf
  <2> HIDE DEF p, d
  <2>4. CASE d = n - h
    <3>1. ~(d < 0) /\ d \in Int
      BY <2>2, <2>4
    <3>2. CASE d >= MaxBuff
      BY <1>4, <3>1, <3>2
    <3>3. CASE ~(d >= MaxBuff)
      <4>1. d \in Slots
        BY <1>2, <3>1, <3>3
      <4>2. frame' = [frame EXCEPT ![d] = p] /\ active' = active
        BY <1>4, <3>1, <3>3
      <4> QED
        BY <2>1, <2>2, <2>4, <4>1, <4>2 DEF p
    <3> QED
      BY <3>2, <3>3
  <2>5. CASE n - h > MaxDiff /\ d \in Int /\ d < 0 - MaxBuff
    <3>1. d < 0 /\ \A i \in Slots : ~(i + d >= 0) /\ ~(i < MaxBuff + d)
      BY <1>2, <2>5
    <3>2. frame' = Shifted(p, d) /\ active' = active
      BY <1>4, <3>1, <1>2, <2>5
    <3>3. frame \in [Slots -> Originals \cup {NULL}]
      BY <1>1, HeldSlots
    <3>4. Shifted(p, d) = [frame EXCEPT ![0] = p]
      BY <1>2, <3>1, <3>3 DEF Shifted
    <3>5. n - h > MaxBuff
      BY <1>2, <2>2, <2>5
    <3> QED
      BY <2>1, <3>2, <3>4, <3>5 DEF p
  <2> QED
    BY <2>3, <2>4, <2>5
<1> QED
  BY <1>5, <1>6

\* Lemma: insert keeps the packets of every pending group, and each in its
\* place.
LEMMA InsertKeeps ==
  ASSUME KeptInv, Orderly, LineInv', NEW i \in DOMAIN net, NEW n \in sent,
         net[i] = Original(n), Arrives(i), UNCHANGED <<senderVars, path>>,
         received' = received \cup {n}, active, Insert(Original(n)),
         NEW P \in SUBSET Ordinals, Pending(P)', ~Reopened(P)'
  PROVE  Kept(P)' /\ Placed(P)'
<1> DEFINE p == Original(n)
<1>1. /\ LineInv /\ SearchInv /\ path = "ordered" /\ NoReuse
      /\ sent \subseteq Nat /\ sent \subseteq Ordinals
  BY InFlight DEF KeptInv, LineInv, Orderly
<1>2. \A r \in received : r < n
  <2>1. i = 1 /\ Passed(received, net[1])
    BY <1>1, FirstGone DEF LineInv
  <2> QED
    BY <2>1, PacketKinds DEF Passed, Below
<1>3. \A y \in P : y \in Nat /\ n - y < MaxBuff
  <2>1. \A y \in P : n - y < MaxBuff
    BY <1>1, PendingNear
  <2> QED
    BY <2>1, FecAssumption DEF Ordinals
<1>4. Kept(P) /\ Placed(P)
  <2>1. Pending(P)
    BY <1>1, PendingShrinks
  <2>2. ~Reopened(P)
    <3>1. \A q \in Held' : q \in Held \/ q = net[i]
      BY <1>1, InsertHeld
    <3> QED
      BY <1>1, <3>1, ReopenedStays
  <2> QED
    BY <2>1, <2>2 DEF KeptInv
<1>5. /\ 0 \in Slots /\ \A j \in Slots : j \in Nat /\ j < MaxBuff
      /\ MaxBuff \in Nat /\ frame \in [Slots -> Originals \cup {NULL}]
      /\ \A m \in sent : NULL # Original(m)
      /\ n \in Nat /\ received \subseteq sent
      /\ \A a, b : Original(a) = Original(b) => a = b
  <2>1. received \subseteq sent
    BY <1>1 DEF LineInv
  <2> QED
    BY <1>1, <2>1, HeldSlots, PacketKinds
<1>6. CASE frame' = EmptyFrame /\ active' = FALSE
  <2>1. Kept(P)'
    BY <1>6 DEF Kept
  <2>2. \A j \in Slots, y \in P : y \in Ordinals /\ frame'[j] # Original(y)
    BY <1>6, NullAssumption DEF EmptyFrame
  <2> QED
    BY <2>1, <2>2 DEF Placed, Original, SeqOf
<1>7. ASSUME NEW e \in Slots, frame' = [frame EXCEPT ![e] = p],
             \A r \in P : frame[e] # Original(r),
             \A j \in Slots, y \in P :
               frame'[j] = Original(y) =>
                 \E h \in sent : frame'[0] = Original(h) /\ InPlace(y, h, j)
      PROVE  Kept(P)' /\ Placed(P)'
  <2>1. ASSUME NEW r \in P \cap received' PROVE Original(r) \in Held'
    <3>1. CASE r = n
      BY <1>5, <1>7, <3>1 DEF Held
    <3>2. CASE r # n
      <4>1. r \in P \cap received /\ r \in sent
        BY <1>5, <2>1, <3>2
      <4>2. PICK j \in Slots : frame[j] = Original(r)
        BY <1>1, <1>4, <4>1, HeldSlots DEF Kept
      <4>3. j # e /\ frame'[j] = Original(r)
        BY <1>5, <1>7, <4>1, <4>2
      <4> QED
        BY <1>5, <4>1, <4>3 DEF Held
    <3> QED
      BY <3>1, <3>2
  <2>2. Kept(P)'
    BY <2>1 DEF Kept, Original, SeqOf
  <2> QED
    BY <1>7, <2>2 DEF Placed, Original, SeqOf, senderVars
<1>8. ASSUME \/ frame[0] = NULL
             \/ \E h \in sent : frame[0] = Original(h) /\ n - h > MaxBuff,
             frame' = [frame EXCEPT ![0] = p]
      PROVE  Kept(P)' /\ Placed(P)'
  <2>1. ASSUME NEW r \in P PROVE frame[0] # Original(r)
    <3> SUFFICES ASSUME frame[0] = Original(r) PROVE FALSE
      OBVIOUS
    <3>1. NULL # Original(r)
      BY NullAssumption
    <3>2. PICK h \in sent : frame[0] = Original(h) /\ n - h > MaxBuff
      BY <1>8, <3>1
    <3>3. h = r
      BY <1>5, <3>2
    <3> QED
      BY <1>3, <1>5, <3>2, <3>3
  <2>2. /\ frame'[0] = Original(n)
        /\ \A j \in Slots : j # 0 => frame'[j] = frame[j]
    BY <1>5, <1>8
  <2>3. ASSUME NEW j \in Slots, NEW y \in P, frame'[j] = Original(y)
        PROVE  InPlace(y, n, j)
    <3>1. CASE j = 0
      BY <1>3, <1>5, <2>2, <2>3, <3>1 DEF InPlace
    <3>2. CASE j # 0
      <4>1. PICK h \in sent : frame[0] = Original(h) /\ InPlace(y, h, j)
        BY <1>4, <2>2, <2>3, <3>2 DEF Placed
      <4>2. n - h > MaxBuff
        BY <1>5, <1>8, <4>1
      <4>3. y \in Nat /\ h \in Nat /\ j \in Nat /\ n \in Nat /\ MaxBuff \in Nat
        BY <1>1, <1>3, <1>5
      <4> QED
        BY <4>1, <4>2, <4>3 DEF InPlace
    <3> QED
      BY <3>1, <3>2
  <2> QED
    BY <1>5, <1>7, <1>8, <2>1, <2>2, <2>3
<1>9. ASSUME NEW h \in sent, frame[0] = Original(h), n - h \in Slots, h < n,
             frame' = [frame EXCEPT ![n - h] = p]
      PROVE  Kept(P)' /\ Placed(P)'
  <2>1. h \in Nat /\ n \in Nat /\ MaxBuff \in Nat /\ n - h # 0
    BY <1>1, <1>5, <1>9
  <2>2. /\ frame'[n - h] = Original(n) /\ frame'[0] = Original(h)
        /\ \A j \in Slots : j # n - h => frame'[j] = frame[j]
    BY <1>5, <1>9, <2>1
  <2>3. ASSUME NEW j \in Slots, NEW y \in P, frame[j] = Original(y)
        PROVE  InPlace(y, h, j)
    BY <1>4, <1>5, <1>9, <2>3 DEF Placed
  <2>4. ASSUME NEW r \in P PROVE frame[n - h] # Original(r)
    <3> SUFFICES ASSUME frame[n - h] = Original(r) PROVE FALSE
      OBVIOUS
    <3>1. r = h + (n - h) \/ r + MaxBuff <= h + (n - h)
      BY <1>9, <2>3 DEF InPlace
    <3>2. r \in Nat /\ n - r < MaxBuff
      BY <1>3
    <3>3. r = n
      BY <2>1, <3>1, <3>2
    <3>4. Original(n) \in Held
      BY <1>1, <1>9, <3>3, HeldSlots
    <3>5. n < n
      BY <1>1, <1>2, <3>4 DEF LineInv
    <3> QED
      BY <2>1, <3>5
  <2>5. ASSUME NEW j \in Slots, NEW y \in P, frame'[j] = Original(y)
        PROVE  InPlace(y, h, j)
    <3>1. CASE j = n - h
      BY <1>5, <2>1, <2>2, <2>5, <3>1 DEF InPlace
    <3>2. CASE j # n - h
      BY <2>2, <2>3, <2>5, <3>2
    <3> QED
      BY <3>1, <3>2
  <2> QED
    BY <1>7, <1>9, <2>2, <2>4, <2>5
<1> QED
  BY <1>1, <1>2, <1>6, <1>8, <1>9, InsertInOrder

\* Lemma: a group that is pending after deliver was so before, but for the
\* new packet.
LEMMA DeliverPending ==
  ASSUME KeptInv, Orderly, NEW n \in Ordinals, next <= n, Deliver(n),
         NEW P, Pending(P)'
  PROVE  \E Q : (Q = {} \/ Pending(Q)) /\ (P = Q \/ P = Q \cup {n})
<1> DEFINE o == Started(sender)
           s == Protect(o, n)
           f == FecPacket(s, n)
           l == Len(net)
<1>1. LineInv /\ SearchInv /\ NoReuse
  BY DEF KeptInv, LineInv, Orderly
<1>2. /\ sent \subseteq Nat /\ next \in Nat /\ n \in Nat /\ MaxBuff \in Nat
      /\ \A a \in sent : a < n
      /\ sender.parity \subseteq sent
      /\ l \in Nat /\ DOMAIN net = 1..l
  <2>1. /\ sent \subseteq Nat /\ next \in Nat /\ \A a \in sent : a < next
        /\ l \in Nat /\ DOMAIN net = 1..l
    BY <1>1, InFlight
  <2>2. n \in Nat /\ MaxBuff \in Nat
    BY FecAssumption DEF Ordinals
  <2>3. sender.parity \subseteq sent
    BY <1>1 DEF SearchInv, FlightInv, SenderInv
  <2> QED
    BY <2>1, <2>2, <2>3
<1>3. k # 0 => /\ o.parity = sender.parity \/ o.parity = {}
               /\ \/ /\ s.parity = o.parity \cup {n}
                     /\ \A a \in o.parity : n - a < MaxBuff
                  \/ s = o /\ Len(s.SQArray) < s.k
  <2>1. NoReuse => Spans(sender)
    BY <1>1 DEF LineInv
  <2> QED
    BY <1>1, <1>2, <2>1, DeliverGroup
<1>4. /\ \A j \in DOMAIN net : j \in DOMAIN net' /\ net'[j] = net[j]
      /\ net'[l + 1] = Original(n)
      /\ \/ /\ sender' = sender
            /\ DOMAIN net' = 1..(l + 1)
         \/ /\ k # 0 /\ SameGroup(s, sender')
            /\ DOMAIN net' = 1..(l + 1)
         \/ /\ k # 0 /\ SameGroup(s, sender') /\ ~(Len(s.SQArray) < s.k)
            /\ DOMAIN net' = 1..(l + 2) /\ net'[l + 2] = f
  <2>1. n \notin sent
    BY <1>2
  <2> QED
    BY <1>1, <2>1, DeliverNet, DeliverSender
<1>5. /\ f.parity = s.parity /\ ~IsFec(Original(n)) /\ next' = n + 1
  BY PacketKinds DEF FecPacket, Deliver
<1> HIDE DEF o, s, f, l
<1>6. ASSUME NEW Q, Q = {} \/ Q = sender.parity,
             \A a \in Q : n - a < MaxBuff
      PROVE  Q = {} \/ Pending(Q)
  <2>1. CASE Q = sender.parity
    <3>1. Q \subseteq Nat
      BY <1>2, <2>1
    <3>2. \A a \in Q : next - a < MaxBuff
      BY <1>2, <1>6, <3>1
    <3> QED
      BY <2>1, <3>2 DEF Pending
  <2> QED
    BY <1>6, <2>1
<1>7. CASE \E j \in DOMAIN net' : IsFec(net'[j]) /\ P = net'[j].parity
  <2>1. PICK j \in DOMAIN net' : IsFec(net'[j]) /\ P = net'[j].parity
    BY <1>7
  <2>2. CASE j \in DOMAIN net
    BY <1>4, <2>1, <2>2 DEF Pending
  <2>3. CASE j \notin DOMAIN net
    <3>1. j # l + 1
      BY <1>4, <1>5, <2>1
    <3>2. k # 0 /\ P = s.parity /\ ~(Len(s.SQArray) < s.k)
      BY <1>2, <1>4, <1>5, <2>1, <2>3, <3>1
    <3>3. o.parity = {} \/ Pending(o.parity)
      BY <1>3, <1>6, <3>2
    <3> QED
      BY <1>3, <3>2, <3>3
  <2> QED
    BY <2>2, <2>3
<1>8. CASE P = sender'.parity /\ \A a \in P : next' - a < MaxBuff
  <2>1. CASE P = {} \/ P = sender.parity
    <3>1. P \subseteq Nat
      BY <1>2, <2>1
    <3>2. \A a \in P : n - a < MaxBuff
      BY <1>2, <1>5, <1>8, <3>1
    <3> QED
      BY <1>6, <2>1, <3>2
  <2>2. CASE /\ k # 0 /\ P = s.parity /\ s.parity = o.parity \cup {n}
             /\ \A a \in o.parity : n - a < MaxBuff
    <3>1. o.parity = {} \/ Pending(o.parity)
      BY <1>3, <1>6, <2>2
    <3> QED
      BY <2>2, <3>1
  <2> QED
    BY <1>3, <1>4, <1>8, <2>1, <2>2 DEF SameGroup
<1> QED
  BY <1>7, <1>8 DEF Pending

\* Lemma: deliver takes no packet of a pending group out of the buffer.
LEMMA DeliverKeeps ==
  ASSUME KeptInv, Orderly, NEW n \in Ordinals, next <= n, Deliver(n),
         NEW P \in SUBSET Ordinals, Pending(P)'
  PROVE  Reopened(P)' \/ (Kept(P)' /\ Placed(P)')
<1>1. /\ LineInv /\ SearchInv /\ n \notin sent /\ received \subseteq sent
      /\ \A a, b : Original(a) = Original(b) => a = b
      /\ UNCHANGED <<active, frame, received>> /\ sent' = sent \cup {n}
      /\ Held' = Held
  <2>1. LineInv /\ SearchInv /\ received \subseteq sent
    BY DEF KeptInv, LineInv
  <2>2. n \notin sent
    <3>1. n \in Nat /\ next \in Nat /\ \A a \in sent : a < next /\ a \in Nat
      BY <2>1, InFlight, FecAssumption DEF Ordinals
    <3> QED
      BY <3>1
  <2>3. UNCHANGED <<active, frame, received>> /\ sent' = sent \cup {n}
    BY DEF Deliver, receiverVars
  <2> QED
    BY <2>1, <2>2, <2>3, PacketKinds DEF Held
<1>2. PICK Q : (Q = {} \/ Pending(Q)) /\ (P = Q \/ P = Q \cup {n})
  BY DeliverPending
<1>3. Original(n) \notin Held
  BY <1>1, HeldOriginals, InFlight DEF SearchInv, FlightInv
<1>4. ASSUME Kept(Q) PROVE Kept(P)'
  <2>1. P \cap received' \subseteq Q \cap received
    BY <1>1, <1>2
  <2> QED
    BY <1>1, <1>4, <2>1 DEF Kept, Original, SeqOf
<1>5. ASSUME Placed(Q) PROVE Placed(P)'
  <2> SUFFICES ASSUME NEW j \in Slots, NEW y \in P, frame[j] = Original(y)
               PROVE  \E h \in sent : /\ frame[0] = Original(h)
                                      /\ InPlace(y, h, j)
    BY <1>1 DEF Placed, Original, SeqOf
  <2>1. NULL # Original(y)
    BY NullAssumption
  <2>2. y # n
    BY <1>3, <2>1 DEF Held
  <2>3. y \in Q
    BY <1>2, <2>2
  <2> QED
    BY <1>5, <2>3 DEF Placed
<1>6. ASSUME Reopened(Q) PROVE Reopened(P)'
  <2>1. PICK g \in protected : g.parity \subseteq Q /\ Over(g)
    BY <1>6 DEF Reopened
  <2>2. IsFec(g) /\ g.parity \subseteq sent
    BY <1>1, InFlight
  <2>3. ASSUME NEW j \in DOMAIN net'
        PROVE  \/ j \in DOMAIN net /\ net'[j] = net[j]
               \/ net'[j] = Original(n)
               \/ IsFec(net'[j]) /\ n \in net'[j].parity
    <3> DEFINE o == Started(sender)
               s == Protect(o, n)
               f == FecPacket(s, n)
               l == Len(net)
    <3>1. /\ \A m \in DOMAIN net : net'[m] = net[m]
          /\ net'[l + 1] = Original(n)
          /\ \/ DOMAIN net' = 1..(l + 1)
             \/ /\ k # 0 /\ ~(Len(s.SQArray) < s.k)
                /\ DOMAIN net' = 1..(l + 2) /\ net'[l + 2] = f
      BY <1>1, DeliverNet
    <3>2. IsFec(f) /\ f.parity = s.parity
      BY DEF FecPacket, IsFec
    <3>3. k # 0 => s.parity = o.parity \cup {n} \/ Len(s.SQArray) < s.k
      <4>1. (NoReuse => Spans(sender)) /\ \A a \in sent : a < n
        <5>1. /\ n \in Nat /\ next \in Nat
              /\ \A a \in sent : a < next /\ a \in Nat
          BY <1>1, InFlight, FecAssumption DEF Ordinals
        <5> QED
          BY <1>1, <5>1 DEF LineInv
      <4> QED
        BY <1>1, <4>1, DeliverGroup
    <3>4. l \in Nat /\ DOMAIN net = 1..l
      BY <1>1, InFlight
    <3> HIDE DEF o, s, f, l
    <3>5. j \in DOMAIN net \/ j = l + 1
            \/ (j = l + 2 /\ net'[j] = f /\ k # 0 /\ ~(Len(s.SQArray) < s.k))
      BY <3>1, <3>4
    <3> QED
      BY <3>1, <3>2, <3>3, <3>5
  <2>4. \A j \in DOMAIN net' : net'[j] # g
    BY <1>1, <2>1, <2>2, <2>3, PacketKinds DEF Over, InNet
  <2>5. ASSUME NEW a \in g.parity PROVE Gone(a)'
    <3>1. a # n /\ Gone(a) /\ Original(a) # Original(n) /\ ~IsFec(Original(a))
      BY <1>1, <2>1, <2>2, PacketKinds DEF Over
    <3>2. \A j \in DOMAIN net' : net'[j] # Original(a)
      BY <2>3, <3>1 DEF Gone, InNet
    <3> QED
      BY <1>1, <3>1, <3>2 DEF Gone, InNet, Original, SeqOf
  <2>6. Over(g)' /\ g \in protected'
    <3>1. g \in protected'
      BY DEF Deliver
    <3> QED
      BY <2>4, <2>5, <3>1 DEF Over, InNet
  <2> QED
    BY <1>2, <2>1, <2>6 DEF Reopened
<1>7. CASE Q = {}
  BY <1>4, <1>5, <1>7 DEF Kept, Placed
<1>8. CASE Pending(Q)
  <2>1. Q \in SUBSET Ordinals
    BY <1>2
  <2> QED
    BY <1>4, <1>5, <1>6, <1>8, <2>1 DEF KeptInv
<1> QED
  BY <1>2, <1>7, <1>8

\* Lemma: nothing is out of place in an empty buffer.
LEMMA EmptyPlaced ==
  ASSUME frame' = EmptyFrame, NEW P \in SUBSET Ordinals
  PROVE  Placed(P)'
<1>1. \A j \in Slots, y \in P : y \in Ordinals /\ frame'[j] = NULL
  BY DEF EmptyFrame
<1> QED
  BY <1>1, NullAssumption DEF Placed, Original, SeqOf

\* Lemma: what the parity packet of a group leaves in the buffer.
LEMMA FecFrees ==
  ASSUME SearchInv, NoReuse, NoSingles, NEW i \in DOMAIN net, ArriveFec(i)
  PROVE  /\ net[i] \in protected
         /\ frame' = EmptyFrame \/ frame' = FreeSeqs(frame, Group(net[i]))
         /\ \A a \in net[i].parity : Original(a) \notin Held'
<1> DEFINE f == net[i]
<1>1. f \in protected /\ FlightInv
  BY InFlight DEF ArriveFec, SearchInv
<1>2. frame' = EmptyFrame \/ frame' = FreeSeqs(frame, Group(f))
  <2>1. CASE GiveUp(f)
    BY <2>1 DEF GiveUp
  <2>2. CASE Search(f)
    <3>1. PICK lost : /\ Missing(f) = {lost}
                      /\ \/ RunsOut(f) \/ frame' = EmptyFrame
                         \/ frame' = FreeSeqs(frame, Group(f))
      BY <2>2 DEF Search
    <3> QED
      BY <1>1, <3>1, SearchFromTheStart
  <2> QED
    BY <2>1, <2>2 DEF ArriveFec
<1>3. ASSUME NEW a \in f.parity PROVE Original(a) \notin Held'
  <2>1. SeqOf(a) \in Group(f) /\ Original(a).seq = SeqOf(a)
    BY <1>1, OthersOfGroup, PacketKinds
  <2>2. \A j \in Slots : frame'[j] = NULL \/ frame'[j].seq \notin Group(f)
    BY <1>2 DEF FreeSeqs, EmptyFrame
  <2> QED
    BY <2>1, <2>2 DEF Held
<1> QED
  BY <1>1, <1>2, <1>3

\* Lemma: after the parity packet of a group the buffer holds only packets of
\* groups that are opened again.
LEMMA FecKeeps ==
  ASSUME KeptInv, LineInv', Orderly, NEW i \in DOMAIN net, IsFec(net[i]),
         Arrives(i), UNCHANGED <<senderVars, path, received>>,
         \A a \in net[i].parity : Original(a) \notin Held',
         NEW P \in SUBSET Ordinals, Pending(P)'
  PROVE  Reopened(P)' \/ (Kept(P)' /\ Placed(P)')
<1>1. LineInv /\ SearchInv'
  BY DEF KeptInv, LineInv
<1>2. Reopened(P)' \/ P \cap received = {}
  BY <1>1, FecEndsGroups
<1>3. ASSUME P \cap received' = {} PROVE Placed(P)'
  <2> SUFFICES ASSUME NEW j \in Slots, NEW y \in P, frame'[j] = Original(y)
               PROVE  FALSE
    BY DEF Placed, Original, SeqOf
  <2>1. NULL # Original(y)
    BY NullAssumption
  <2>2. Original(y) \in Held'
    BY <2>1 DEF Held
  <2>3. (\A m : Original(m) \in Held => m \in sent)'
    <3>1. FlightInv' /\ (sent \subseteq Ordinals)'
      BY <1>1, InFlight DEF SearchInv, FlightInv, SenderInv
    <3>2. (Held \subseteq Originals)'
      BY <3>1 DEF FlightInv, Held
    <3> QED
      BY <3>2, PacketKinds DEF Originals, Original, SeqOf
  <2>4. y \in received'
    BY <1>1, <2>2, <2>3 DEF LineInv, Original, SeqOf
  <2> QED
    BY <1>3, <2>4
<1>4. P \cap received' = {} => Kept(P)'
  BY DEF Kept
<1> QED
  BY <1>2, <1>3, <1>4

\* The step of the induction, by action.
LEMMA NextKept == ASSUME KeptInv, [Next]_vars PROVE KeptInv'
<1>1. LineInv' /\ LineInv /\ SearchInv /\ SearchInv'
  BY NextLine DEF KeptInv, LineInv
<1>2. ASSUME Orderly', path' = path PROVE Orderly
  BY <1>2 DEF Orderly, NoReuse, NoSingles
<1>3. /\ \A a, b : Original(a) = Original(b) => a = b
      /\ received \subseteq sent /\ sent \subseteq Ordinals
  BY <1>1, InFlight, PacketKinds DEF LineInv
<1>4. ASSUME \/ UNCHANGED sender
             \/ \E size : sender' = resetTX(size)
             \/ \E size : sender' = [sender EXCEPT !.k = size],
             UNCHANGED <<next, sent, protected, path, net, active, frame,
                         received>>
      PROVE  KeptInv'
  <2>1. \/ sender' = sender
        \/ sender'.parity = {} \/ sender'.parity = sender.parity
    <3>1. sender \in Senders
      BY <1>1 DEF SearchInv, FlightInv, SenderInv, TypeInv
    <3> QED
      BY <1>4, <3>1 DEF resetTX, Senders
  <2>2. ASSUME NEW P, Pending(P)' PROVE Pending(P) \/ P = {}
    BY <1>4, <2>1, <2>2 DEF Pending
  <2>3. Held' = Held
    BY <1>4 DEF Held
  <2>4. \A P : /\ Reopened(P) => Reopened(P)'
               /\ Kept(P) => Kept(P)'
               /\ Placed(P) => Placed(P)'
    BY <1>4, <2>3 DEF Reopened, Over, Gone, InNet, Kept, Placed, Original, SeqOf
  <2>5. Kept({})' /\ Placed({})'
    BY DEF Kept, Placed
  <2>6. ASSUME Orderly', NEW P \in SUBSET Ordinals, Pending(P)'
        PROVE  Reopened(P)' \/ (Kept(P)' /\ Placed(P)')
    BY <1>2, <1>4, <2>2, <2>4, <2>5, <2>6 DEF KeptInv
  <2> QED
    BY <1>1, <1>4, <2>6 DEF KeptInv, Ordinals, EmptyFrame, Slots
<1>5. ASSUME NEW size \in GroupSizes, SetFecParams(size) PROVE KeptInv'
  <2>1. sender' = sender \/ sender' = setK(sender, size)
    BY <1>5 DEF SetFecParams
  <2>2. UNCHANGED <<next, sent, protected, path, net, active, frame, received>>
    BY <1>5 DEF SetFecParams, receiverVars
  <2> QED
    BY <1>4, <2>1, <2>2 DEF setK
<1>6. CASE DelRTPFec
  BY <1>4, <1>6 DEF DelRTPFec, receiverVars
<1>7. ASSUME NEW step \in Steps, next + step - 1 <= MaxOrdinal,
             Deliver(next + step - 1)
      PROVE  KeptInv'
  <2> DEFINE n == next + step - 1
  <2>1. step \in Nat \ {0} /\ next \in Nat /\ MaxOrdinal \in Nat
    BY <1>1, InFlight, FecAssumption
  <2>2. n \in Ordinals /\ next <= n /\ Deliver(n)
    BY <1>7, <2>1 DEF Ordinals
  <2> HIDE DEF n
  <2>3. UNCHANGED <<path, active, frame>>
    BY <2>2 DEF Deliver, receiverVars
  <2>4. ASSUME Orderly', NEW P \in SUBSET Ordinals, Pending(P)'
        PROVE  Reopened(P)' \/ (Kept(P)' /\ Placed(P)')
    <3>1. Orderly
      BY <1>2, <2>3, <2>4
    <3> QED
      BY <2>2, <2>4, <3>1, DeliverKeeps
  <2> QED
    BY <1>1, <2>3, <2>4 DEF KeptInv, Ordinals, EmptyFrame, Slots
<1>8. ASSUME NEW i \in DOMAIN net, Arrives(i),
             UNCHANGED <<senderVars, path, active, frame, received>>
      PROVE  KeptInv'
  <2>1. Held' = Held
    BY <1>8 DEF Held
  <2>2. ASSUME Orderly', NEW P \in SUBSET Ordinals, Pending(P)'
        PROVE  Reopened(P)' \/ (Kept(P)' /\ Placed(P)')
    <3>1. Orderly /\ Pending(P)
      BY <1>1, <1>2, <1>8, <2>2, PendingShrinks
    <3>2. Reopened(P) => Reopened(P)'
      BY <1>1, <1>8, <2>1, ReopenedStays
    <3>3. Kept(P) => Kept(P)'
      BY <1>8, <2>1 DEF Kept, Original, SeqOf
    <3>4. Placed(P) => Placed(P)'
      BY <1>8 DEF Placed, Original, SeqOf, senderVars
    <3> QED
      BY <3>1, <3>2, <3>3, <3>4 DEF KeptInv
  <2> QED
    BY <1>1, <1>8, <2>2 DEF KeptInv, Ordinals, EmptyFrame, Slots
<1>9. ASSUME NEW i \in DOMAIN net, Lose(i) PROVE KeptInv'
  BY <1>8, <1>9 DEF Lose, receiverVars
<1>10. ASSUME NEW i \in DOMAIN net, ArriveFirst(i) PROVE KeptInv'
  <2>1. /\ IsFec(net[i]) /\ Arrives(i)
        /\ UNCHANGED <<senderVars, path, frame, received>>
        /\ frame = EmptyFrame
    BY <1>10 DEF ArriveFirst, KeptInv
  <2>2. \A a \in net[i].parity : Original(a) \notin Held'
    <3>1. net[i] \in protected
      BY <1>1, <2>1, InFlight
    <3>2. net[i].parity \subseteq Ordinals
      BY <1>1, <3>1, InFlight
    <3>3. Held' = {}
      BY <2>1 DEF Held, EmptyFrame
    <3> QED
      BY <3>3
  <2>3. ASSUME Orderly', NEW P \in SUBSET Ordinals, Pending(P)'
        PROVE  Reopened(P)' \/ (Kept(P)' /\ Placed(P)')
    <3>1. Orderly
      BY <1>2, <2>1, <2>3
    <3> QED
      BY <1>1, <2>1, <2>2, <2>3, <3>1, FecKeeps
  <2> QED
    BY <1>1, <2>1, <2>3 DEF KeptInv, Ordinals, EmptyFrame, Slots
<1>11. ASSUME NEW i \in DOMAIN net, ArriveData(i) PROVE KeptInv'
  <2>1. /\ ~IsFec(net[i]) /\ Arrives(i) /\ UNCHANGED <<senderVars, path>>
        /\ received' = received \cup net[i].parity
        /\ IF active THEN Insert(net[i]) ELSE UNCHANGED <<frame, active>>
    BY <1>11 DEF ArriveData
  <2>2. PICK n \in sent : net[i] = Original(n)
    BY <1>1, <2>1, InFlight
  <2>3. received' = received \cup {n}
    BY <2>1, <2>2, PacketKinds
  <2>4. CASE ~active
    <3>1. UNCHANGED <<frame, active>> /\ frame' = EmptyFrame
      BY <2>1, <2>4 DEF KeptInv
    <3>2. \A P \in SUBSET Ordinals : Kept(P)' /\ Placed(P)'
      BY <2>4, <3>1, EmptyPlaced DEF Kept
    <3>3. \A P \in (SUBSET Ordinals)' : Kept(P)' /\ Placed(P)'
      BY <3>2 DEF Ordinals
    <3> QED
      BY <1>1, <3>1, <3>3 DEF KeptInv, EmptyFrame, Slots
  <2>5. CASE active
    <3>1. \/ active' = active
          \/ frame' = EmptyFrame /\ active' = FALSE
      BY <2>1, <2>5 DEF Insert
    <3>2. ASSUME Orderly', NEW P \in SUBSET Ordinals, Pending(P)'
          PROVE  Reopened(P)' \/ (Kept(P)' /\ Placed(P)')
      <4>1. Orderly
        BY <1>2, <2>1, <3>2
      <4> QED
        BY <1>1, <2>1, <2>2, <2>3, <2>5, <3>2, <4>1, InsertKeeps
    <3> QED
      BY <1>1, <2>5, <3>1, <3>2 DEF KeptInv, Ordinals, EmptyFrame, Slots
  <2> QED
    BY <2>4, <2>5
<1>12. ASSUME NEW i \in DOMAIN net, ArriveFec(i) PROVE KeptInv'
  <2>1. /\ IsFec(net[i]) /\ Arrives(i) /\ active /\ active' = active
        /\ UNCHANGED <<senderVars, path, received>>
    BY <1>12 DEF ArriveFec
  <2>2. ASSUME Orderly', NEW P \in SUBSET Ordinals, Pending(P)'
        PROVE  Reopened(P)' \/ (Kept(P)' /\ Placed(P)')
    <3>1. Orderly
      BY <1>2, <2>1, <2>2
    <3>2. \A a \in net[i].parity : Original(a) \notin Held'
      BY <1>1, <1>12, <3>1, FecFrees DEF Orderly
    <3> QED
      BY <1>1, <2>1, <2>2, <3>1, <3>2, FecKeeps
  <2> QED
    BY <1>1, <2>1, <2>2 DEF KeptInv, Ordinals
<1>13. CASE UNCHANGED vars
  BY <1>4, <1>13 DEF vars, senderVars, receiverVars
<1> QED
  BY <1>5, <1>6, <1>7, <1>9, <1>10, <1>11, <1>12, <1>13
     DEF Next, Source, Network, Receiver

\* Its base.
LEMMA InitKept == ASSUME Init PROVE KeptInv
<1>1. /\ sender = resetTX(k) /\ frame = EmptyFrame /\ active = FALSE
      /\ net = <<>>
  BY DEF Init
<1>2. \A j \in Slots, y \in Ordinals : frame[j] # Original(y)
  BY <1>1, NullAssumption DEF EmptyFrame
<1>3. \A P \in SUBSET Ordinals : Kept(P) /\ Placed(P)
  BY <1>1, <1>2 DEF Kept, Placed
<1> QED
  BY <1>1, <1>3, InitLine DEF KeptInv

----------------------------------------------------------------------------
(* What is done with a parity packet *)

\* p is a packet that never arrives.
OnlyRebuilt(p) ==
  \E m \in sent : Carries(p, m) /\ m \notin received /\ ~InNet(Original(m))

\* The packet that alone is lost of the group of f has been rebuilt.
Settled(f) ==
  /\ f \in protected
  /\ \A a \in f.parity : ~InNet(Original(a))
  /\ ProtectedOnce(f) =>
       \A n \in f.parity \ received :
         f.parity \ {n} \subseteq received => \E p \in recovered : Carries(p, n)

DoneInv ==
  /\ KeptInv
  /\ Orderly => /\ \A p \in recovered : OnlyRebuilt(p)
                /\ \A f \in used : Settled(f)

\* Lemma: the search rebuilds a packet that has not arrived.
LEMMA RebuiltIsLost ==
  ASSUME KeptInv, Orderly, active, NEW i \in DOMAIN net, IsFec(net[i]),
         NEW lost, Missing(net[i]) = {lost}
  PROVE  \E m \in net[i].parity : /\ lost = SeqOf(m) /\ m \notin received
                                  /\ Carries(Rebuilt(net[i], lost), m)
<1> DEFINE f == net[i]
<1>1. LineInv /\ SearchInv /\ FlightInv /\ NoReuse /\ NoSingles
  BY DEF KeptInv, LineInv, SearchInv, Orderly
<1>2. f \in protected /\ f.parity \subseteq sent /\ sent \subseteq Ordinals
  BY <1>1, InFlight
<1>3. PICK m \in f.parity : /\ lost = SeqOf(m) /\ Original(m) \notin Held
                            /\ Carries(Rebuilt(f, lost), m)
  BY <1>1, <1>2, RebuiltIsTheMissing
<1>4. Pending(f.parity)
  BY DEF Pending
<1>5. ~Reopened(f.parity)
  <2> SUFFICES ASSUME NEW g \in protected, g.parity \subseteq f.parity, Over(g)
               PROVE  FALSE
    BY DEF Reopened
  <2>1. PICK a \in g.parity, b \in g.parity : a # b
    BY <1>1 DEF SearchInv
  <2>2. /\ Original(a) \notin Held /\ Original(b) \notin Held
        /\ a \in f.parity /\ b \in f.parity
    BY <2>1 DEF Over, Gone
  <2>3. SeqOf(a) = lost /\ SeqOf(b) = lost
    <3>1. Missing(f) = {SeqOf(j) : j \in {j \in f.parity :
                                           Original(j) \notin Held}}
      BY <1>1, <1>2, OthersOfGroup
    <3>2. SeqOf(a) \in Missing(f) /\ SeqOf(b) \in Missing(f)
      BY <2>2, <3>1
    <3>3. Missing(f) = {lost}
      OBVIOUS
    <3> HIDE DEF f
    <3> QED
      BY <3>2, <3>3
  <2> QED
    BY <1>1, <1>2, <2>1, <2>2, <2>3, SeqOfInjective
<1>6. Kept(f.parity)
  BY <1>2, <1>4, <1>5 DEF KeptInv
<1> QED
  BY <1>3, <1>6 DEF Kept

\* Lemma: and rebuilds the one that is lost of a group that is protected once.
LEMMA LostIsMissing ==
  ASSUME KeptInv, Orderly, active, NEW i \in DOMAIN net, IsFec(net[i]),
         ProtectedOnce(net[i]), NEW n \in net[i].parity \ received,
         net[i].parity \ {n} \subseteq received
  PROVE  Missing(net[i]) = {SeqOf(n)}
<1> DEFINE f == net[i]
<1>1. LineInv /\ SearchInv /\ FlightInv /\ NoReuse /\ NoSingles
  BY DEF KeptInv, LineInv, SearchInv, Orderly
<1>2. f \in protected /\ f.parity \subseteq sent /\ sent \subseteq Ordinals
  BY <1>1, InFlight
<1>3. Original(n) \notin Held
  BY <1>1, <1>2 DEF LineInv
<1>4. Pending(f.parity)
  BY DEF Pending
<1>5. ~Reopened(f.parity)
  <2> SUFFICES ASSUME NEW g \in protected, g.parity \subseteq f.parity, Over(g)
               PROVE  FALSE
    BY DEF Reopened
  <2>1. g # f
    BY DEF Over, InNet
  <2>2. PICK a \in g.parity : a \in f.parity
    BY <1>1 DEF SearchInv
  <2>3. SeqOf(a) \in Group(g) /\ SeqOf(a) \in Group(f)
    BY <1>1, <1>2, <2>2, OthersOfGroup
  <2> QED
    BY <2>1, <2>3 DEF ProtectedOnce
<1>6. Kept(f.parity)
  BY <1>2, <1>4, <1>5 DEF KeptInv
<1>7. \A j \in f.parity : Original(j) \notin Held <=> j = n
  BY <1>3, <1>6 DEF Kept
<1> QED
  BY <1>1, <1>2, <1>7, OthersOfGroup

\* Lemma: the steps that rebuild nothing.
LEMMA NoneRebuilt ==
  ASSUME DoneInv, KeptInv', Orderly, UNCHANGED <<recovered, used>>,
         sent \subseteq sent', protected \subseteq protected',
         received \subseteq received',
         \A m \in sent : ~InNet(Original(m)) => ~InNet(Original(m))',
         \A m \in sent : m \in received' => m \in received \/ InNet(Original(m))
  PROVE  (\A p \in recovered : OnlyRebuilt(p)) /\ (\A f \in used : Settled(f))
         => /\ \A p \in recovered' : OnlyRebuilt(p)'
            /\ \A f \in used' : Settled(f)'
<1>1. SearchInv /\ \A f \in protected : f.parity \subseteq sent
  BY InFlight DEF DoneInv, KeptInv, LineInv
<1>2. ASSUME NEW p \in recovered, OnlyRebuilt(p) PROVE OnlyRebuilt(p)'
  BY <1>2 DEF OnlyRebuilt, Carries, SeqOf, InNet
<1>3. ASSUME NEW f \in used, Settled(f) PROVE Settled(f)'
  <2>1. f \in protected' /\ f \in protected /\ f.parity \subseteq sent
    BY <1>1, <1>3 DEF Settled
  <2>2. \A a \in f.parity : ~InNet(Original(a))'
    BY <1>3, <2>1 DEF Settled
  <2>3. ProtectedOnce(f)' => ProtectedOnce(f)
    BY DEF ProtectedOnce, Group
  <2>4. \A a \in f.parity : a \in received' => a \in received
    BY <1>3, <2>1 DEF Settled
  <2>5. ASSUME ProtectedOnce(f)', NEW n \in f.parity \ received',
               f.parity \ {n} \subseteq received'
        PROVE  \E p \in recovered' : Carries(p, n)'
    <3>1. n \in f.parity \ received /\ f.parity \ {n} \subseteq received
      BY <2>4, <2>5
    <3>2. PICK p \in recovered : Carries(p, n)
      BY <1>3, <2>3, <2>5, <3>1 DEF Settled
    <3> QED
      BY <3>2 DEF Carries, SeqOf
  <2> QED
    BY <2>1, <2>2, <2>5 DEF Settled, InNet, Original, SeqOf
<1> QED
  BY <1>2, <1>3

\* Lemma: the parity packet that is processed.
LEMMA FecSettles ==
  ASSUME DoneInv, KeptInv', Orderly, NEW i \in DOMAIN net, ArriveFec(i)
  PROVE  /\ \A p \in recovered' : OnlyRebuilt(p)'
         /\ \A g \in used' : Settled(g)'
<1>0. PICK f : f = net[i]
  OBVIOUS
<1>1. /\ KeptInv /\ LineInv /\ SearchInv /\ FlightInv
      /\ path = "ordered" /\ NoReuse /\ NoSingles
      /\ \A p \in recovered : OnlyRebuilt(p)
      /\ \A g \in used : Settled(g)
  BY DEF DoneInv, KeptInv, LineInv, SearchInv, Orderly
<1>2. /\ IsFec(f) /\ active /\ Arrives(i) /\ used' = used \cup {f}
      /\ GiveUp(f) \/ Search(f)
      /\ UNCHANGED <<senderVars, received>>
      /\ UNCHANGED <<sent, protected>>
  BY <1>0 DEF ArriveFec, senderVars
<1>3. f \in protected /\ f.parity \subseteq sent /\ sent \subseteq Ordinals
  BY <1>0, <1>1, <1>2, InFlight
<1>4. \A m : ~InNet(Original(m)) => ~InNet(Original(m))'
  <2>1. \A x : InNet(x)' => InNet(x)
    BY <1>1, <1>2, SomeGone
  <2>2. \A m : Original(m)' = Original(m)
    BY DEF Original, SeqOf
  <2> QED
    BY <2>1, <2>2
<1>5. ASSUME NEW a \in f.parity PROVE ~InNet(Original(a))'
  <2> SUFFICES ASSUME NEW j \in DOMAIN net', net'[j] = Original(a)
               PROVE  FALSE
    BY DEF InNet, Original, SeqOf
  <2>1. /\ i = 1 /\ 1 \in DOMAIN net /\ j + 1 \in DOMAIN net /\ 1 < j + 1
        /\ net[j + 1] = Original(a)
    BY <1>1, <1>2, FirstGone
  <2>2. /\ Precedes(f, Original(a)) /\ ~IsFec(Original(a))
        /\ Original(a).parity = {a}
    BY <1>0, <1>1, <2>1, PacketKinds DEF LineInv
  <2>3. a < a /\ a \in Nat
    BY <1>1, <1>3, <2>2, InFlight DEF Precedes, Below
  <2> QED
    BY <2>3
<1>6. /\ recovered \subseteq recovered'
      /\ \A p \in recovered' :
           \/ p \in recovered
           \/ \E lost : Missing(f) = {lost} /\ p = Rebuilt(f, lost)
  BY <1>2 DEF GiveUp, Search
<1>7. ASSUME NEW p \in recovered' PROVE OnlyRebuilt(p)'
  <2>1. CASE p \in recovered
    <3>1. PICK m \in sent : /\ Carries(p, m) /\ m \notin received
                            /\ ~InNet(Original(m))
      BY <1>1, <2>1 DEF OnlyRebuilt
    <3>2. ~InNet(Original(m))'
      BY <1>4, <3>1
    <3> QED
      BY <1>2, <3>1, <3>2 DEF OnlyRebuilt, Carries, SeqOf
  <2>2. CASE p \notin recovered
    <3>1. PICK lost : Missing(f) = {lost} /\ p = Rebuilt(f, lost)
      BY <1>6, <2>2
    <3>2. PICK m \in f.parity : m \notin received /\ Carries(p, m)
      BY <1>0, <1>1, <1>2, <3>1, RebuiltIsLost
    <3>3. m \in sent' /\ m \notin received' /\ ~InNet(Original(m))'
      BY <1>2, <1>3, <1>5, <3>2
    <3> QED
      BY <3>2, <3>3 DEF OnlyRebuilt, Carries, SeqOf
  <2> QED
    BY <2>1, <2>2
<1>8. ASSUME NEW g \in used PROVE Settled(g)'
  <2>1. Settled(g)
    BY <1>1
  <2>2. \A a \in g.parity : ~InNet(Original(a))'
    BY <1>4, <2>1 DEF Settled
  <2>3. ProtectedOnce(g)' => ProtectedOnce(g)
    BY <1>2 DEF ProtectedOnce, Group
  <2>4. ASSUME ProtectedOnce(g)', NEW n \in g.parity \ received',
               g.parity \ {n} \subseteq received'
        PROVE  \E p \in recovered' : Carries(p, n)'
    <3>1. PICK p \in recovered : Carries(p, n)
      BY <1>2, <2>1, <2>3, <2>4 DEF Settled
    <3> QED
      BY <1>6, <3>1 DEF Carries, SeqOf
  <2>5. g \in protected'
    BY <1>2, <2>1 DEF Settled
  <2> QED
    BY <2>2, <2>4, <2>5 DEF Settled, InNet, Original, SeqOf
<1>9. Settled(f)'
  <2>1. ASSUME ProtectedOnce(f)', NEW n \in f.parity \ received',
               f.parity \ {n} \subseteq received'
        PROVE  \E p \in recovered' : Carries(p, n)'
    <3>1. ProtectedOnce(f)
      BY <1>2, <2>1 DEF ProtectedOnce, Group
    <3>2. Missing(f) = {SeqOf(n)}
      BY <1>0, <1>1, <1>2, <2>1, <3>1, LostIsMissing
    <3>3. ~GiveUp(f)
      BY <3>2, FS_Singleton DEF GiveUp
    <3>4. ~RunsOut(f)
      BY <1>1, <1>3, <3>2, SearchFromTheStart
    <3>5. Rebuilt(f, SeqOf(n)) \in recovered'
      BY <1>2, <3>2, <3>3, <3>4 DEF Search
    <3>6. PICK m \in f.parity : /\ SeqOf(n) = SeqOf(m)
                                /\ Carries(Rebuilt(f, SeqOf(n)), m)
      BY <1>1, <1>3, <3>2, RebuiltIsTheMissing
    <3>7. n = m
      BY <1>1, <1>3, <3>6, SeqOfInjective
    <3> QED
      BY <3>5, <3>6, <3>7 DEF Carries, SeqOf
  <2>2. f \in protected'
    BY <1>2, <1>3
  <2> QED
    BY <1>5, <2>1, <2>2 DEF Settled, InNet, Original, SeqOf
<1> QED
  BY <1>2, <1>7, <1>8, <1>9

\* The step of the induction, by action.
LEMMA NextDone == ASSUME DoneInv, [Next]_vars PROVE DoneInv'
<1>1. KeptInv' /\ KeptInv /\ LineInv /\ SearchInv
  BY NextKept DEF DoneInv, KeptInv, LineInv
<1>2. ASSUME Orderly', path' = path PROVE Orderly
  BY <1>2 DEF Orderly, NoReuse, NoSingles
<1>3. ASSUME UNCHANGED <<path, recovered, used>>,
             sent \subseteq sent', protected \subseteq protected',
             received \subseteq received',
             \A m \in sent : ~InNet(Original(m)) => ~InNet(Original(m))',
             \A m \in sent :
               m \in received' => m \in received \/ InNet(Original(m))
      PROVE  DoneInv'
  BY <1>1, <1>2, <1>3, NoneRebuilt DEF DoneInv
<1>4. ASSUME UNCHANGED <<path, recovered, used, sent, protected, received>>,
             net' = net
      PROVE  DoneInv'
  BY <1>3, <1>4 DEF InNet, Original, SeqOf
<1>5. ASSUME NEW size \in GroupSizes, SetFecParams(size) PROVE DoneInv'
  BY <1>4, <1>5 DEF SetFecParams, receiverVars
<1>6. CASE DelRTPFec
  BY <1>4, <1>6 DEF DelRTPFec, receiverVars
<1>7. ASSUME NEW step \in Steps, next + step - 1 <= MaxOrdinal,
             Deliver(next + step - 1)
      PROVE  DoneInv'
  <2> DEFINE n == next + step - 1
             f == FecPacket(Protect(Started(sender), n), n)
  <2>1. step \in Nat \ {0} /\ next \in Nat /\ MaxOrdinal \in Nat
        /\ \A m \in sent : m \in Nat /\ m < next
    BY <1>1, InFlight, FecAssumption
  <2>2. n \in Ordinals /\ n \notin sent /\ Deliver(n)
    BY <1>7, <2>1 DEF Ordinals
  <2> HIDE DEF n
  <2>3. /\ UNCHANGED <<path, recovered, used, received>>
        /\ sent' = sent \cup {n} /\ protected \subseteq protected'
    BY <2>2 DEF Deliver, receiverVars
  <2>4. ASSUME NEW m \in sent, NEW j \in DOMAIN net', net'[j] = Original(m)
        PROVE  InNet(Original(m))
    <3> DEFINE l == Len(net)
    <3>1. /\ \A a \in DOMAIN net : net'[a] = net[a]
          /\ net'[l + 1] = Original(n)
          /\ \/ DOMAIN net' = 1..(l + 1)
             \/ DOMAIN net' = 1..(l + 2) /\ net'[l + 2] = f
      BY <1>1, <2>2, DeliverNet
    <3>2. l \in Nat /\ DOMAIN net = 1..l
      BY <1>1, InFlight
    <3>3. IsFec(f) /\ ~IsFec(Original(m)) /\ Original(n) # Original(m)
      <4>1. IsFec(f)
        BY DEF FecPacket, IsFec
      <4>2. ~IsFec(Original(m)) /\ Original(n) # Original(m)
        BY <2>2, PacketKinds
      <4> QED
        BY <4>1, <4>2
    <3> HIDE DEF l, f
    <3>4. j \in DOMAIN net
      BY <2>4, <3>1, <3>2, <3>3
    <3> QED
      BY <2>4, <3>1, <3>4 DEF InNet
  <2>5. \A m \in sent : ~InNet(Original(m)) => ~InNet(Original(m))'
    BY <2>4 DEF InNet, Original, SeqOf
  <2> QED
    BY <1>3, <2>3, <2>5
<1>8. ASSUME NEW i \in DOMAIN net, Arrives(i),
             UNCHANGED <<path, recovered, used, sent, protected>>,
             received' = received
               \/ (~IsFec(net[i]) /\ received' = received \cup net[i].parity)
      PROVE  DoneInv'
  <2>1. \A m : ~InNet(Original(m)) => ~InNet(Original(m))'
    <3>1. \A x : InNet(x)' => InNet(x)
      BY <1>1, <1>8, SomeGone
    <3>2. \A m : Original(m)' = Original(m)
      BY DEF Original, SeqOf
    <3> QED
      BY <3>1, <3>2
  <2>2. \A m \in sent : m \in received' => m \in received \/ InNet(Original(m))
    <3> SUFFICES ASSUME NEW m \in sent, ~IsFec(net[i]), m \in net[i].parity
                 PROVE  InNet(Original(m))
      BY <1>8
    <3>1. PICK n \in sent : net[i] = Original(n)
      BY <1>1, InFlight
    <3> QED
      BY <3>1, PacketKinds DEF InNet
  <2> QED
    BY <1>3, <1>8, <2>1, <2>2
<1>9. ASSUME NEW i \in DOMAIN net,
             Lose(i) \/ ArriveFirst(i) \/ ArriveData(i)
      PROVE  DoneInv'
  BY <1>8, <1>9 DEF Lose, ArriveFirst, ArriveData, senderVars, receiverVars
<1>10. ASSUME NEW i \in DOMAIN net, ArriveFec(i) PROVE DoneInv'
  <2>1. path' = path
    BY <1>10 DEF ArriveFec
  <2> QED
    BY <1>1, <1>2, <1>10, <2>1, FecSettles DEF DoneInv
<1>11. CASE UNCHANGED vars
  BY <1>4, <1>11 DEF vars, senderVars, receiverVars
<1> QED
  BY <1>5, <1>6, <1>7, <1>9, <1>10, <1>11
     DEF Next, Source, Network, Receiver

\* Lemma: the inductive invariant holds in every behaviour.
LEMMA DoneInvHolds == Spec => []DoneInv
<1>1. Init => DoneInv
  BY InitKept DEF Init, DoneInv
<1>2. DoneInv /\ [Next]_vars => DoneInv'
  BY NextDone
<1> QED
  BY <1>1, <1>2, PTL DEF Spec

\* Theorem: on a path that keeps the order fecPktToRecv rebuilds no packet
\* that arrives, before or after it.
THEOREM RebuiltNeverArrives == Spec => []NothingTwice
<1>1. DoneInv => NothingTwice
  <2> SUFFICES ASSUME DoneInv, Orderly, NEW p \in recovered, NEW n \in received
               PROVE  p.seq # SeqOf(n)
    BY DEF NothingTwice, Orderly
  <2>1. LineInv /\ SearchInv /\ NoReuse
    BY DEF DoneInv, KeptInv, LineInv, Orderly
  <2>2. n \in Ordinals /\ n \in sent
    BY <2>1, InFlight DEF LineInv
  <2>3. PICK m \in sent : Carries(p, m) /\ m \notin received
    BY DEF DoneInv, OnlyRebuilt
  <2>4. m \in Ordinals
    BY <2>1, InFlight
  <2> QED
    BY <2>1, <2>2, <2>3, <2>4, SeqOfInjective DEF Carries
<1> QED
  BY <1>1, DoneInvHolds, PTL

\* Theorem: and the only packet of a group that the path has lost is rebuilt
\* by the first active receiver of its parity.
THEOREM LostIsRebuilt == Spec => []SingleLossIsRecovered
<1>1. DoneInv => SingleLossIsRecovered
  <2> SUFFICES ASSUME DoneInv, Orderly, NEW f \in used, ProtectedOnce(f),
                      NEW members,
                      members = {n \in sent : \E i \in f.mask :
                                                SeqOf(n) = f.base + i},
                      Cardinality(members \ received) = 1,
                      NEW n \in members \ received
               PROVE  \E p \in recovered : Carries(p, n)
    BY DEF SingleLossIsRecovered, Orderly
  <2>1. SearchInv /\ FlightInv /\ NoReuse /\ Settled(f)
    BY DEF DoneInv, KeptInv, LineInv, SearchInv, Orderly
  <2>2. f \in protected /\ f.parity \subseteq sent /\ sent \subseteq Ordinals
    BY <2>1, InFlight DEF Settled
  <2>3. members = f.parity
    <3>1. \A m \in sent : (\E i \in f.mask : SeqOf(m) = f.base + i)
                            <=> SeqOf(m) \in Group(f)
      BY DEF Group
    <3> QED
      BY <2>1, <2>2, <3>1, OthersOfGroup
  <2>4. members \ received = {n}
    <3>1. IsFiniteSet(Ordinals)
      BY FS_Interval, FecAssumption DEF Ordinals
    <3>2. members \ received \subseteq Ordinals
      BY <2>2
    <3>3. IsFiniteSet(members \ received)
      BY <3>1, <3>2, FS_Subset
    <3>4. PICK x : members \ received = {x}
      BY <3>3, FS_Singleton
    <3> QED
      BY <3>4
  <2>5. n \in f.parity \ received /\ f.parity \ {n} \subseteq received
    BY <2>3, <2>4
  <2> QED
    BY <2>1, <2>5 DEF Settled
<1> QED
  BY <1>1, DoneInvHolds, PTL
=============================================================================
