-------------------------- MODULE FrameBufferProof --------------------------
(***************************************************************************)
(* Proofs about FrameBuffer, for every sequence of frames, longer than a   *)
(* buffer or not, modulus, buffer size, number of buffers and value of a   *)
(* pointer: the types, the pictures without holes and, on a path that      *)
(* keeps the order, the pictures in order; and that a frame that fits,     *)
(* whose packets arrive in time, is handed out whole.                      *)
(***************************************************************************)
EXTENDS FrameBuffer, FiniteSetTheorems, WellFoundedInduction, TLAPS

----------------------------------------------------------------------------
(* Numbers *)

\* Lemma: the remainder of a number is determined by any way to write it.
LEMMA Remainder ==
  ASSUME NEW m \in Int, m > 0, NEW a \in Int, NEW q \in Int,
         NEW r \in 0..(m - 1), a = m * q + r
  PROVE  a % m = r
OBVIOUS

\* Lemma: the remainder k numbers further on.
LEMMA ModPlus ==
  ASSUME NEW m \in Nat \ {0}, NEW a \in Nat, NEW k \in 0..(m - 1)
  PROVE  /\ a % m \in 0..(m - 1)
         /\ (a + k) % m = IF (a % m) + k < m THEN (a % m) + k
                                             ELSE (a % m) + k - m
<1>1. m \in Int /\ m > 0 /\ a % m \in 0..(m - 1) /\ a \div m \in Int
  OBVIOUS
<1>2. a = m * (a \div m) + (a % m)
  BY <1>1
<1>3. CASE (a % m) + k < m
  BY <1>1, <1>3
<1>4. CASE (a % m) + k >= m
  <2>1. a + k = m * ((a \div m) + 1) + ((a % m) + k - m)
    BY <1>1, <1>2
  <2>2. (a \div m) + 1 \in Int /\ a + k \in Int
        /\ (a % m) + k - m \in 0..(m - 1)
    BY <1>1, <1>4
  <2>3. (a + k) % m = (a % m) + k - m
    BY <1>1, <2>1, <2>2, Remainder
  <2> QED BY <1>1, <1>4, <2>3
<1> QED BY <1>1, <1>3, <1>4

\* Lemma: a set of numbers that is not empty has a least one.
LEMMA Least ==
  ASSUME NEW S \in SUBSET Nat, S # {}
  PROVE  \E m \in S : \A k \in S : m <= k
<1>1. PICK m \in S : \A k \in S : ~(<<k, m>> \in OpToRel(<, Nat))
  BY WFMin, NatLessThanWellFounded, Zenon
<1>2. \A k \in S : ~(k < m)
  BY <1>1 DEF OpToRel
<1> QED BY <1>2

----------------------------------------------------------------------------
(* Packets *)

\* Lemma: the constants are numbers.
LEMMA Sizes ==
  /\ SeqMod \in Nat \ {0} /\ FirstSeq \in 0..(SeqMod - 1)
  /\ MaxDiff \in Nat /\ 2 * MaxDiff < SeqMod
  /\ frameBufferSize \in Nat \ {0}
  /\ MaxBack \in Nat /\ MaxBack <= BufferSize
  /\ BufferSize \in Nat \ {0} /\ BufferSize <= MaxDiff
  /\ Pointers \subseteq Int
  /\ \A f \in Frames : Lengths[f] \in Nat \ {0}
BY FrameAssumption DEF Frames

\* Lemma: the numbers of a frame that fits tell its packets apart.
LEMMA FitsNumbered ==
  ASSUME NEW f \in Frames, Fits(f)
  PROVE  Numbered(f)
BY Sizes DEF Fits, Numbered

\* Lemma: a place in the stream is a frame and a place in it.
LEMMA StreamIs ==
  \A s : s \in Stream
         <=> \E f \in Frames : \E i \in 1..Lengths[f] : s = <<f, i>>
<1>1. ASSUME NEW s, s \in Stream
      PROVE  \E f \in Frames : \E i \in 1..Lengths[f] : s = <<f, i>>
  <2>1. PICK f \in Frames : s \in {f} \X (1..Lengths[f])
    BY <1>1 DEF Stream
  <2> QED BY <2>1
<1>2. ASSUME NEW f \in Frames, NEW i \in 1..Lengths[f]
      PROVE  <<f, i>> \in Stream
  <2>1. <<f, i>> \in {f} \X (1..Lengths[f])
    OBVIOUS
  <2> QED BY <2>1 DEF Stream
<1> QED BY <1>1, <1>2

\* Lemma: the number of packets before a frame is a number.
LEMMA BeforeType ==
  ASSUME NEW f \in Frames
  PROVE  Before[f] \in Nat
<1> DEFINE S == {s \in Stream : s[1] < f}
           Part(g) == {g} \X (1..Lengths[g])
           F == [g \in Frames |-> Part(g)]
           Parts == {F[g] : g \in Frames}
<1>1. IsFiniteSet(Frames)
  <2>1. 1 \in Int /\ Len(Lengths) \in Int
    BY FrameAssumption
  <2> QED BY <2>1, FS_Interval DEF Frames
<1>2. IsFiniteSet(Parts)
  <2>1. F \in Surjection(Frames, Parts)
    BY DEF Surjection
  <2> QED BY <1>1, <2>1, FS_Surjection
<1>3. \A T \in Parts : IsFiniteSet(T)
  <2> SUFFICES ASSUME NEW g \in Frames PROVE IsFiniteSet(Part(g))
    OBVIOUS
  <2>1. 1 \in Int /\ Lengths[g] \in Int
    BY Sizes
  <2>2. IsFiniteSet(1..Lengths[g]) /\ IsFiniteSet({g})
    BY <2>1, FS_Interval, FS_Singleton
  <2> QED BY <2>2, FS_Product
<1>4. IsFiniteSet(Stream)
  <2>1. IsFiniteSet(UNION Parts)
    BY <1>2, <1>3, FS_UNION
  <2>2. Stream = UNION Parts
    <3>1. Parts = {Part(g) : g \in Frames}
      OBVIOUS
    <3> QED BY <3>1 DEF Stream
  <2> QED BY <2>1, <2>2
<1>5. IsFiniteSet(S)
  <2>1. S \subseteq Stream
    OBVIOUS
  <2> QED BY <1>4, <2>1, FS_Subset
<1>6. Cardinality(S) \in Nat
  BY <1>5, FS_CardinalityType
<1> QED BY <1>6 DEF Before

\* Lemma: a packet is given by its frame and its place in it.
LEMMA PacketIs ==
  /\ \A f \in Frames : \A i \in 1..Lengths[f] :
       /\ Packet(f, i) \in Packets
       /\ Packet(f, i).timestamp = f /\ Packet(f, i).n = i
       /\ Packet(f, i).mark = (i = Lengths[f])
  /\ \A p \in Packets :
       /\ p.timestamp \in Frames
       /\ p.n \in 1..Lengths[p.timestamp]
       /\ p = Packet(p.timestamp, p.n)
       /\ p.mark = (p.n = Lengths[p.timestamp])
       /\ p # NULL
<1>1. \A f, i : /\ Packet(f, i).timestamp = f /\ Packet(f, i).n = i
                /\ Packet(f, i).mark = (i = Lengths[f])
  BY DEF Packet
<1>2. \A f \in Frames : \A i \in 1..Lengths[f] : Packet(f, i) \in Packets
  <2> SUFFICES ASSUME NEW f \in Frames, NEW i \in 1..Lengths[f]
               PROVE  Packet(f, i) \in Packets
    OBVIOUS
  <2>1. <<f, i>> \in Stream
    BY StreamIs
  <2> QED BY <2>1 DEF Packets
<1>3. \A p \in Packets : \E f \in Frames : \E i \in 1..Lengths[f] :
        p = Packet(f, i)
  BY StreamIs DEF Packets
<1>4. \A p \in Packets : p # NULL
  BY NullAssumption
<1> QED BY <1>1, <1>2, <1>3, <1>4

\* Lemma: the numbers of two packets of a frame, the second k places on.
LEMMA NumberOn ==
  ASSUME NEW f \in Frames, NEW i \in 1..Lengths[f], NEW k \in 0..(SeqMod - 1),
         i + k <= Lengths[f]
  PROVE  /\ Packet(f, i).seq \in 0..(SeqMod - 1)
         /\ Packet(f, i + k).seq = IF Packet(f, i).seq + k < SeqMod
                                   THEN Packet(f, i).seq + k
                                   ELSE Packet(f, i).seq + k - SeqMod
<1> DEFINE a == FirstSeq + Before[f] + i - 1
<1>1. a \in Nat /\ SeqMod \in Nat \ {0}
  BY Sizes, BeforeType
<1>2. FirstSeq + Before[f] + (i + k) - 1 = a + k
  BY <1>1, Sizes, BeforeType
<1>3. Packet(f, i).seq = a % SeqMod /\ Packet(f, i + k).seq = (a + k) % SeqMod
  BY <1>2 DEF Packet
<1> HIDE DEF a
<1> QED BY <1>1, <1>3, ModPlus

\* Lemma: a packet's number is a sequence number.
LEMMA NumberType ==
  ASSUME NEW p \in Packets
  PROVE  p.seq \in 0..(SeqMod - 1)
<1>1. PICK f \in Frames : \E i \in 1..Lengths[f] : p = Packet(f, i)
  BY PacketIs
<1>2. PICK i \in 1..Lengths[f] : p = Packet(f, i)
  BY <1>1
<1>3. i + 0 <= Lengths[f] /\ 0 \in 0..(SeqMod - 1)
  BY Sizes
<1> QED BY <1>2, <1>3, NumberOn

\* Lemma: the numbers of two packets of a frame differ by the difference of
\* their places and some turns: one at most if the numbers tell the places.
LEMMA NumbersDiffer ==
  ASSUME NEW p \in Packets, NEW q \in Packets, p.timestamp = q.timestamp
  PROVE  /\ p.seq \in 0..(SeqMod - 1) /\ q.seq \in 0..(SeqMod - 1)
         /\ p.n \in Nat /\ q.n \in Nat
         /\ p.n - q.n < Lengths[p.timestamp]
         /\ q.n - p.n < Lengths[p.timestamp]
         /\ Numbered(p.timestamp) =>
              \/ p.seq - q.seq = p.n - q.n
              \/ p.seq - q.seq = p.n - q.n + SeqMod /\ p.n < q.n
              \/ p.seq - q.seq = p.n - q.n - SeqMod /\ q.n < p.n
<1> DEFINE f == p.timestamp
<1>1. /\ f \in Frames /\ p.n \in 1..Lengths[f] /\ q.n \in 1..Lengths[f]
      /\ p = Packet(f, p.n) /\ q = Packet(f, q.n)
  BY PacketIs
<1>2. Lengths[f] \in Nat /\ SeqMod \in Nat /\ BufferSize \in Nat
  BY <1>1, Sizes
<1>3. p.seq \in 0..(SeqMod - 1) /\ q.seq \in 0..(SeqMod - 1)
  BY NumberType
<1>4. CASE ~Numbered(f)
  BY <1>1, <1>2, <1>3, <1>4
<1>5. CASE Numbered(f) /\ p.n >= q.n
  <2>1. p.n - q.n \in 0..(SeqMod - 1) /\ q.n + (p.n - q.n) = p.n
    BY <1>1, <1>2, <1>5 DEF Numbered
  <2>2. p.seq = IF q.seq + (p.n - q.n) < SeqMod THEN q.seq + (p.n - q.n)
                ELSE q.seq + (p.n - q.n) - SeqMod
    BY <1>1, <1>2, <2>1, NumberOn
  <2> QED BY <1>1, <1>2, <1>3, <1>5, <2>1, <2>2
<1>6. CASE Numbered(f) /\ p.n < q.n
  <2>1. q.n - p.n \in 0..(SeqMod - 1) /\ p.n + (q.n - p.n) = q.n
    BY <1>1, <1>2, <1>6 DEF Numbered
  <2>2. q.seq = IF p.seq + (q.n - p.n) < SeqMod THEN p.seq + (q.n - p.n)
                ELSE p.seq + (q.n - p.n) - SeqMod
    BY <1>1, <1>2, <2>1, NumberOn
  <2> QED BY <1>1, <1>2, <1>3, <1>6, <2>1, <2>2
<1> QED BY <1>1, <1>2, <1>4, <1>5, <1>6

\* Lemma: two packets of a frame with the same number are the same, if the
\* numbers tell the places.
LEMMA SameNumber ==
  ASSUME NEW p \in Packets, NEW q \in Packets, p.timestamp = q.timestamp,
         p.seq = q.seq, Numbered(p.timestamp)
  PROVE  p = q
<1>1. /\ p.timestamp \in Frames /\ Lengths[p.timestamp] \in Nat
      /\ Lengths[p.timestamp] < SeqMod /\ SeqMod \in Nat
  BY PacketIs, Sizes DEF Numbered
<1>2. p.n = q.n
  BY <1>1, NumbersDiffer
<1> QED BY <1>2, PacketIs

----------------------------------------------------------------------------
(* Buffers *)

Buffers == [timestamp : Nat, numPkts : Int,
            frame : [Slots -> Packets \cup {NULL}]]

\* The packets a buffer holds, and the place of one of them counted from the
\* packet in the first slot.
Holds(b, p) == \E j \in Slots : b.frame[j] = p
Place(b, p) == p.n - b.frame[0].n

\* A packet is in the slot of its place, or left in a slot two or more before:
\* there the packets were that insert has moved on.
InPlace(b) ==
  \A j \in Used(b) :
    Place(b, b.frame[j]) = j \/ Place(b, b.frame[j]) >= j + 2

\* Every packet, left behind or not, is in the slot of its place.
Kept(b) ==
  /\ b.numPkts \in 1..BufferSize
  /\ \A j \in Used(b) : /\ Place(b, b.frame[j]) \in Slots
                        /\ b.frame[Place(b, b.frame[j])] = b.frame[j]

\* The slots of a buffer hold packets of one frame: in place if the numbers
\* tell the places, and all of them if they fit.
Filled(b) ==
  /\ b.frame[0] # NULL
  /\ b.timestamp \in {0, FrameOf(b)}
  /\ \A j \in Used(b) : b.frame[j].timestamp = FrameOf(b)
  /\ Numbered(FrameOf(b)) => InPlace(b)
  /\ Fits(FrameOf(b)) => Kept(b)

\* Lemma: the slots are numbers, the first is 0, and the places of a frame
\* that fits are slots.
LEMMA SlotsAre ==
  /\ 0 \in Slots /\ Slots \subseteq Nat /\ BufferSize \in Nat \ {0}
  /\ \A j \in Int : j \in Slots <=> 0 <= j /\ j < BufferSize
  /\ \A f \in Frames : Fits(f) =>
       \A i, j \in 1..Lengths[f] : i - j >= 0 => i - j \in Slots
BY Sizes DEF Slots, Fits

\* Lemma: what a used slot holds.
LEMMA UsedHolds ==
  ASSUME NEW b \in Buffers, Filled(b), NEW j \in Slots, b.frame[j] # NULL
  PROVE  /\ b.frame[j] \in Packets /\ b.frame[0] \in Packets
         /\ b.frame[j].timestamp = FrameOf(b) /\ FrameOf(b) \in Frames
         /\ Place(b, b.frame[j]) \in Int
         /\ Numbered(FrameOf(b)) => \/ Place(b, b.frame[j]) = j
                                    \/ Place(b, b.frame[j]) >= j + 2
         /\ Fits(FrameOf(b)) => /\ Place(b, b.frame[j]) \in Slots
                                /\ b.frame[Place(b, b.frame[j])] = b.frame[j]
<1>1. b.frame \in [Slots -> Packets \cup {NULL}] /\ 0 \in Slots
  BY SlotsAre DEF Buffers
<1>2. b.frame[j] \in Packets /\ j \in Used(b)
  BY <1>1 DEF Used
<1>3. b.frame[0] \in Packets
  BY <1>1 DEF Filled
<1>4. FrameOf(b) \in Frames
  BY <1>3, PacketIs DEF FrameOf
<1>5. Place(b, b.frame[j]) \in Int
  <2>1. PICK q \in Packets, o \in Packets : q = b.frame[j] /\ o = b.frame[0]
    BY <1>2, <1>3
  <2>2. q.n \in Int /\ o.n \in Int
    BY PacketIs, Sizes
  <2> QED BY <2>1, <2>2 DEF Place
<1> QED BY <1>2, <1>3, <1>4, <1>5 DEF Filled, InPlace, Kept

\* Lemma: the first slot of a buffer holds a packet of its frame.
LEMMA FirstIs ==
  ASSUME NEW b \in Buffers, Filled(b)
  PROVE  /\ b.frame[0] \in Packets /\ b.frame[0].timestamp = FrameOf(b)
         /\ FrameOf(b) \in Frames /\ FrameOf(b) \in Nat /\ FrameOf(b) # 0
         /\ b.frame[0].n \in Nat /\ 0 \in Used(b)
<1>1. 0 \in Slots /\ b.frame[0] # NULL
  BY SlotsAre DEF Filled
<1>2. b.frame[0] \in Packets /\ FrameOf(b) \in Frames
  BY <1>1, UsedHolds
<1> QED BY <1>1, <1>2, PacketIs, Sizes DEF FrameOf, Used, Frames

\* Lemma: a new buffer is filled with its one packet.
LEMMA NewBuffer ==
  ASSUME NEW p \in Packets
  PROVE  /\ RTPBuffer(p) \in Buffers /\ Filled(RTPBuffer(p))
         /\ RTPBuffer(p).timestamp = p.timestamp /\ RTPBuffer(p).numPkts = 1
         /\ FrameOf(RTPBuffer(p)) = p.timestamp /\ Used(RTPBuffer(p)) = {0}
         /\ \A q : q # NULL => (Holds(RTPBuffer(p), q) <=> q = p)
<1> DEFINE b == RTPBuffer(p)
<1>1. p.timestamp \in Nat /\ p.n \in Nat /\ p # NULL
  BY PacketIs, Sizes DEF Frames
<1>2. 0 \in Slots /\ 1 \in 1..BufferSize
  BY SlotsAre
<1>3. /\ b.timestamp = p.timestamp /\ b.frame[0] = p /\ b.numPkts = 1
      /\ \A j \in Slots : b.frame[j] = IF j = 0 THEN p ELSE NULL
  BY <1>2 DEF RTPBuffer
<1>4. b \in Buffers
  BY <1>1, <1>2 DEF RTPBuffer, Buffers
<1> HIDE DEF b
<1>5. Used(b) = {0}
  BY <1>1, <1>2, <1>3 DEF Used
<1>6. Place(b, p) = 0
  BY <1>1, <1>3 DEF Place
<1>7. Filled(b)
  BY <1>1, <1>2, <1>3, <1>5, <1>6 DEF Filled, InPlace, Kept, FrameOf
<1>8. \A q : q # NULL => (Holds(b, q) <=> q = p)
  BY <1>2, <1>3 DEF Holds
<1> QED BY <1>3, <1>4, <1>5, <1>7, <1>8 DEF b, FrameOf

\* Lemma: the distance insert computes is a number, and is none only to a
\* packet that is known.  It is the difference of the places if the frame
\* fits, or if the packet is not refused and the numbers tell the places.
LEMMA DistanceIsPlace ==
  ASSUME NEW b \in Buffers, Filled(b), NEW p \in Packets,
         p.timestamp = FrameOf(b)
  PROVE  /\ Distance(b, p) \in Int /\ Place(b, p) \in Int
         /\ Distance(b, p) = 0 => Known(b, p)
         /\ Fits(FrameOf(b)) => /\ Distance(b, p) = Place(b, p)
                                /\ Place(b, p) >= 0 => Place(b, p) \in Slots
         /\ /\ Numbered(FrameOf(b))
            /\ Distance(b, p) <= BufferSize /\ Distance(b, p) >= -MaxBack
            => Distance(b, p) = Place(b, p)
<1>1. PICK f \in Frames : f = p.timestamp
  BY PacketIs
<1>2. PICK q \in Packets : q = b.frame[0] /\ q.timestamp = f /\ 0 \in Used(b)
  BY <1>1, FirstIs
<1>3. /\ p.seq \in 0..(SeqMod - 1) /\ q.seq \in 0..(SeqMod - 1)
      /\ p.n \in Nat /\ q.n \in Nat
      /\ p.n - q.n < Lengths[f] /\ q.n - p.n < Lengths[f]
      /\ Numbered(f) =>
           \/ p.seq - q.seq = p.n - q.n
           \/ p.seq - q.seq = p.n - q.n + SeqMod /\ p.n < q.n
           \/ p.seq - q.seq = p.n - q.n - SeqMod /\ q.n < p.n
  BY <1>1, <1>2, NumbersDiffer
<1>4. /\ SeqMod \in Nat /\ MaxDiff \in Nat /\ 2 * MaxDiff < SeqMod
      /\ Lengths[f] \in Nat /\ BufferSize \in Nat /\ BufferSize <= MaxDiff
      /\ MaxBack \in Nat /\ MaxBack <= BufferSize
  BY Sizes
<1>5. Place(b, p) = p.n - q.n
  BY <1>2 DEF Place
<1>6. Distance(b, p) = CASE p.seq - q.seq > MaxDiff -> p.seq - q.seq - SeqMod
                         [] p.seq - q.seq < -MaxDiff -> p.seq - q.seq + SeqMod
                         [] OTHER -> p.seq - q.seq
  BY <1>2 DEF Distance
<1>7. Distance(b, p) = 0 => Known(b, p)
  <2>1. Distance(b, p) = 0 => p.seq = q.seq
    BY <1>3, <1>4, <1>6
  <2> QED BY <1>2, <2>1 DEF Known
<1>8. CASE Fits(f)
  <2>1. Numbered(f) /\ Lengths[f] <= BufferSize
    BY <1>8, FitsNumbered DEF Fits
  <2>2. Distance(b, p) = p.n - q.n
    BY <1>3, <1>4, <1>6, <2>1
  <2>3. p.n - q.n >= 0 => p.n - q.n \in Slots
    BY <1>3, <1>4, <2>1, SlotsAre
  <2> QED BY <1>1, <1>3, <1>5, <1>7, <2>2, <2>3
<1>9. CASE ~Fits(f)
  <2>1. /\ Numbered(f)
        /\ Distance(b, p) <= BufferSize /\ Distance(b, p) >= -MaxBack
        => Distance(b, p) = p.n - q.n
    BY <1>3, <1>4, <1>6 DEF Numbered
  <2>2. Distance(b, p) \in Int
    BY <1>3, <1>4, <1>6
  <2> QED BY <1>1, <1>3, <1>5, <1>7, <1>9, <2>1, <2>2
<1> QED BY <1>8, <1>9

\* Lemma: insert knows a packet by its number when it holds it, and knows no
\* other when the frame fits.
LEMMA KnownIsHeld ==
  ASSUME NEW b \in Buffers, Filled(b), NEW p \in Packets,
         p.timestamp = FrameOf(b)
  PROVE  /\ Holds(b, p) => Known(b, p)
         /\ Fits(FrameOf(b)) => (Known(b, p) => Holds(b, p))
<1>1. p # NULL
  BY PacketIs
<1>2. ASSUME Known(b, p), Fits(FrameOf(b)) PROVE Holds(b, p)
  <2>1. PICK j \in Used(b) : b.frame[j].seq = p.seq
    BY <1>2 DEF Known
  <2>2. /\ j \in Slots /\ b.frame[j] \in Packets
        /\ b.frame[j].timestamp = p.timestamp
    BY UsedHolds DEF Used
  <2>3. Numbered(p.timestamp)
    BY <1>2, <2>2, FitsNumbered, PacketIs
  <2>4. b.frame[j] = p
    BY <2>1, <2>2, <2>3, SameNumber
  <2> QED BY <2>2, <2>4 DEF Holds
<1>3. ASSUME Holds(b, p) PROVE Known(b, p)
  BY <1>1, <1>3 DEF Holds, Known, Used
<1> QED BY <1>2, <1>3

\* What insert makes of a buffer.
Written(b, v) == [WithPointer(b, v) EXCEPT !.numPkts = @ + 1]
Added(b, p, d) == [b EXCEPT !.frame[d] = p, !.numPkts = @ + 1]
MovedOn(b, p, d, v) == [Moved(b, p, d, v) EXCEPT !.numPkts = @ + 1]

\* Lemma: insert leaves a buffer alone, or writes one past the last slot, or
\* puts the packet in a free slot, or moves the others on.
LEMMA InsertIs ==
  ASSUME NEW b \in Buffers, Filled(b), NEW p \in Packets,
         p.timestamp = FrameOf(b), NEW v \in Int,
         NEW c, c = insert(b, p, v), NEW d, d = Distance(b, p)
  PROVE  \/ c = b /\ (Known(b, p) \/ Refused(b, p))
         \/ /\ ~Known(b, p) /\ ~Refused(b, p)
            /\ d \in Int /\ d <= BufferSize /\ d >= -MaxBack
            /\ b.numPkts < BufferSize
            /\ \/ d = BufferSize /\ c = Written(b, v)
               \/ /\ d \in Slots /\ d > 0 /\ c = Added(b, p, d)
               \/ /\ d < 0 /\ c = MovedOn(b, p, d, v)
<1>1. CASE Known(b, p) \/ Refused(b, p)
  BY <1>1 DEF insert
<1>2. CASE ~Known(b, p) /\ ~Refused(b, p)
  <2>1. /\ d \in Int /\ d # 0 /\ BufferSize \in Nat /\ MaxBack \in Nat
        /\ b.numPkts \in Int
    BY <1>2, DistanceIsPlace, Sizes DEF Buffers
  <2>2. d <= BufferSize /\ d >= -MaxBack /\ b.numPkts < BufferSize
    BY <1>2, <2>1 DEF Refused
  <2>3. CASE d < 0
    BY <1>2, <2>1, <2>2, <2>3 DEF insert, MovedOn
  <2>4. CASE ~(d < 0)
    <3>1. d > 0 /\ (d = BufferSize \/ d \in Slots)
      BY <2>1, <2>2, <2>4, SlotsAre
    <3>2. c = [Put(b, p, d, v) EXCEPT !.numPkts = @ + 1]
      BY <1>2, <2>4 DEF insert
    <3>3. CASE d = BufferSize
      BY <1>2, <2>1, <2>2, <3>2, <3>3 DEF Put, Written
    <3>4. CASE d # BufferSize
      <4>1. c = [[b EXCEPT !.frame[d] = p] EXCEPT !.numPkts = @ + 1]
        BY <3>2, <3>4 DEF Put
      <4>2. c = Added(b, p, d)
        BY <4>1 DEF Buffers, Added
      <4> QED BY <1>2, <2>1, <2>2, <3>1, <3>4, <4>2
    <3> QED BY <3>3, <3>4
  <2> QED BY <2>3, <2>4
<1> QED BY <1>1, <1>2

\* Lemma: a packet written one past the last slot is not of a frame that
\* fits; the slots are as they were.
LEMMA WrittenOver ==
  ASSUME NEW b \in Buffers, Filled(b), NEW p \in Packets,
         p.timestamp = FrameOf(b), NEW v \in Int, Distance(b, p) = BufferSize,
         NEW c, c = Written(b, v)
  PROVE  /\ ~Fits(FrameOf(b))
         /\ c \in Buffers /\ Filled(c) /\ c.frame = b.frame
         /\ c.timestamp = (IF build = "wide" THEN 0 ELSE b.timestamp)
<1>1. /\ c.frame = b.frame /\ c.numPkts \in Int
      /\ c.timestamp = (IF build = "wide" THEN 0 ELSE b.timestamp)
      /\ c = [timestamp |-> c.timestamp, numPkts |-> c.numPkts,
              frame |-> c.frame]
  BY DEF Written, WithPointer
<1>2. ~Fits(FrameOf(b))
  <2>1. BufferSize >= 0 /\ BufferSize \notin Slots
    BY SlotsAre
  <2> QED BY <2>1, DistanceIsPlace
<1>3. b.timestamp \in Nat /\ b.timestamp \in {0, FrameOf(b)}
  BY DEF Buffers, Filled
<1>4. c \in Buffers
  BY <1>1, <1>3 DEF Buffers
<1>5. /\ FrameOf(c) = FrameOf(b) /\ Used(c) = Used(b)
      /\ \A q : Place(c, q) = Place(b, q)
  BY <1>1 DEF FrameOf, Used, Place
<1>6. Filled(c)
  BY <1>1, <1>2, <1>3, <1>5 DEF Filled, InPlace
<1> QED BY <1>1, <1>2, <1>4, <1>6

\* Lemma: putting a packet in a free slot keeps a buffer filled; if the frame
\* fits it holds what it held.
LEMMA PutFills ==
  ASSUME NEW b \in Buffers, Filled(b), NEW p \in Packets,
         p.timestamp = FrameOf(b), ~Known(b, p), b.numPkts < BufferSize,
         Distance(b, p) \in Slots, Distance(b, p) > 0,
         NEW c, c = Added(b, p, Distance(b, p))
  PROVE  /\ c \in Buffers /\ Filled(c) /\ FrameOf(c) = FrameOf(b)
         /\ c.timestamp = b.timestamp /\ c.numPkts = b.numPkts + 1
         /\ c.frame = [b.frame EXCEPT ![Distance(b, p)] = p]
         /\ Fits(FrameOf(b)) =>
              \A q : q # NULL /\ Holds(b, q) => Holds(c, q)
<1> SUFFICES ASSUME NEW d \in Slots, d = Distance(b, p), d > 0,
                    c = Added(b, p, d)
             PROVE  /\ c \in Buffers /\ Filled(c) /\ FrameOf(c) = FrameOf(b)
                    /\ c.timestamp = b.timestamp
                    /\ c.numPkts = b.numPkts + 1
                    /\ c.frame = [b.frame EXCEPT ![d] = p]
                    /\ Fits(FrameOf(b)) =>
                         \A q : q # NULL /\ Holds(b, q) => Holds(c, q)
  OBVIOUS
<1>1. p # NULL /\ p.n \in Nat /\ p.timestamp \in Frames
  BY PacketIs, Sizes
<1>2. /\ 0 \in Slots /\ Slots \subseteq Nat /\ b.frame[0] # NULL
      /\ BufferSize \in Nat
  BY SlotsAre DEF Filled
<1>3. /\ c.timestamp = b.timestamp /\ c.numPkts = b.numPkts + 1
      /\ c.frame = [b.frame EXCEPT ![d] = p]
      /\ c = [timestamp |-> c.timestamp, numPkts |-> c.numPkts,
              frame |-> c.frame]
  BY DEF Added, Buffers
<1>4. /\ b.frame \in [Slots -> Packets \cup {NULL}]
      /\ b.numPkts \in Int /\ b.timestamp \in Nat
  BY DEF Buffers
<1>5. c \in Buffers
  <2>1. c.frame \in [Slots -> Packets \cup {NULL}] /\ c.numPkts \in Int
    BY <1>3, <1>4
  <2> QED BY <1>3, <1>4, <2>1 DEF Buffers
<1>6. /\ c.frame[d] = p /\ c.frame[0] = b.frame[0]
      /\ \A j \in Slots : j # d => c.frame[j] = b.frame[j]
  BY <1>2, <1>3, <1>4
<1>7. FrameOf(c) = FrameOf(b) /\ \A q : Place(c, q) = Place(b, q)
  BY <1>6 DEF FrameOf, Place
<1>8. ASSUME NEW j \in Used(c), j # d
      PROVE  j \in Slots /\ j \in Used(b) /\ c.frame[j] = b.frame[j]
  BY <1>6, <1>8 DEF Used
<1>9. Numbered(FrameOf(b)) => Place(b, p) = d
  <2>1. d <= BufferSize /\ d >= -MaxBack
    BY <1>2, SlotsAre, Sizes
  <2> QED BY <2>1, DistanceIsPlace
<1>10. ASSUME Numbered(FrameOf(b)) PROVE InPlace(c)
  <2> SUFFICES ASSUME NEW j \in Used(c)
               PROVE  Place(c, c.frame[j]) = j \/ Place(c, c.frame[j]) >= j + 2
    BY DEF InPlace
  <2>1. CASE j = d
    BY <1>6, <1>7, <1>9, <1>10, <2>1
  <2>2. CASE j # d
    BY <1>7, <1>8, <1>10, <2>2 DEF Filled, InPlace
  <2> QED BY <2>1, <2>2
<1>11. ASSUME Fits(FrameOf(b)), NEW j \in Used(b)
       PROVE  /\ Place(b, b.frame[j]) \in Slots
              /\ b.frame[Place(b, b.frame[j])] = b.frame[j]
              /\ Place(b, b.frame[j]) # d
  <2>1. /\ j \in Slots /\ Numbered(FrameOf(b))
        /\ Place(b, b.frame[j]) \in Slots
        /\ b.frame[Place(b, b.frame[j])] = b.frame[j]
        /\ b.frame[j] \in Packets /\ b.frame[j].timestamp = p.timestamp
    BY <1>1, <1>11, UsedHolds, FitsNumbered DEF Used
  <2>2. b.frame[j].n # p.n
    <3>1. b.frame[j] # p
      BY <1>1, KnownIsHeld, <2>1 DEF Holds
    <3> QED BY <2>1, <3>1, PacketIs
  <2>3. PICK o \in Nat, m \in Nat : o = b.frame[0].n /\ m = b.frame[j].n
    BY <2>1, FirstIs, PacketIs, Sizes
  <2>4. m - o # p.n - o
    BY <1>1, <2>2, <2>3
  <2>5. Place(b, p) = p.n - o /\ Place(b, b.frame[j]) = m - o
    BY <2>3 DEF Place
  <2> QED BY <1>9, <2>1, <2>4, <2>5
<1>12. ASSUME Fits(FrameOf(b)) PROVE Kept(c)
  <2>1. c.numPkts \in 1..BufferSize
    <3>1. b.numPkts \in 1..BufferSize
      BY <1>12 DEF Filled, Kept
    <3> QED BY <1>2, <1>3, <3>1
  <2>2. ASSUME NEW j \in Used(c)
        PROVE  /\ Place(c, c.frame[j]) \in Slots
               /\ c.frame[Place(c, c.frame[j])] = c.frame[j]
    <3>1. CASE j = d
      <4>1. Place(b, p) = d
        BY <1>1, <1>9, <1>12, FitsNumbered
      <4> QED BY <1>6, <1>7, <3>1, <4>1
    <3>2. CASE j # d
      BY <1>6, <1>7, <1>8, <1>11, <1>12, <3>2
    <3> QED BY <3>1, <3>2
  <2> QED BY <2>1, <2>2 DEF Kept
<1>13. \A j \in Used(c) : c.frame[j].timestamp = FrameOf(c)
  BY <1>6, <1>7, <1>8 DEF Filled
<1>14. Filled(c)
  <2>1. c.timestamp \in {0, FrameOf(c)} /\ c.frame[0] # NULL
    BY <1>2, <1>3, <1>6, <1>7 DEF Filled
  <2> QED BY <1>7, <1>10, <1>12, <1>13, <2>1 DEF Filled
<1>15. ASSUME Fits(FrameOf(b)), NEW q, q # NULL, Holds(b, q) PROVE Holds(c, q)
  <2>1. PICK j \in Used(b) : b.frame[j] = q
    BY <1>15 DEF Holds, Used
  <2>2. /\ Place(b, q) \in Slots /\ Place(b, q) # d
        /\ b.frame[Place(b, q)] = q
    BY <1>11, <1>15, <2>1
  <2> QED BY <1>6, <2>2 DEF Holds
<1> QED BY <1>3, <1>5, <1>7, <1>14, <1>15

\* Lemma: moving the packets on for one from before the first slot keeps a
\* buffer filled; if the frame fits no packet goes past the last slot.
LEMMA MovedFills ==
  ASSUME NEW b \in Buffers, Filled(b), NEW p \in Packets,
         p.timestamp = FrameOf(b), NEW v \in Int,
         NEW d \in Int, d = Distance(b, p), d < 0, d >= -MaxBack,
         NEW c, c = MovedOn(b, p, d, v)
  PROVE  /\ c \in Buffers /\ Filled(c) /\ FrameOf(c) = FrameOf(b)
         /\ c.timestamp = (IF build = "wide" THEN 0 ELSE b.timestamp)
         /\ \A q : q # NULL /\ Holds(c, q) => Holds(b, q) \/ q = p
         /\ Fits(FrameOf(b)) =>
              /\ \A q : q # NULL /\ Holds(b, q) => Holds(c, q)
              /\ Holds(c, p)
<1>1. p # NULL /\ p.n \in Nat /\ p.timestamp \in Frames
  BY PacketIs, Sizes
<1>2. /\ 0 \in Slots /\ Slots \subseteq Nat /\ BufferSize \in Nat \ {0}
      /\ \A j \in Slots : j + d >= 0 => j + d \in Slots
  BY SlotsAre
<1>3. /\ c.timestamp = (IF build = "wide" THEN 0 ELSE b.timestamp)
      /\ c.numPkts = (IF BufferSize + d \in Used(b) THEN v ELSE 0) + 1
      /\ c.frame = [j \in Slots |-> IF j = 0 THEN p
                                    ELSE IF j + d >= 0 THEN b.frame[j + d]
                                    ELSE b.frame[j]]
      /\ c = [timestamp |-> c.timestamp, numPkts |-> c.numPkts,
              frame |-> c.frame]
  BY DEF MovedOn, Moved, WithPointer, Buffers
<1>4. /\ b.frame \in [Slots -> Packets \cup {NULL}] /\ b.timestamp \in Nat
      /\ b.timestamp \in {0, FrameOf(b)}
  BY DEF Buffers, Filled
<1>5. c \in Buffers
  <2>1. c.frame \in [Slots -> Packets \cup {NULL}]
    BY <1>2, <1>3, <1>4
  <2>2. c.numPkts \in Int /\ c.timestamp \in Nat
    BY <1>3, <1>4
  <2> QED BY <1>3, <2>1, <2>2 DEF Buffers
<1>6. /\ c.frame[0] = p
      /\ \A j \in Slots : j # 0 /\ j + d >= 0 => c.frame[j] = b.frame[j + d]
      /\ \A j \in Slots : j # 0 /\ ~(j + d >= 0) => c.frame[j] = b.frame[j]
  BY <1>2, <1>3
<1>7. FrameOf(c) = FrameOf(b) /\ \A q : Place(c, q) = q.n - p.n
  BY <1>6 DEF FrameOf, Place
\* Where what a slot of c holds has been in b.
<1>8. ASSUME NEW j \in Used(c), j # 0
      PROVE  /\ j \in Slots /\ j \in Nat /\ j >= 1
             /\ \/ /\ j + d >= 0 /\ j + d \in Used(b)
                   /\ c.frame[j] = b.frame[j + d]
                \/ /\ ~(j + d >= 0) /\ j \in Used(b)
                   /\ c.frame[j] = b.frame[j]
  <2>0. j \in Slots /\ c.frame[j] # NULL
    BY DEF Used
  <2>1. j \in Slots /\ j \in Nat /\ j >= 1 /\ c.frame[j] # NULL
    BY <1>2, <1>8, <2>0
  <2>2. CASE j + d >= 0
    <3>1. j + d \in Slots /\ c.frame[j] = b.frame[j + d]
      BY <1>2, <1>6, <1>8, <2>1, <2>2
    <3> QED BY <2>1, <2>2, <3>1 DEF Used
  <2>3. CASE ~(j + d >= 0)
    <3>1. c.frame[j] = b.frame[j]
      BY <1>6, <1>8, <2>1, <2>3
    <3> QED BY <2>1, <2>3, <3>1 DEF Used
  <2> QED BY <2>1, <2>2, <2>3
<1>9. ASSUME NEW j \in Used(c)
      PROVE  c.frame[j] = p \/ \E i \in Used(b) : c.frame[j] = b.frame[i]
  BY <1>6, <1>8
<1>10. \A j \in Used(c) : c.frame[j].timestamp = FrameOf(c)
  BY <1>7, <1>9 DEF Filled
<1>11. ASSUME Numbered(FrameOf(b)), NEW j \in Used(b)
       PROVE  /\ Place(b, b.frame[j]) \in Int
              /\ Place(c, b.frame[j]) = Place(b, b.frame[j]) - d
  <2>1. j \in Slots /\ b.frame[j] # NULL
    BY DEF Used
  <2>2. b.frame[j] \in Packets
    BY <2>1, UsedHolds
  <2>3. PICK o \in Nat, m \in Nat : o = b.frame[0].n /\ m = b.frame[j].n
    BY <2>2, FirstIs, PacketIs, Sizes
  <2>4. d = p.n - o
    <3>1. d <= BufferSize
      BY <1>2
    <3>2. d = Place(b, p)
      BY <1>11, <3>1, DistanceIsPlace
    <3> QED BY <2>3, <3>2 DEF Place
  <2>5. Place(b, b.frame[j]) = m - o /\ Place(c, b.frame[j]) = m - p.n
    BY <1>7, <2>3 DEF Place
  <2> QED BY <1>1, <2>3, <2>4, <2>5
<1>12. ASSUME Numbered(FrameOf(b)) PROVE InPlace(c)
  <2> SUFFICES ASSUME NEW j \in Used(c)
               PROVE  Place(c, c.frame[j]) = j \/ Place(c, c.frame[j]) >= j + 2
    BY DEF InPlace
  <2>1. CASE j = 0
    BY <1>1, <1>6, <1>7, <2>1
  <2>2. CASE j # 0 /\ j + d >= 0
    <3>1. PICK i \in Used(b) : i = j + d /\ c.frame[j] = b.frame[i]
      BY <1>8, <2>2
    <3>0. j \in Nat
      BY <1>8, <2>2
    <3>2. PICK t \in Int : /\ t = Place(b, b.frame[i])
                           /\ Place(c, b.frame[i]) = t - d
      BY <1>11, <1>12
    <3>3. t = i \/ t >= i + 2
      BY <1>12, <3>2 DEF Filled, InPlace
    <3>4. t - d = j \/ t - d >= j + 2
      BY <3>0, <3>1, <3>2, <3>3
    <3> QED BY <3>1, <3>2, <3>4
  <2>3. CASE j # 0 /\ ~(j + d >= 0)
    <3>1. j \in Used(b) /\ c.frame[j] = b.frame[j] /\ j \in Nat /\ j >= 1
      BY <1>8, <2>3
    <3>2. PICK t \in Int : /\ t = Place(b, b.frame[j])
                           /\ Place(c, b.frame[j]) = t - d
      BY <1>11, <1>12, <3>1
    <3>3. t = j \/ t >= j + 2
      BY <1>12, <3>1, <3>2 DEF Filled, InPlace
    <3> QED BY <2>3, <3>1, <3>2, <3>3
  <2> QED BY <2>1, <2>2, <2>3
\* A packet held in b is in the slot of its place in c.
<1>13. ASSUME Fits(FrameOf(b)), NEW j \in Used(b)
       PROVE  /\ Place(c, b.frame[j]) \in Slots
              /\ c.frame[Place(c, b.frame[j])] = b.frame[j]
              /\ j + (-d) < BufferSize
  <2>1. /\ j \in Slots /\ j \in Nat /\ b.frame[j] # NULL
        /\ Numbered(FrameOf(b))
    BY <1>1, <1>2, <1>13, FitsNumbered DEF Used
  <2>2. PICK q \in Packets : q = b.frame[j]
    BY <2>1, UsedHolds
  <2>3. /\ q.timestamp = p.timestamp
        /\ Place(b, q) \in Slots /\ b.frame[Place(b, q)] = q
        /\ Place(b, q) = j \/ Place(b, q) >= j + 2
        /\ Place(c, q) = Place(b, q) - d
    BY <1>11, <1>13, <2>1, <2>2, UsedHolds
  <2>4. PICK t \in Slots, s \in Int : t = Place(b, q) /\ s = t - d
    <3>1. PICK t \in Slots : t = Place(b, q)
      BY <2>3
    <3>2. t - d \in Int
      BY <1>2
    <3> QED BY <3>1, <3>2
  <2>5. s \in Slots
    <3>1. /\ q.n \in 1..Lengths[p.timestamp]
          /\ p.n \in 1..Lengths[p.timestamp]
      BY <2>2, <2>3, PacketIs
    <3>2. q.n - p.n = s
      BY <1>7, <2>3, <2>4
    <3>3. s >= 0
      BY <1>2, <2>4
    <3> QED BY <1>1, <1>13, <3>1, <3>2, <3>3, SlotsAre
  <2>6. c.frame[s] = b.frame[t]
    <3>1. s # 0 /\ s + d = t /\ s + d >= 0
      BY <1>2, <2>4
    <3> QED BY <1>6, <2>5, <3>1
  <2>7. j + (-d) < BufferSize
    BY <2>1, <2>3, <2>4, <2>5, SlotsAre
  <2> QED BY <2>2, <2>3, <2>4, <2>5, <2>6, <2>7
<1>14. ASSUME Fits(FrameOf(b)) PROVE Kept(c)
  <2>1. c.numPkts \in 1..BufferSize
    <3>1. BufferSize + d \notin Used(b)
      <4>1. ASSUME BufferSize + d \in Used(b) PROVE FALSE
        BY <1>2, <1>13, <1>14, <4>1
      <4> QED BY <4>1
    <3> QED BY <1>2, <1>3, <3>1
  <2>2. ASSUME NEW j \in Used(c)
        PROVE  /\ Place(c, c.frame[j]) \in Slots
               /\ c.frame[Place(c, c.frame[j])] = c.frame[j]
    <3>1. CASE c.frame[j] = p
      BY <1>1, <1>2, <1>6, <1>7, <3>1
    <3>2. CASE \E i \in Used(b) : c.frame[j] = b.frame[i]
      BY <1>13, <1>14, <3>2
    <3> QED BY <1>9, <3>1, <3>2
  <2> QED BY <2>1, <2>2 DEF Kept
<1>15. Filled(c)
  <2>1. c.timestamp \in {0, FrameOf(c)} /\ c.frame[0] # NULL
    BY <1>1, <1>3, <1>4, <1>6, <1>7
  <2> QED BY <1>7, <1>10, <1>12, <1>14, <2>1 DEF Filled
<1>16. ASSUME NEW q, q # NULL, Holds(c, q) PROVE Holds(b, q) \/ q = p
  <2>1. PICK j \in Used(c) : c.frame[j] = q
    BY <1>16 DEF Holds, Used
  <2> QED BY <1>9, <2>1 DEF Holds, Used
<1>17. ASSUME Fits(FrameOf(b)), NEW q, q # NULL, Holds(b, q)
       PROVE  Holds(c, q)
  <2>1. PICK j \in Used(b) : b.frame[j] = q
    BY <1>17 DEF Holds, Used
  <2> QED BY <1>13, <1>17, <2>1 DEF Holds
<1>18. Holds(c, p)
  BY <1>2, <1>6 DEF Holds
<1> QED BY <1>3, <1>5, <1>7, <1>15, <1>16, <1>17, <1>18

\* Lemma: insert keeps a buffer filled.  It keeps the timestamp in a narrow
\* build, and for a packet from after the first slot of a frame that fits; if
\* the frame fits, what the buffer held it holds, and the new packet unless
\* it refuses it.
LEMMA InsertFills ==
  ASSUME NEW b \in Buffers, Filled(b), NEW p \in Packets,
         p.timestamp = b.timestamp, NEW v \in Int, NEW c, c = insert(b, p, v)
  PROVE  /\ c \in Buffers /\ Filled(c) /\ FrameOf(c) = FrameOf(b)
         /\ b.timestamp = FrameOf(b) /\ c.timestamp \in {0, b.timestamp}
         /\ build = "narrow" \/ (Fits(FrameOf(b)) /\ Place(b, p) >= 0)
              => c.timestamp = b.timestamp
         /\ \A q : q # NULL /\ Holds(c, q) => Holds(b, q) \/ q = p
         /\ Fits(FrameOf(b)) =>
              /\ \A q : q # NULL /\ Holds(b, q) => Holds(c, q)
              /\ Refused(b, p) \/ Holds(c, p)
<1>1. p.timestamp # 0 /\ p # NULL
  BY PacketIs DEF Frames
<1>2. p.timestamp = FrameOf(b)
  BY <1>1 DEF Filled
<1>3. PICK d : d = Distance(b, p)
  OBVIOUS
<1>4. /\ d \in Int /\ Place(b, p) \in Int
      /\ Fits(FrameOf(b)) => d = Place(b, p)
      /\ Fits(FrameOf(b)) /\ Known(b, p) => Holds(b, p)
  BY <1>2, <1>3, DistanceIsPlace, KnownIsHeld
<1>5. CASE c = b /\ (Known(b, p) \/ Refused(b, p))
  BY <1>2, <1>4, <1>5
<1>6. CASE d = BufferSize /\ c = Written(b, v)
  <2>1. /\ ~Fits(FrameOf(b))
        /\ c \in Buffers /\ Filled(c) /\ c.frame = b.frame
        /\ c.timestamp = (IF build = "wide" THEN 0 ELSE b.timestamp)
    <3>1. Distance(b, p) = BufferSize /\ c = Written(b, v)
      BY <1>3, <1>6, Zenon
    <3> QED BY <1>2, <3>1, WrittenOver, ZenonT(30)
  <2>2. FrameOf(c) = FrameOf(b) /\ \A q : Holds(c, q) <=> Holds(b, q)
    BY <2>1 DEF FrameOf, Holds
  <2> QED BY <1>2, <2>1, <2>2
<1>7. CASE /\ ~Known(b, p) /\ b.numPkts < BufferSize /\ d \in Slots /\ d > 0
           /\ c = Added(b, p, d)
  <2>1. /\ c \in Buffers /\ Filled(c) /\ FrameOf(c) = FrameOf(b)
        /\ c.timestamp = b.timestamp /\ c.frame = [b.frame EXCEPT ![d] = p]
        /\ Fits(FrameOf(b)) =>
             \A q : q # NULL /\ Holds(b, q) => Holds(c, q)
    <3>1. /\ Distance(b, p) \in Slots /\ Distance(b, p) > 0
          /\ ~Known(b, p) /\ b.numPkts < BufferSize
          /\ c = Added(b, p, Distance(b, p))
      BY <1>3, <1>7, Zenon
    <3>2. d = Distance(b, p)
      BY <1>3
    <3> QED BY <1>2, <3>1, <3>2, PutFills, ZenonT(60)
  <2>2. /\ \A q : Holds(c, q) => Holds(b, q) \/ q = p
        /\ Holds(c, p)
    BY <1>7, <2>1 DEF Holds, Buffers
  <2> QED BY <1>2, <2>1, <2>2
<1>8. CASE /\ d < 0 /\ d >= -MaxBack
           /\ c = MovedOn(b, p, d, v)
  <2>1. /\ c \in Buffers /\ Filled(c) /\ FrameOf(c) = FrameOf(b)
        /\ c.timestamp = (IF build = "wide" THEN 0 ELSE b.timestamp)
        /\ \A q : q # NULL /\ Holds(c, q) => Holds(b, q) \/ q = p
        /\ Fits(FrameOf(b)) =>
             /\ \A q : q # NULL /\ Holds(b, q) => Holds(c, q)
             /\ Holds(c, p)
    BY <1>2, <1>3, <1>4, <1>8, MovedFills
  <2>2. ~(Fits(FrameOf(b)) /\ Place(b, p) >= 0)
    BY <1>4, <1>8
  <2> QED BY <1>2, <2>1, <2>2
<1> QED BY <1>2, <1>3, <1>5, <1>6, <1>7, <1>8, InsertIs

\* A buffer that process finds no more has a hole and no mark.  As long as it
\* finds the buffer, numPkts is no less than the packets there are.
HasHole(b) == Marked(b) = {} /\ Used(b) # Slots
Counted(b) == IF b.timestamp = 0 THEN HasHole(b)
              ELSE build # "wide" \/ Cardinality(Used(b)) <= b.numPkts

\* Lemma: the slots are finitely many.
LEMMA UsedFinite ==
  /\ IsFiniteSet(Slots) /\ Cardinality(Slots) = BufferSize
  /\ \A b : IsFiniteSet(Used(b)) /\ Cardinality(Used(b)) \in Nat
<1>1. 0 \in Int /\ BufferSize - 1 \in Int /\ ~(0 > BufferSize - 1)
      /\ BufferSize - 1 - 0 + 1 = BufferSize
  BY Sizes
<1>2. IsFiniteSet(Slots) /\ Cardinality(Slots) = BufferSize
  BY <1>1, FS_Interval DEF Slots
<1>3. \A b : Used(b) \subseteq Slots
  BY DEF Used
<1>4. \A b : IsFiniteSet(Used(b))
  BY <1>2, <1>3, FS_Subset
<1> QED BY <1>2, <1>4, FS_CardinalityType

\* Lemma: a new buffer counts its packet.
LEMMA NewCounted ==
  ASSUME NEW p \in Packets
  PROVE  Counted(RTPBuffer(p))
<1>1. PICK b : b = RTPBuffer(p)
  OBVIOUS
<1>2. Used(b) = {0} /\ b.numPkts = 1 /\ b.timestamp # 0
  BY <1>1, NewBuffer, PacketIs DEF Frames
<1>3. Cardinality(Used(b)) <= b.numPkts
  <2>1. Cardinality({0}) = 1
    BY FS_Singleton
  <2> QED BY <1>2, <2>1
<1> QED BY <1>1, <1>2, <1>3 DEF Counted

\* Lemma: when packets come in their order, a packet is written past the last
\* slot only while a slot is free.
LEMMA InsertCounts ==
  ASSUME NEW b \in Buffers, Filled(b), Counted(b), Numbered(FrameOf(b)),
         NEW p \in Packets, p.timestamp = b.timestamp,
         \A q \in Packets : Holds(b, q) => q.n < p.n,
         NEW v \in Int, NEW c, c = insert(b, p, v)
  PROVE  Counted(c)
<1>1. /\ p.timestamp # 0 /\ p.n \in Nat /\ p.timestamp \in Frames
      /\ p.n <= Lengths[p.timestamp] /\ Lengths[p.timestamp] \in Nat
  BY PacketIs, Sizes DEF Frames
<1>2. p.timestamp = FrameOf(b) /\ b.timestamp # 0
  BY <1>1 DEF Filled
<1>3. PICK d : d = Distance(b, p)
  OBVIOUS
<1>4. build # "wide" \/ Cardinality(Used(b)) <= b.numPkts
  BY <1>2 DEF Counted
<1>5. CASE c = b
  BY <1>5
<1>6. CASE /\ d = BufferSize /\ b.numPkts < BufferSize
           /\ c = Written(b, v)
  <2>1. /\ c.frame = b.frame
        /\ c.timestamp = (IF build = "wide" THEN 0 ELSE b.timestamp)
    <3>1. Distance(b, p) = BufferSize /\ c = Written(b, v)
      BY <1>3, <1>6, Zenon
    <3> QED BY <1>2, <3>1, WrittenOver, ZenonT(30)
  <2>2. CASE build # "wide"
    <3>1. c.timestamp = b.timestamp /\ Used(c) = Used(b)
      BY <2>1, <2>2 DEF Used
    <3> QED BY <1>2, <2>2, <3>1 DEF Counted
  <2>3. CASE build = "wide"
    <3>1. Marked(b) = {}
      <4> SUFFICES ASSUME NEW j \in Used(b), b.frame[j].mark PROVE FALSE
        BY DEF Marked
      <4>1. PICK q \in Packets : q = b.frame[j] /\ q.timestamp = p.timestamp
        BY <1>2, UsedHolds DEF Used
      <4>2. q.n < p.n /\ q.n = Lengths[p.timestamp]
        <5>1. Holds(b, q)
          BY <4>1 DEF Holds, Used
        <5>2. q.mark
          BY <4>1
        <5>3. q.mark = (q.n = Lengths[q.timestamp])
          BY PacketIs
        <5> QED BY <4>1, <5>1, <5>2, <5>3, Zenon
      <4> QED BY <1>1, <4>2
    <3>2. Used(b) # Slots
      <4>1. Cardinality(Used(b)) <= b.numPkts /\ b.numPkts \in Int
        BY <1>4, <2>3 DEF Buffers
      <4>2. BufferSize \in Nat /\ Cardinality(Used(b)) \in Nat
        BY UsedFinite, Sizes
      <4>3. Cardinality(Used(b)) # BufferSize
        BY <1>6, <4>1, <4>2
      <4> QED BY <4>3, UsedFinite
    <3>3. Used(c) = Used(b) /\ Marked(c) = Marked(b) /\ c.timestamp = 0
      BY <2>1, <2>3 DEF Used, Marked
    <3> QED BY <3>1, <3>2, <3>3 DEF Counted, HasHole
  <2> QED BY <2>2, <2>3
<1>7. CASE /\ ~Known(b, p) /\ b.numPkts < BufferSize /\ d \in Slots /\ d > 0
           /\ c = Added(b, p, d)
  <2>1. /\ c.timestamp = b.timestamp /\ c.numPkts = b.numPkts + 1
        /\ c.frame = [b.frame EXCEPT ![d] = p]
    <3>1. /\ Distance(b, p) \in Slots /\ Distance(b, p) > 0
          /\ ~Known(b, p) /\ b.numPkts < BufferSize
          /\ c = Added(b, p, Distance(b, p))
      BY <1>3, <1>7, Zenon
    <3>2. d = Distance(b, p)
      BY <1>3
    <3> QED BY <1>2, <3>1, <3>2, PutFills, ZenonT(60)
  <2>2. CASE build # "wide"
    BY <1>2, <2>1, <2>2 DEF Counted
  <2>3. CASE Cardinality(Used(b)) <= b.numPkts
    <3>1. Used(c) \subseteq Used(b) \cup {d}
      BY <2>1 DEF Used, Buffers
    <3>2. /\ IsFiniteSet(Used(b) \cup {d})
          /\ Cardinality(Used(b) \cup {d}) =
               IF d \in Used(b) THEN Cardinality(Used(b))
                                ELSE Cardinality(Used(b)) + 1
      BY UsedFinite, FS_AddElement
    <3>3. Cardinality(Used(c)) <= Cardinality(Used(b) \cup {d})
      BY <3>1, <3>2, FS_Subset
    <3>4. /\ Cardinality(Used(c)) \in Nat /\ Cardinality(Used(b)) \in Nat
          /\ b.numPkts \in Int
      BY UsedFinite DEF Buffers
    <3>5. Cardinality(Used(c)) <= c.numPkts
      BY <2>1, <2>3, <3>2, <3>3, <3>4
    <3> QED BY <1>2, <2>1, <3>5 DEF Counted
  <2> QED BY <1>4, <2>2, <2>3
<1>8. CASE d \in Int /\ d <= BufferSize /\ d >= -MaxBack /\ d < 0
  <2>1. d = Place(b, p)
    BY <1>2, <1>3, <1>8, DistanceIsPlace
  <2>2. b.frame[0] \in Packets /\ b.frame[0].n \in Nat /\ Holds(b, b.frame[0])
    BY FirstIs DEF Holds, Used
  <2>3. PICK o \in Nat : o = b.frame[0].n /\ o < p.n
    BY <2>2
  <2>4. p.n - o < 0
    BY <1>8, <2>1, <2>3 DEF Place
  <2> QED BY <1>1, <2>3, <2>4
<1> QED BY <1>2, <1>3, <1>5, <1>6, <1>7, <1>8, InsertIs

----------------------------------------------------------------------------
(* Pictures *)

\* Lemma: LastSlot is the first slot with a mark, or the end of the buffer.
LEMMA LastSlotIs ==
  ASSUME NEW b \in Buffers
  PROVE  /\ LastSlot(b) \in Slots
         /\ Marked(b) = {} => LastSlot(b) = BufferSize - 1
         /\ Marked(b) # {} => /\ LastSlot(b) \in Marked(b)
                              /\ \A j \in Marked(b) : LastSlot(b) <= j
<1>1. Marked(b) \in SUBSET Nat /\ Marked(b) \subseteq Slots
  BY SlotsAre DEF Marked, Used
<1>2. CASE Marked(b) = {}
  <2>1. BufferSize - 1 \in Slots
    BY SlotsAre
  <2> QED BY <1>2, <2>1 DEF LastSlot
<1>3. CASE Marked(b) # {}
  <2>1. \E m \in Marked(b) : \A k \in Marked(b) : m <= k
    BY <1>1, <1>3, Least
  <2>2. /\ First(Marked(b)) \in Marked(b)
        /\ \A k \in Marked(b) : First(Marked(b)) <= k
    BY <2>1 DEF First
  <2> QED BY <1>1, <1>3, <2>2 DEF LastSlot
<1> QED BY <1>2, <1>3

\* Lemma: in a complete buffer every slot up to LastSlot is used, and a buffer
\* with a hole and no mark is not complete.
LEMMA CompleteUsed ==
  ASSUME NEW b \in Buffers, Filled(b), Complete(b)
  PROVE  /\ 0..LastSlot(b) \subseteq Used(b)
         /\ ~HasHole(b)
<1>1. PICK L \in Slots : L = LastSlot(b)
  BY LastSlotIs
<1>2. ASSUME NEW j \in 0..L
      PROVE  j \in Used(b)
  <2>1. L \in Nat /\ L < BufferSize /\ BufferSize \in Nat
    BY SlotsAre
  <2>2. j \in Slots /\ (j = 0 \/ j \in 1..L)
    BY <2>1, SlotsAre
  <2>3. b.frame[j] # NULL
    BY <1>1, <2>2 DEF Filled, Complete
  <2> QED BY <2>2, <2>3 DEF Used
<1>3. ASSUME HasHole(b) PROVE FALSE
  <2>1. L = BufferSize - 1
    BY <1>1, <1>3, LastSlotIs DEF HasHole
  <2>2. Slots \subseteq Used(b)
    BY <1>2, <2>1 DEF Slots
  <2> QED BY <1>3, <2>2 DEF HasHole, Used
<1> QED BY <1>1, <1>2, <1>3

\* Lemma: a step that Follows allows is to the next place of the frame, or
\* over one place where the numbers start again.
LEMMA FollowsIsNext ==
  ASSUME NEW p \in Packets, NEW q \in Packets, p.timestamp = q.timestamp,
         Numbered(p.timestamp), Follows(p.seq, q.seq), p.n < q.n
  PROVE  q.n = p.n + 1 \/ q.n = p.n + 2
<1>1. p.timestamp \in Frames
  BY PacketIs
<1>2. /\ SeqMod \in Nat /\ SeqMod >= 3 /\ Lengths[p.timestamp] \in Nat
      /\ Lengths[p.timestamp] < SeqMod
  BY <1>1, Sizes DEF Numbered
<1>3. /\ p.seq \in 0..(SeqMod - 1) /\ q.seq \in 0..(SeqMod - 1)
      /\ p.n \in Nat /\ q.n \in Nat
      /\ q.n - p.n < Lengths[p.timestamp]
      /\ \/ q.seq - p.seq = q.n - p.n
         \/ q.seq - p.seq = q.n - p.n - SeqMod
  BY NumbersDiffer
<1>4. \/ p.seq + 1 < SeqMod - 1 /\ q.seq = p.seq + 1
      \/ p.seq + 1 = SeqMod - 1 /\ q.seq = 0
      \/ p.seq + 1 = SeqMod /\ q.seq = 1
  <2> DEFINE m == SeqMod - 1
  <2>1. m \in Nat /\ m >= 2 /\ p.seq + 1 \in 1..(m + 1) /\ SeqMod = m + 1
    BY <1>2, <1>3
  <2>2. (p.seq + 1) % m = q.seq
    BY DEF Follows
  <2> HIDE DEF m
  <2>3. CASE p.seq + 1 < m
    <3>1. (p.seq + 1) % m = p.seq + 1
      BY <2>1, <2>3
    <3> QED BY <2>1, <2>2, <2>3, <3>1
  <2>4. CASE p.seq + 1 = m
    <3>1. m = m * 1 + 0 /\ 0 \in 0..(m - 1)
      BY <2>1
    <3>2. m % m = 0
      BY <2>1, <3>1, Remainder
    <3> QED BY <2>1, <2>2, <2>4, <3>2
  <2>5. CASE p.seq + 1 = m + 1
    <3>1. m + 1 = m * 1 + 1 /\ 1 \in 0..(m - 1)
      BY <2>1
    <3>2. (m + 1) % m = 1
      BY <2>1, <3>1, Remainder
    <3> QED BY <2>1, <2>2, <2>5, <3>2
  <2> QED BY <2>1, <2>3, <2>4, <2>5
<1> QED BY <1>2, <1>3, <1>4


\* Lemma: in a complete buffer every packet up to the last slot is in the slot
\* of its place: one left behind would be two places or more too far on.
LEMMA NothingLeftBehind ==
  ASSUME NEW b \in Buffers, Filled(b), Complete(b), Numbered(FrameOf(b))
  PROVE  \A j \in 0..LastSlot(b) : Place(b, b.frame[j]) = j
<1>1. PICK L \in Nat : L = LastSlot(b) /\ L \in Slots
  BY LastSlotIs, SlotsAre
<1> DEFINE S == {j \in 0..L : Place(b, b.frame[j]) # j}
<1>2. 0..L \subseteq Slots /\ 0 \in Slots
  BY <1>1, SlotsAre
<1>3. \A j \in 0..L : b.frame[j] # NULL
  BY <1>1, CompleteUsed DEF Used
<1>4. ASSUME S # {} PROVE FALSE
  <2>1. S \in SUBSET Nat
    BY <1>2
  <2>2. PICK m \in S : \A k \in S : m <= k
    BY <1>4, <2>1, Least
  <2>3. m \in 0..L /\ m \in Nat /\ Place(b, b.frame[m]) # m
    BY <2>2
  <2>4. m # 0
    BY <2>3, FirstIs DEF Place
  <2>5. PICK i \in 0..L : i = m - 1
    BY <1>1, <2>3, <2>4
  <2>6. m \in 1..L /\ i + 1 = m /\ i \in Slots /\ m \in Slots
    BY <1>1, <1>2, <2>3, <2>4, <2>5
  <2>7. Place(b, b.frame[i]) = i
    <3>1. ~(m <= i)
      BY <2>5, <2>3
    <3> QED BY <2>2, <2>5, <3>1
  <2>8. Follows(b.frame[i].seq, b.frame[m].seq)
    BY <1>1, <2>5, <2>6 DEF Complete
  <2>9. PICK p \in Packets, q \in Packets : p = b.frame[i] /\ q = b.frame[m]
    BY <1>3, <2>5, <2>3, <2>6, UsedHolds
  <2>10. p.timestamp = FrameOf(b) /\ q.timestamp = FrameOf(b)
    BY <1>3, <2>3, <2>5, <2>6, <2>9, UsedHolds
  <2>11. Place(b, q) >= m + 2
    BY <1>3, <2>3, <2>6, <2>9, UsedHolds
  <2>12. p.n \in Nat /\ q.n \in Nat /\ b.frame[0].n \in Nat
    BY <2>9, FirstIs, PacketIs, Sizes
  <2>13. p.n - b.frame[0].n = i /\ q.n - b.frame[0].n >= m + 2
    BY <2>7, <2>9, <2>11 DEF Place
  <2>14. q.n >= p.n + 3
    BY <2>3, <2>6, <2>12, <2>13
  <2> QED BY <2>8, <2>9, <2>10, <2>12, <2>14, FollowsIsNext
<1> QED BY <1>1, <1>4

\* A picture without holes.
Row(image) ==
  LET p == image[1]
      f == p.timestamp
      last == p.n + Len(image) - 1
  IN  Numbered(f) =>
        /\ \A i \in DOMAIN image : image[i] = Packet(f, p.n + i - 1)
        /\ last = Lengths[f] \/ (last < Lengths[f] /\ Len(image) = BufferSize)

\* Lemma: the picture of a complete buffer is made of its frame's packets, and
\* is a row of places if the numbers tell the places.
LEMMA ImageIsRow ==
  ASSUME NEW b \in Buffers, Filled(b), Complete(b)
  PROVE  /\ getImage(b) \in Seq(Packets) /\ Len(getImage(b)) >= 1
         /\ getImage(b)[1].timestamp = FrameOf(b) /\ FrameOf(b) \in Frames
         /\ Row(getImage(b))
<1>1. PICK L \in Nat : L = LastSlot(b) /\ L \in Slots /\ 0..L \subseteq Slots
  <2>1. PICK L \in Slots : L = LastSlot(b)
    BY LastSlotIs
  <2>2. L \in Nat /\ 0..L \subseteq Slots
    BY SlotsAre
  <2> QED BY <2>1, <2>2
<1>2. PICK f \in Frames : f = FrameOf(b)
  BY FirstIs
<1>3. \A j \in 0..L : b.frame[j] \in Packets /\ b.frame[j].timestamp = f
  BY <1>1, <1>2, CompleteUsed, UsedHolds DEF Used
<1>4. PICK k \in Nat : k = L + 1
  OBVIOUS
<1> DEFINE image == getImage(b)
<1>5. image = [j \in 1..k |-> b.frame[j - 1]]
  BY <1>1, <1>4 DEF getImage
<1> HIDE DEF image
<1>6. \A i \in 1..k : i - 1 \in 0..L /\ image[i] = b.frame[i - 1]
  BY <1>4, <1>5
<1>7. image \in Seq(Packets) /\ Len(image) = k /\ DOMAIN image = 1..k
  BY <1>3, <1>5, <1>6
<1>8. 1 \in 1..k /\ image[1] = b.frame[0] /\ image[1].timestamp = f
  BY <1>3, <1>4, <1>6
<1>9. ASSUME Numbered(f)
      PROVE  /\ \A i \in 1..k : image[i] = Packet(f, image[1].n + i - 1)
             /\ \/ image[1].n + k - 1 = Lengths[f]
                \/ image[1].n + k - 1 < Lengths[f] /\ k = BufferSize
  <2>1. PICK o \in Nat : o = b.frame[0].n
    BY FirstIs
  <2>2. ASSUME NEW j \in 0..L
        PROVE  /\ b.frame[j].n = o + j /\ b.frame[j] = Packet(f, o + j)
               /\ o + j <= Lengths[f]
    <3>1. PICK q \in Packets : q = b.frame[j] /\ q.timestamp = f
      BY <1>3
    <3>2. q.n \in Nat /\ q.n <= Lengths[f] /\ q = Packet(f, q.n)
      BY <3>1, PacketIs, Sizes
    <3>3. q.n - o = j
      BY <1>1, <1>2, <1>9, <2>1, <3>1, NothingLeftBehind DEF Place
    <3>4. q.n = o + j
      BY <3>2, <3>3
    <3> QED BY <3>1, <3>2, <3>4
  <2>3. \A i \in 1..k : image[i] = Packet(f, image[1].n + i - 1)
    <3> SUFFICES ASSUME NEW i \in 1..k
                 PROVE  image[i] = Packet(f, o + i - 1)
      BY <1>8, <2>1
    <3>1. PICK j \in 0..L : j = i - 1 /\ image[i] = b.frame[j]
      BY <1>6
    <3>2. o + j = o + i - 1
      BY <3>1
    <3> QED BY <2>2, <3>1, <3>2
  <2>4. L \in 0..L /\ o + k - 1 = o + L /\ Lengths[f] \in Nat
    BY <1>4, Sizes
  <2>5. CASE Marked(b) = {}
    <3>1. k = BufferSize
      BY <1>1, <1>4, <2>5, LastSlotIs, SlotsAre
    <3> QED BY <1>8, <2>1, <2>2, <2>3, <2>4, <3>1
  <2>6. CASE Marked(b) # {}
    <3>1. b.frame[L].mark
      BY <1>1, <2>6, LastSlotIs DEF Marked
    <3>2. b.frame[L].n = Lengths[f]
      BY <1>3, <2>4, <3>1, PacketIs
    <3>3. o + L = Lengths[f]
      BY <2>2, <2>4, <3>2
    <3> QED BY <1>8, <2>1, <2>3, <2>4, <3>3
  <2> QED BY <2>5, <2>6
<1>10. Row(image)
  BY <1>7, <1>8, <1>9 DEF Row
<1> QED BY <1>2, <1>4, <1>7, <1>8, <1>10 DEF image

\* Lemma: a buffer that holds every packet of its frame, none of which has one
\* of the last two numbers, is complete, and its picture is the frame.
LEMMA AllHeldIsWhole ==
  ASSUME NEW b \in Buffers, Filled(b), Fits(FrameOf(b)), ~WrapsIn(FrameOf(b)),
         \A i \in 1..Lengths[FrameOf(b)] : Holds(b, Packet(FrameOf(b), i))
  PROVE  Complete(b) /\ getImage(b) = Whole(FrameOf(b))
<1>1. 0 \in Slots /\ Slots \subseteq Nat
  BY SlotsAre
<1>2. FrameOf(b) \in Frames /\ b.frame[0] \in Packets
  BY FirstIs
<1>3. PICK f \in Frames : f = FrameOf(b)
  BY <1>2
<1>4. PICK l \in Nat \ {0} : l = Lengths[f]
  BY Sizes
<1>5. \A i \in 1..l : /\ Packet(f, i) \in Packets
                      /\ Packet(f, i).n = i
                      /\ Packet(f, i).mark = (i = l)
                      /\ Packet(f, i) # NULL
  BY <1>4, PacketIs
<1>6. \A i \in 1..l : /\ Place(b, Packet(f, i)) \in Slots
                      /\ b.frame[Place(b, Packet(f, i))] = Packet(f, i)
  <2> SUFFICES ASSUME NEW i \in 1..l
               PROVE  /\ Place(b, Packet(f, i)) \in Slots
                      /\ b.frame[Place(b, Packet(f, i))] = Packet(f, i)
    OBVIOUS
  <2>1. PICK j \in Slots : b.frame[j] = Packet(f, i)
    BY <1>3, <1>4 DEF Holds
  <2> QED BY <1>5, <2>1, UsedHolds
<1>7. b.frame[0].n = 1
  <2>1. PICK o \in Nat : o = b.frame[0].n /\ o >= 1
    BY <1>2, PacketIs, Sizes
  <2>2. 1 - o \in Slots
    BY <1>4, <1>5, <1>6, <2>1 DEF Place
  <2> QED BY <1>1, <2>1, <2>2
<1>8. \A j \in 0..(l - 1) : j \in Slots /\ b.frame[j] = Packet(f, j + 1)
  <2> SUFFICES ASSUME NEW j \in 0..(l - 1)
               PROVE  j \in Slots /\ b.frame[j] = Packet(f, j + 1)
    OBVIOUS
  <2>1. j + 1 \in 1..l /\ (j + 1) - 1 = j
    BY <1>4
  <2>2. Place(b, Packet(f, j + 1)) = j
    BY <1>5, <1>7, <2>1 DEF Place
  <2> QED BY <1>6, <2>1, <2>2
<1>9. PICK e \in Nat : e = l - 1
  BY <1>4
<1>10. e \in Marked(b) /\ \A j \in 0..(e - 1) : j \notin Marked(b)
  <2>1. e \in 0..(l - 1) /\ e + 1 = l /\ l \in 1..l
    BY <1>4, <1>9
  <2>2. \A j \in 0..(e - 1) : j \in 0..(l - 1) /\ j + 1 \in 1..l /\ j + 1 # l
    BY <1>4, <1>9
  <2>3. e \in Slots /\ b.frame[e] = Packet(f, l)
    BY <1>8, <2>1
  <2>4. Packet(f, l).mark /\ Packet(f, l) # NULL
    BY <1>5, <2>1
  <2>5. ASSUME NEW j \in 0..(e - 1) PROVE j \notin Marked(b)
    <3>1. b.frame[j] = Packet(f, j + 1) /\ j + 1 \in 1..l /\ j + 1 # l
      BY <1>8, <2>2
    <3> QED BY <1>5, <3>1 DEF Marked
  <2> QED BY <2>3, <2>4, <2>5 DEF Marked, Used
<1>11. LastSlot(b) = e
  <2>1. /\ LastSlot(b) \in Slots /\ LastSlot(b) \in Marked(b)
        /\ LastSlot(b) <= e
    BY <1>10, LastSlotIs
  <2>2. PICK s \in Nat : s = LastSlot(b)
    BY <1>1, <2>1
  <2>3. ~(s < e)
    BY <1>9, <1>10, <2>1, <2>2
  <2> QED BY <2>1, <2>2, <2>3
<1>12. \A j \in 1..e : /\ b.frame[j] # NULL /\ b.frame[j - 1] # NULL
                       /\ Follows(b.frame[j - 1].seq, b.frame[j].seq)
  <2> SUFFICES ASSUME NEW j \in 1..e
               PROVE  /\ b.frame[j] # NULL /\ b.frame[j - 1] # NULL
                      /\ Follows(b.frame[j - 1].seq, b.frame[j].seq)
    OBVIOUS
  <2>1. /\ j \in 1..l /\ j + 1 \in 1..l /\ j + 1 <= Lengths[f]
        /\ j \in 0..(l - 1) /\ j - 1 \in 0..(l - 1) /\ (j - 1) + 1 = j
    BY <1>4, <1>9
  <2>2. b.frame[j] = Packet(f, j + 1) /\ b.frame[j - 1] = Packet(f, j)
    BY <1>8, <2>1
  <2>3. PICK s : s = Packet(f, j).seq
    OBVIOUS
  <2>4. /\ s \in 0..(SeqMod - 1)
        /\ Packet(f, j + 1).seq = IF s + 1 < SeqMod THEN s + 1
                                                    ELSE s + 1 - SeqMod
    <3>1. 1 \in 0..(SeqMod - 1)
      BY Sizes
    <3> QED BY <1>4, <2>1, <2>3, <3>1, NumberOn
  <2>5. ~(s >= SeqMod - 2)
    <3>1. j \in 1..(Lengths[f] - 1)
      BY <1>4, <1>9
    <3> QED BY <1>3, <2>3, <3>1 DEF WrapsIn
  <2>6. SeqMod \in Nat /\ s + 1 < SeqMod - 1 /\ s + 1 \in Nat
    BY Sizes, <2>4, <2>5
  <2>7. (s + 1) % (SeqMod - 1) = s + 1
    BY <2>6
  <2> QED BY <1>5, <2>1, <2>2, <2>3, <2>4, <2>6, <2>7 DEF Follows
<1>13. Complete(b)
  BY <1>11, <1>12 DEF Complete
<1>14. getImage(b) = [j \in 1..l |-> b.frame[j - 1]]
  <2>1. e + 1 = l
    BY <1>9
  <2> QED BY <1>11, <2>1 DEF getImage
<1>15. \A j \in 1..l : b.frame[j - 1] = Packet(f, j)
  <2> SUFFICES ASSUME NEW j \in 1..l PROVE b.frame[j - 1] = Packet(f, j)
    OBVIOUS
  <2>1. j - 1 \in 0..(l - 1) /\ (j - 1) + 1 = j
    BY <1>4
  <2> QED BY <1>8, <2>1
<1>16. Whole(f) = [j \in 1..l |-> Packet(f, j)]
  BY <1>4 DEF Whole
<1> QED BY <1>3, <1>13, <1>14, <1>15, <1>16

----------------------------------------------------------------------------
(* The inductive invariants *)

\* The variables have their types and the buffers are filled.
BuffersInv ==
  /\ path \in {"ordered", "reordering"} /\ build \in {"wide", "narrow"}
  /\ next \in Nat \X Nat
  /\ net \in Seq(Packets)
  /\ frameBuffer \in Seq(Buffers) /\ Len(frameBuffer) <= frameBufferSize
  /\ \A k \in DOMAIN frameBuffer : Filled(frameBuffer[k])
  /\ newFrameLen \in Nat
  /\ shown \in Seq(Seq(Packets))
  /\ arrived \subseteq Packets

\* Nothing is written over the timestamp of a buffer of frame f.
Own(f) == build = "narrow" \/ (path = "ordered" /\ Fits(f))

\* Then a buffer is found by the timestamp of its frame, and is the only one.
OwnBuffer ==
  \A k \in DOMAIN frameBuffer :
    LET f == FrameOf(frameBuffer[k])
    IN  Own(f) =>
          /\ frameBuffer[k].timestamp = f
          /\ \A j \in DOMAIN frameBuffer : FrameOf(frameBuffer[j]) = f => j = k

\* The order of the packets, the packets that the source has sent, and the
\* order of what is shown: a frame the numbers of which do not tell the places
\* may have two buffers that are complete.
Ahead(p, q) == \/ p.timestamp < q.timestamp
               \/ p.timestamp = q.timestamp /\ p.n < q.n
Sent(p) == \/ p.timestamp < next[1]
           \/ p.timestamp = next[1] /\ p.n < next[2]
After(f, g) == f < g \/ (f = g /\ ~Numbered(f))

\* On a path that keeps the order, what is shown comes before what is kept,
\* and that before what is in flight.  A second buffer of a frame is made only
\* when the first one is found no more.
NetInLine ==
  \A i \in DOMAIN net :
    /\ Sent(net[i])
    /\ \A j \in DOMAIN net : i < j => Ahead(net[i], net[j])
HeldInLine ==
  \A k \in DOMAIN frameBuffer : \A p \in Packets :
    Holds(frameBuffer[k], p) =>
      Sent(p) /\ \A i \in DOMAIN net : Ahead(p, net[i])
FramesInLine ==
  \A j, k \in DOMAIN frameBuffer :
    j < k => \/ FrameOf(frameBuffer[j]) < FrameOf(frameBuffer[k])
             \/ /\ FrameOf(frameBuffer[j]) = FrameOf(frameBuffer[k])
                /\ frameBuffer[j].timestamp = 0
CountsInLine ==
  \A k \in DOMAIN frameBuffer :
    Numbered(FrameOf(frameBuffer[k])) => Counted(frameBuffer[k])
ShownInLine ==
  \A m \in DOMAIN shown :
    /\ shown[m] # <<>> /\ After(shown[m][1].timestamp, next[1])
    /\ \A i \in DOMAIN net : After(shown[m][1].timestamp, net[i].timestamp)
    /\ \A k \in DOMAIN frameBuffer :
         After(shown[m][1].timestamp, FrameOf(frameBuffer[k]))
InLine == path = "ordered" =>
            /\ NetInLine /\ HeldInLine /\ FramesInLine /\ CountsInLine
            /\ ShownInLine

\* A packet that came in time is in a buffer until its frame is closed.
ArrivedIsHeld ==
  \A p \in arrived :
    /\ Own(p.timestamp) /\ Fits(p.timestamp)
    /\ p.timestamp \notin closed \cup refused
    => \E k \in DOMAIN frameBuffer : Holds(frameBuffer[k], p)

----------------------------------------------------------------------------
(* The steps *)

\* Lemma: a sequence without its i-th element.
LEMMA WithoutIs ==
  ASSUME NEW S, NEW s \in Seq(S), NEW i \in DOMAIN s
  PROVE  /\ Without(s, i) \in Seq(S)
         /\ DOMAIN Without(s, i) = 1..(Len(s) - 1)
         /\ \A j \in DOMAIN Without(s, i) :
              /\ j < i => j \in DOMAIN s /\ Without(s, i)[j] = s[j]
              /\ ~(j < i) => j + 1 \in DOMAIN s /\ Without(s, i)[j] = s[j + 1]
<1>1. PICK n \in Nat : n = Len(s) - 1 /\ i \in 1..(n + 1)
  BY SMTT(60)
<1>2. \A j \in 1..n : /\ j \in DOMAIN s /\ s[j] \in S
                      /\ j + 1 \in DOMAIN s /\ s[j + 1] \in S
  BY <1>1
<1>3. Without(s, i) = [j \in 1..n |-> IF j < i THEN s[j] ELSE s[j + 1]]
  BY <1>1 DEF Without
<1>4. Without(s, i) \in Seq(S) /\ DOMAIN Without(s, i) = 1..n
  BY <1>2, <1>3
<1> QED BY <1>1, <1>2, <1>3, <1>4

\* Lemma: what is in flight after an arrival was in flight.
LEMMA ArrivesIs ==
  ASSUME BuffersInv, NEW i \in DOMAIN net, Arrives(i)
  PROVE  /\ net' \in Seq(Packets) /\ net[i] \in Packets
         /\ \A j \in DOMAIN net' : \E m \in DOMAIN net : net'[j] = net[m]
         /\ path = "ordered" =>
              /\ i = 1
              /\ \A j \in DOMAIN net' :
                   j \in DOMAIN net /\ j + 1 \in DOMAIN net
                     /\ net'[j] = net[j + 1]
<1>1. net \in Seq(Packets)
  BY DEF BuffersInv
<1>2. CASE net' = Without(net, i)
  <2>1. /\ net' \in Seq(Packets) /\ DOMAIN net' = 1..(Len(net) - 1)
        /\ \A j \in DOMAIN net' :
             /\ j < i => j \in DOMAIN net /\ net'[j] = net[j]
             /\ ~(j < i) => j + 1 \in DOMAIN net /\ net'[j] = net[j + 1]
    BY <1>1, <1>2, WithoutIs
  <2>2. path = "ordered" => i = 1
    BY DEF Arrives
  <2>3. \A j \in DOMAIN net' : ~(j < 1) /\ j \in DOMAIN net
    BY <1>1, <2>1
  <2> QED BY <1>1, <2>1, <2>2, <2>3
<1>3. CASE path = "reordering" /\ net' = net
  BY <1>1, <1>3
<1> QED BY <1>2, <1>3 DEF Arrives

\* Lemma: process hands a packet to the buffer of its timestamp, or makes one.
LEMMA ReceivedAt ==
  ASSUME BuffersInv, NEW p \in Packets, NEW v \in Int,
         NEW bs, bs = Received(frameBuffer, p, v)
  PROVE  /\ bs \in Seq(Buffers)
         /\ \A k \in DOMAIN frameBuffer :
              /\ k \in DOMAIN bs
              /\ \/ bs[k] = frameBuffer[k]
                 \/ /\ frameBuffer[k].timestamp = p.timestamp
                    /\ bs[k] = insert(frameBuffer[k], p, v)
         /\ \/ /\ Len(bs) = Len(frameBuffer) /\ DOMAIN bs = DOMAIN frameBuffer
               /\ \E k \in DOMAIN frameBuffer :
                    /\ frameBuffer[k].timestamp = p.timestamp
                    /\ bs[k] = insert(frameBuffer[k], p, v)
                    /\ Refused(frameBuffer[k], p) =>
                         HasRefused(frameBuffer, p)
            \/ /\ Len(bs) = Len(frameBuffer) + 1 /\ Len(bs) \in DOMAIN bs
               /\ \A k \in DOMAIN frameBuffer :
                    /\ frameBuffer[k].timestamp # p.timestamp
                    /\ bs[k] = frameBuffer[k]
               /\ bs[Len(bs)] = RTPBuffer(p)
               /\ \A k \in DOMAIN bs : k \in DOMAIN frameBuffer \/ k = Len(bs)
<1>1. /\ frameBuffer \in Seq(Buffers)
      /\ \A k \in DOMAIN frameBuffer :
           frameBuffer[k] \in Buffers /\ Filled(frameBuffer[k])
  BY DEF BuffersInv
<1>2. PICK n \in Nat : n = Len(frameBuffer) /\ DOMAIN frameBuffer = 1..n
  BY <1>1
<1>3. CASE Places(frameBuffer, p) = {}
  <2>1. bs = Append(frameBuffer, RTPBuffer(p))
    BY <1>3 DEF Received
  <2>2. \A k \in DOMAIN frameBuffer : frameBuffer[k].timestamp # p.timestamp
    BY <1>3 DEF Places
  <2>3. PICK b \in Buffers : b = RTPBuffer(p)
    BY NewBuffer
  <2>4. /\ Len(bs) = n + 1 /\ DOMAIN bs = 1..(n + 1) /\ bs[n + 1] = b
        /\ \A k \in 1..n : bs[k] = frameBuffer[k]
        /\ bs \in Seq(Buffers)
    BY <1>1, <1>2, <2>1, <2>3
  <2> QED BY <1>2, <2>2, <2>3, <2>4
<1>4. CASE Places(frameBuffer, p) # {}
  <2>1. Places(frameBuffer, p) \in SUBSET Nat
    BY <1>2 DEF Places
  <2>2. PICK m \in Places(frameBuffer, p) :
          \A k \in Places(frameBuffer, p) : m <= k
    BY <1>4, <2>1, Least
  <2>3. First(Places(frameBuffer, p)) \in Places(frameBuffer, p)
    BY <2>2 DEF First
  <2>4. PICK i \in DOMAIN frameBuffer :
          /\ i = First(Places(frameBuffer, p))
          /\ frameBuffer[i].timestamp = p.timestamp
    BY <2>3 DEF Places
  <2>5. PICK c : c = insert(frameBuffer[i], p, v)
    OBVIOUS
  <2>6. bs = [frameBuffer EXCEPT ![i] = c]
    BY <1>4, <2>4, <2>5 DEF Received
  <2>7. c \in Buffers
    <3>1. PICK b : b = frameBuffer[i] /\ b \in Buffers /\ Filled(b)
      BY <1>1
    <3>2. p.timestamp = b.timestamp /\ c = insert(b, p, v)
      BY <2>4, <2>5, <3>1
    <3> QED BY <3>1, <3>2, InsertFills
  <2>8. /\ DOMAIN bs = 1..n /\ Len(bs) = n /\ bs[i] = c
        /\ \A k \in DOMAIN frameBuffer : k # i => bs[k] = frameBuffer[k]
        /\ bs \in Seq(Buffers)
    BY <1>1, <1>2, <2>4, <2>6, <2>7
  <2>9. Refused(frameBuffer[i], p) => HasRefused(frameBuffer, p)
    BY <1>4, <2>4 DEF HasRefused
  <2> QED BY <1>2, <2>4, <2>5, <2>8, <2>9
<1> QED BY <1>3, <1>4

\* Lemma: the buffers after process has received a packet.
LEMMA ReceivedIs ==
  ASSUME BuffersInv, NEW p \in Packets, NEW v \in Int,
         NEW bs, bs = Received(frameBuffer, p, v)
  PROVE  /\ bs \in Seq(Buffers)
         /\ \A k \in DOMAIN bs : Filled(bs[k])
         /\ \A k \in DOMAIN frameBuffer :
              LET b == frameBuffer[k]
              IN  /\ k \in DOMAIN bs
                  /\ FrameOf(bs[k]) = FrameOf(b)
                  /\ bs[k].timestamp \in {0, b.timestamp}
                  /\ \/ bs[k].timestamp = b.timestamp
                     \/ /\ p.timestamp = FrameOf(b) /\ build # "narrow"
                        /\ ~(Fits(FrameOf(b)) /\ Place(b, p) >= 0)
                  /\ Fits(FrameOf(b)) =>
                       \A q \in Packets : Holds(b, q) => Holds(bs[k], q)
                  /\ \A q \in Packets :
                       Holds(bs[k], q) => Holds(b, q) \/ q = p
         /\ Fits(p.timestamp) =>
              HasRefused(frameBuffer, p) \/ \E k \in DOMAIN bs : Holds(bs[k], p)
         /\ \/ Len(bs) = Len(frameBuffer) /\ DOMAIN bs = DOMAIN frameBuffer
            \/ /\ Len(bs) = Len(frameBuffer) + 1 /\ Len(bs) \in DOMAIN bs
               /\ \A k \in DOMAIN frameBuffer :
                    /\ frameBuffer[k].timestamp # p.timestamp
                    /\ bs[k] = frameBuffer[k]
               /\ \A k \in DOMAIN bs : k \in DOMAIN frameBuffer \/ k = Len(bs)
               /\ bs[Len(bs)].timestamp = p.timestamp
               /\ FrameOf(bs[Len(bs)]) = p.timestamp
               /\ \A q \in Packets : Holds(bs[Len(bs)], q) <=> q = p
<1>1. /\ frameBuffer \in Seq(Buffers)
      /\ \A k \in DOMAIN frameBuffer :
           frameBuffer[k] \in Buffers /\ Filled(frameBuffer[k])
  BY DEF BuffersInv
<1>2. \A q \in Packets : q # NULL
  BY PacketIs
\* What becomes of one buffer.
<1>3. ASSUME NEW k \in DOMAIN frameBuffer
      PROVE  LET b == frameBuffer[k]
             IN  /\ k \in DOMAIN bs /\ bs[k] \in Buffers /\ Filled(bs[k])
                 /\ FrameOf(bs[k]) = FrameOf(b)
                 /\ bs[k].timestamp \in {0, b.timestamp}
                 /\ \/ bs[k].timestamp = b.timestamp
                    \/ /\ p.timestamp = FrameOf(b) /\ build # "narrow"
                       /\ ~(Fits(FrameOf(b)) /\ Place(b, p) >= 0)
                 /\ Fits(FrameOf(b)) =>
                      \A q \in Packets : Holds(b, q) => Holds(bs[k], q)
                 /\ \A q \in Packets : Holds(bs[k], q) => Holds(b, q) \/ q = p
  <2>1. PICK b, c : b = frameBuffer[k] /\ c = bs[k]
    OBVIOUS
  <2>2. b \in Buffers /\ Filled(b)
    BY <1>1, <2>1
  <2>3. /\ k \in DOMAIN bs
        /\ c = b \/ (b.timestamp = p.timestamp /\ c = insert(b, p, v))
    BY <2>1, ReceivedAt
  <2>4. CASE c = b
    BY <2>1, <2>2, <2>3, <2>4
  <2>5. CASE b.timestamp = p.timestamp /\ c = insert(b, p, v)
    <3>1. /\ c \in Buffers /\ Filled(c) /\ FrameOf(c) = FrameOf(b)
          /\ b.timestamp = FrameOf(b) /\ c.timestamp \in {0, b.timestamp}
          /\ build = "narrow" \/ (Fits(FrameOf(b)) /\ Place(b, p) >= 0)
               => c.timestamp = b.timestamp
          /\ \A q : q # NULL /\ Holds(c, q) => Holds(b, q) \/ q = p
          /\ Fits(FrameOf(b)) =>
               \A q : q # NULL /\ Holds(b, q) => Holds(c, q)
      BY <2>2, <2>5, InsertFills
    <3> QED BY <1>2, <2>1, <2>3, <2>5, <3>1
  <2> QED BY <2>3, <2>4, <2>5
<1>4. CASE /\ Len(bs) = Len(frameBuffer) /\ DOMAIN bs = DOMAIN frameBuffer
           /\ \E k \in DOMAIN frameBuffer :
                /\ frameBuffer[k].timestamp = p.timestamp
                /\ bs[k] = insert(frameBuffer[k], p, v)
                /\ Refused(frameBuffer[k], p) => HasRefused(frameBuffer, p)
  <2>1. bs \in Seq(Buffers)
    BY ReceivedAt
  <2>2. PICK k \in DOMAIN frameBuffer :
          /\ frameBuffer[k].timestamp = p.timestamp
          /\ bs[k] = insert(frameBuffer[k], p, v)
          /\ Refused(frameBuffer[k], p) => HasRefused(frameBuffer, p)
    BY <1>4
  <2>3. PICK b, c : b = frameBuffer[k] /\ c = insert(b, p, v)
    OBVIOUS
  <2>4. b \in Buffers /\ Filled(b) /\ p.timestamp = b.timestamp
    BY <1>1, <2>2, <2>3
  <2>5. /\ b.timestamp = FrameOf(b)
        /\ Fits(FrameOf(b)) => Refused(b, p) \/ Holds(c, p)
    BY <2>3, <2>4, InsertFills
  <2>6. Fits(p.timestamp) =>
          HasRefused(frameBuffer, p) \/ \E j \in DOMAIN bs : Holds(bs[j], p)
    BY <1>4, <2>2, <2>3, <2>4, <2>5
  <2> QED BY <1>3, <1>4, <2>1, <2>6
<1>5. CASE /\ Len(bs) = Len(frameBuffer) + 1 /\ Len(bs) \in DOMAIN bs
           /\ \A k \in DOMAIN frameBuffer :
                /\ frameBuffer[k].timestamp # p.timestamp
                /\ bs[k] = frameBuffer[k]
           /\ bs[Len(bs)] = RTPBuffer(p)
           /\ \A k \in DOMAIN bs : k \in DOMAIN frameBuffer \/ k = Len(bs)
  <2>1. PICK b \in Buffers : b = bs[Len(bs)] /\ b = RTPBuffer(p)
    BY <1>5, NewBuffer
  <2>2. /\ Filled(b) /\ b.timestamp = p.timestamp /\ FrameOf(b) = p.timestamp
        /\ \A q \in Packets : Holds(b, q) <=> q = p
    BY <1>2, <2>1, NewBuffer
  <2>3. bs \in Seq(Buffers)
    BY ReceivedAt
  <2> QED BY <1>3, <1>5, <2>1, <2>2, <2>3
<1> QED BY <1>4, <1>5, ReceivedAt

\* Lemma: the buffers after the oldest one was handed out.
LEMMA DueIs ==
  ASSUME BuffersInv, NEW p \in Packets, NEW v \in Int,
         NEW bs, bs = Received(frameBuffer, p, v), IsDue(bs)
  PROVE  /\ Len(bs) = Len(frameBuffer) + 1 /\ Len(bs) \in DOMAIN bs
         /\ 1 \in DOMAIN frameBuffer /\ 1 \in DOMAIN bs /\ Len(bs) # 1
         /\ bs[1] = frameBuffer[1]
         /\ bs[1] \in Buffers /\ Filled(bs[1])
         /\ Beheaded(bs) \in Seq(Buffers)
         /\ Len(Beheaded(bs)) = Len(frameBuffer)
         /\ \A k \in DOMAIN Beheaded(bs) :
              /\ k \in Nat /\ k + 1 \in DOMAIN bs /\ k + 1 # 1 /\ 1 < k + 1
              /\ Beheaded(bs)[k] = bs[k + 1]
         /\ \A k \in DOMAIN bs :
              k # 1 => k - 1 \in DOMAIN Beheaded(bs)
                         /\ Beheaded(bs)[k - 1] = bs[k]
<1>1. /\ frameBuffer \in Seq(Buffers) /\ Len(frameBuffer) <= frameBufferSize
      /\ frameBufferSize \in Nat \ {0} /\ bs \in Seq(Buffers)
      /\ \A k \in DOMAIN bs : Filled(bs[k])
  BY ReceivedIs, Sizes DEF BuffersInv
<1>2. Len(bs) > frameBufferSize
  BY DEF IsDue
<1>3. /\ Len(bs) = Len(frameBuffer) + 1
      /\ \A k \in DOMAIN frameBuffer : bs[k] = frameBuffer[k]
  <2>1. Len(bs) # Len(frameBuffer)
    BY <1>1, <1>2
  <2> QED BY <2>1, ReceivedIs
<1>4. PICK n \in Nat \ {0} : n = Len(frameBuffer)
  BY <1>1, <1>2, <1>3
<1>5. /\ Len(bs) = n + 1 /\ 1 \in DOMAIN frameBuffer /\ 1 \in DOMAIN bs
      /\ bs[1] \in Buffers /\ Filled(bs[1]) /\ n + 1 # 1
      /\ n + 1 \in DOMAIN bs
  BY <1>1, <1>3, <1>4
<1>6. /\ Tail(bs) \in Seq(Buffers) /\ Len(Tail(bs)) = n
      /\ \A k \in 1..n : Tail(bs)[k] = bs[k + 1]
  BY <1>1, <1>5
<1>7. DOMAIN bs = 1..(n + 1) /\ DOMAIN Tail(bs) = 1..n
  BY <1>1, <1>5, <1>6
<1>8. /\ \A k \in 1..n :
           k \in Nat /\ k + 1 \in 1..(n + 1) /\ k + 1 # 1 /\ 1 < k + 1
      /\ \A k \in 1..(n + 1) : k # 1 => k - 1 \in 1..n /\ (k - 1) + 1 = k
  OBVIOUS
<1>9. \A k \in 1..(n + 1) : k # 1 => Tail(bs)[k - 1] = bs[k]
  BY <1>6, <1>8
<1> QED BY <1>3, <1>4, <1>5, <1>6, <1>7, <1>8, <1>9 DEF Beheaded

\* Lemma: the number of packets of a buffer.
LEMMA SizeType ==
  ASSUME NEW b
  PROVE  totalSize(b) \in Nat
BY UsedFinite DEF totalSize

\* Lemma: the source sends packets of its frames, one after the other.
LEMMA SendIs ==
  ASSUME BuffersInv, Send
  PROVE  /\ \E p \in Packets : /\ net' = Append(net, p)
                               /\ p.timestamp = next[1] /\ p.n = next[2]
         /\ next' \in Nat \X Nat
         /\ \/ next'[1] = next[1] /\ next'[2] > next[2]
            \/ next'[1] > next[1]
<1>1. next \in Stream /\ net' = Append(net, Packet(next[1], next[2]))
      /\ next' = IF next[2] < Lengths[next[1]] THEN <<next[1], next[2] + 1>>
                                               ELSE <<next[1] + 1, 1>>
  BY DEF Send
<1>2. PICK f \in Frames : \E i \in 1..Lengths[f] : next = <<f, i>>
  BY <1>1, StreamIs
<1>3. PICK i \in 1..Lengths[f] : next = <<f, i>>
  BY <1>2
<1>4. f \in Nat /\ i \in Nat
  BY Sizes DEF Frames
<1>5. next' = <<f, i + 1>> \/ next' = <<f + 1, 1>>
  BY <1>1, <1>3
<1> QED BY <1>1, <1>3, <1>4, <1>5, PacketIs

\* Lemma: what handing out the oldest buffer changes.
LEMMA ShowIs ==
  ASSUME NEW i, NEW v, AddPktAndShow(i, v), NEW p, p = net[i],
         NEW bs, bs = Received(frameBuffer, p, v)
  PROVE  /\ Arrives(i) /\ IsDue(bs) /\ frameBuffer' = Beheaded(bs)
         /\ \/ shown' = shown
            \/ Complete(bs[1]) /\ shown' = Append(shown, getImage(bs[1]))
         /\ Complete(bs[1]) =>
              \/ shown' = Append(shown, getImage(bs[1]))
              \/ bs[1].timestamp \in tooLarge'
         /\ newFrameLen' = newFrameLen \/ newFrameLen' = 2 * totalSize(bs[1])
         /\ closed' = closed \cup {FrameOf(bs[1])}
         /\ arrived' = arrived \cup InTime(p)
         /\ tooLarge \subseteq tooLarge'
         /\ UNCHANGED <<path, build, next, refused>>
<1> USE DEF AddPktAndShow
<1>1. Arrives(i) /\ IsDue(bs) /\ frameBuffer' = Beheaded(bs)
  OBVIOUS
<1>2. /\ \/ shown' = shown
         \/ Complete(bs[1]) /\ shown' = Append(shown, getImage(bs[1]))
      /\ Complete(bs[1]) =>
           \/ shown' = Append(shown, getImage(bs[1]))
           \/ bs[1].timestamp \in tooLarge'
  OBVIOUS
<1>3. newFrameLen' = newFrameLen \/ newFrameLen' = 2 * totalSize(bs[1])
  OBVIOUS
<1>4. closed' = closed \cup {FrameOf(bs[1])} /\ tooLarge \subseteq tooLarge'
  BY DEF FrameOf
<1>5. /\ arrived' = arrived \cup InTime(p)
      /\ UNCHANGED <<path, build, next, refused>>
  OBVIOUS
<1> QED BY <1>1, <1>2, <1>3, <1>4, <1>5

\* Lemma: the types and the filling of the buffers are kept.
LEMMA BuffersKept ==
  ASSUME BuffersInv, [Next]_vars
  PROVE  BuffersInv'
<1> USE DEF BuffersInv
<1>1. CASE Send
  <2>1. PICK p \in Packets : net' = Append(net, p)
    BY <1>1, SendIs
  <2>2. net' \in Seq(Packets) /\ next' \in Nat \X Nat
    BY <1>1, <2>1, SendIs
  <2> QED BY <1>1, <2>2 DEF Send, histories
<1>2. ASSUME NEW i \in DOMAIN net, Lose(i)
      PROVE  BuffersInv'
  <2>1. net' \in Seq(Packets)
    BY <1>2, WithoutIs DEF Lose
  <2> QED BY <1>2, <2>1 DEF Lose, histories
<1>3. ASSUME NEW i \in DOMAIN net, NEW v \in Int, AddPkt(i, v)
      PROVE  BuffersInv'
  <2>1. PICK p, bs : p = net[i] /\ bs = Received(frameBuffer, p, v)
    OBVIOUS
  <2>2. /\ Arrives(i) /\ ~IsDue(bs) /\ frameBuffer' = bs
        /\ arrived' = arrived \cup InTime(p)
        /\ UNCHANGED <<path, build, next, newFrameLen, shown>>
    BY <1>3, <2>1 DEF AddPkt
  <2>3. p \in Packets /\ net' \in Seq(Packets)
    BY <2>1, <2>2, ArrivesIs
  <2>4. bs \in Seq(Buffers) /\ \A k \in DOMAIN bs : Filled(bs[k])
    BY <2>1, <2>3, ReceivedIs
  <2>5. Len(bs) <= frameBufferSize
    BY <2>2, <2>4, Sizes DEF IsDue
  <2>6. arrived' \subseteq Packets
    BY <2>2, <2>3 DEF InTime
  <2> QED BY <2>2, <2>3, <2>4, <2>5, <2>6
<1>4. ASSUME NEW i \in DOMAIN net, NEW v \in Int, AddPktAndShow(i, v)
      PROVE  BuffersInv'
  <2>1. PICK p, bs : p = net[i] /\ bs = Received(frameBuffer, p, v)
    OBVIOUS
  <2>2. /\ Arrives(i) /\ IsDue(bs) /\ frameBuffer' = Beheaded(bs)
        /\ \/ shown' = shown
           \/ Complete(bs[1]) /\ shown' = Append(shown, getImage(bs[1]))
        /\ newFrameLen' = newFrameLen \/ newFrameLen' = 2 * totalSize(bs[1])
        /\ arrived' = arrived \cup InTime(p)
        /\ UNCHANGED <<path, build, next>>
    BY <1>4, <2>1, ShowIs
  <2>3. p \in Packets /\ net' \in Seq(Packets)
    BY <2>1, <2>2, ArrivesIs
  <2>4. bs \in Seq(Buffers) /\ \A k \in DOMAIN bs : Filled(bs[k])
    BY <2>1, <2>3, ReceivedIs
  <2>5. /\ frameBuffer' \in Seq(Buffers)
        /\ Len(frameBuffer') = Len(frameBuffer)
        /\ \A k \in DOMAIN frameBuffer' :
             k + 1 \in DOMAIN bs /\ frameBuffer'[k] = bs[k + 1]
        /\ bs[1] \in Buffers /\ Filled(bs[1])
    BY <2>1, <2>2, <2>3, DueIs
  <2>6. newFrameLen' \in Nat
    <3>1. totalSize(bs[1]) \in Nat
      BY SizeType
    <3> QED BY <2>2, <3>1
  <2>7. shown' \in Seq(Seq(Packets))
    <3>1. CASE shown' = shown
      BY <3>1
    <3>2. CASE Complete(bs[1]) /\ shown' = Append(shown, getImage(bs[1]))
      <4>1. getImage(bs[1]) \in Seq(Packets)
        BY <2>5, <3>2, ImageIsRow
      <4> QED BY <3>2, <4>1
    <3> QED BY <2>2, <3>1, <3>2
  <2>8. arrived' \subseteq Packets
    BY <2>2, <2>3 DEF InTime
  <2>9. \A k \in DOMAIN frameBuffer' : Filled(frameBuffer'[k])
    BY <2>4, <2>5
  <2>10. Len(frameBuffer') <= frameBufferSize
    BY <2>5
  <2> QED BY <2>2, <2>3, <2>5, <2>6, <2>7, <2>8, <2>9, <2>10
<1>5. CASE UNCHANGED vars
  BY <1>5 DEF vars, histories
<1>6. Pointers \subseteq Int
  BY Sizes
<1> QED BY <1>1, <1>2, <1>3, <1>4, <1>5, <1>6 DEF Next

\* Theorem: the buffers have their types, the first slot of each is taken as
\* insert asserts, and numPkts stays within the buffer while the frame fits,
\* whatever the frames' lengths and the pointers' values.
THEOREM TypeCorrect == Spec => []TypeOK
<1>1. Init => BuffersInv
  BY Sizes, FrameAssumption DEF Init, BuffersInv
<1>2. BuffersInv /\ [Next]_vars => BuffersInv'
  BY BuffersKept
<1>3. BuffersInv => TypeOK
  <2> SUFFICES ASSUME BuffersInv PROVE TypeOK
    OBVIOUS
  <2>1. ASSUME NEW i \in DOMAIN frameBuffer, NEW b, b = frameBuffer[i]
        PROVE  /\ b.frame \in [Slots -> Packets \cup {NULL}]
               /\ b.frame[0] # NULL /\ b.numPkts \in Int
               /\ Fits(FrameOf(b)) => b.numPkts \in 1..BufferSize
    <3>1. b \in Buffers /\ Filled(b)
      BY <2>1 DEF BuffersInv
    <3> QED BY <3>1 DEF Buffers, Filled, Kept
  <2> QED BY <2>1 DEF BuffersInv, TypeOK
<1> QED BY <1>1, <1>2, <1>3, PTL DEF Spec

----------------------------------------------------------------------------
(* No holes *)

\* Lemma: a picture that is handed out has no holes.
LEMMA NoHolesKept ==
  ASSUME BuffersInv, NoHoles, [Next]_vars
  PROVE  NoHoles'
<1>1. CASE shown' = shown
  BY <1>1 DEF NoHoles
<1>2. ASSUME NEW i \in DOMAIN net, NEW v \in Int, AddPktAndShow(i, v),
             shown' # shown
      PROVE  NoHoles'
  <2>1. PICK p, bs : p = net[i] /\ bs = Received(frameBuffer, p, v)
    OBVIOUS
  <2>2. /\ Arrives(i) /\ IsDue(bs) /\ Complete(bs[1])
        /\ shown' = Append(shown, getImage(bs[1]))
    BY <1>2, <2>1, ShowIs
  <2>3. p \in Packets
    BY <2>1, <2>2, ArrivesIs
  <2>4. bs[1] \in Buffers /\ Filled(bs[1])
    BY <2>1, <2>2, <2>3, DueIs
  <2>5. PICK image : image = getImage(bs[1])
    OBVIOUS
  <2>6. /\ image \in Seq(Packets) /\ shown \in Seq(Seq(Packets))
        /\ Row(image)
    BY <2>2, <2>4, <2>5, ImageIsRow DEF BuffersInv
  <2>7. ASSUME NEW k \in DOMAIN shown'
        PROVE  \/ k \in DOMAIN shown /\ shown'[k] = shown[k]
               \/ shown'[k] = image
    BY <2>2, <2>5, <2>6
  <2>8. \A k \in DOMAIN shown : Row(shown[k])
    BY DEF NoHoles, Row
  <2>9. \A k \in DOMAIN shown' : Row(shown'[k])
    BY <2>6, <2>7, <2>8
  <2> QED BY <2>9 DEF NoHoles, Row
<1>3. ASSUME NEW i \in DOMAIN net, NEW v \in Int, Lose(i) \/ AddPkt(i, v)
      PROVE  shown' = shown
  BY <1>3 DEF Lose, AddPkt, histories
<1>4. Send \/ UNCHANGED vars => shown' = shown
  BY DEF Send, vars, histories
<1>5. Pointers \subseteq Int
  BY Sizes
<1> QED BY <1>1, <1>2, <1>3, <1>4, <1>5 DEF Next

\* Theorem: a picture that is handed out is put together from consecutive
\* packets of one frame, up to its last one or as many as a buffer holds,
\* whatever the frames' lengths, as long as the numbers tell the places.
THEOREM PicturesHaveNoHoles == Spec => []NoHoles
<1>1. Init => BuffersInv
  BY Sizes, FrameAssumption DEF Init, BuffersInv
<1>2. Init => NoHoles
  BY DEF Init, NoHoles
<1>3. BuffersInv /\ NoHoles /\ [Next]_vars => BuffersInv' /\ NoHoles'
  BY BuffersKept, NoHolesKept
<1> QED BY <1>1, <1>2, <1>3, PTL DEF Spec

----------------------------------------------------------------------------
(* Order *)

\* Lemma: the frames and places of packets are numbers.
LEMMA PlacesAre ==
  ASSUME NEW p \in Packets
  PROVE  p.timestamp \in Nat /\ p.n \in Nat
BY PacketIs, Sizes DEF Frames

\* Lemma: a buffer holds a packet of its frame.
LEMMA FirstIsHeld ==
  ASSUME NEW b \in Buffers, Filled(b)
  PROVE  \E q \in Packets : Holds(b, q) /\ q.timestamp = FrameOf(b)
<1>1. 0 \in Slots /\ b.frame[0] \in Packets
  BY SlotsAre, FirstIs
<1> QED BY <1>1 DEF Holds, FrameOf

\* Lemma: what is after a frame is after what follows it.
LEMMA AfterOn ==
  ASSUME NEW f \in Nat, NEW g \in Nat, NEW h \in Nat, After(f, g), g <= h
  PROVE  After(f, h)
BY DEF After

\* Lemma: on a path that keeps the order a packet comes after those its
\* frame's buffer holds.
LEMMA NextInPlace ==
  ASSUME BuffersInv, InLine, path = "ordered", NEW k \in DOMAIN frameBuffer,
         1 \in DOMAIN net
  PROVE  /\ FrameOf(frameBuffer[k]) \in Nat /\ net[1].timestamp \in Nat
         /\ FrameOf(frameBuffer[k]) <= net[1].timestamp
         /\ FrameOf(frameBuffer[k]) = net[1].timestamp =>
              Place(frameBuffer[k], net[1]) >= 0
<1>1. frameBuffer[k] \in Buffers /\ Filled(frameBuffer[k])
  BY DEF BuffersInv
<1>2. PICK q \in Packets : q = frameBuffer[k].frame[0] /\ 0 \in Slots
  BY <1>1, FirstIs, SlotsAre
<1>3. Holds(frameBuffer[k], q)
  BY <1>2 DEF Holds
<1>4. PICK p \in Packets : p = net[1]
  BY DEF BuffersInv
<1>5. Ahead(q, p)
  BY <1>2, <1>3, <1>4 DEF InLine, HeldInLine
<1>6. FrameOf(frameBuffer[k]) = q.timestamp
      /\ Place(frameBuffer[k], p) = p.n - q.n
  BY <1>2 DEF FrameOf, Place
<1>7. PICK f \in Nat, t \in Nat, m \in Nat, n \in Nat :
        f = q.timestamp /\ t = p.timestamp /\ m = q.n /\ n = p.n
  BY PlacesAre
<1>8. f <= t /\ (f = t => n - m >= 0)
  BY <1>5, <1>7 DEF Ahead
<1> QED BY <1>4, <1>6, <1>7, <1>8

\* Lemma: the timestamps of the buffers after process has received a packet.
LEMMA ReceivedOwn ==
  ASSUME BuffersInv, OwnBuffer, InLine,
         NEW i \in DOMAIN net, path = "ordered" => i = 1,
         NEW p, p = net[i], NEW v \in Int,
         NEW bs, bs = Received(frameBuffer, p, v)
  PROVE  \A k \in DOMAIN bs : Own(FrameOf(bs[k])) =>
           /\ bs[k].timestamp = FrameOf(bs[k])
           /\ \A j \in DOMAIN bs : FrameOf(bs[j]) = FrameOf(bs[k]) => j = k
<1>1. p \in Packets
  BY DEF BuffersInv
<1>2. \A k \in DOMAIN frameBuffer :
        /\ k \in DOMAIN bs
        /\ FrameOf(bs[k]) = FrameOf(frameBuffer[k])
        /\ \/ bs[k].timestamp = frameBuffer[k].timestamp
           \/ /\ p.timestamp = FrameOf(frameBuffer[k]) /\ build # "narrow"
              /\ ~(/\ Fits(FrameOf(frameBuffer[k]))
                   /\ Place(frameBuffer[k], p) >= 0)
  BY <1>1, ReceivedIs
<1>3. \A k \in DOMAIN frameBuffer : Own(FrameOf(frameBuffer[k])) =>
        /\ frameBuffer[k].timestamp = FrameOf(frameBuffer[k])
        /\ \A j \in DOMAIN frameBuffer :
             FrameOf(frameBuffer[j]) = FrameOf(frameBuffer[k]) => j = k
  BY DEF OwnBuffer
<1>4. \A k \in DOMAIN frameBuffer :
        Own(FrameOf(bs[k])) => bs[k].timestamp = FrameOf(bs[k])
  <2> SUFFICES ASSUME NEW k \in DOMAIN frameBuffer, Own(FrameOf(bs[k]))
               PROVE  bs[k].timestamp = FrameOf(bs[k])
    OBVIOUS
  <2>1. frameBuffer[k].timestamp = FrameOf(frameBuffer[k])
    BY <1>2, <1>3
  <2>2. CASE build = "narrow"
    BY <1>2, <2>1, <2>2
  <2>3. CASE path = "ordered" /\ Fits(FrameOf(bs[k]))
    BY <1>2, <2>1, <2>3, NextInPlace
  <2> QED BY <2>2, <2>3 DEF Own
<1>5. CASE DOMAIN bs = DOMAIN frameBuffer
  BY <1>2, <1>3, <1>4, <1>5
<1>6. CASE /\ \A k \in DOMAIN frameBuffer :
                frameBuffer[k].timestamp # p.timestamp
           /\ \A k \in DOMAIN bs : k \in DOMAIN frameBuffer \/ k = Len(bs)
           /\ bs[Len(bs)].timestamp = p.timestamp
           /\ FrameOf(bs[Len(bs)]) = p.timestamp
  <2>1. \A k \in DOMAIN frameBuffer :
          Own(p.timestamp) => FrameOf(bs[k]) # p.timestamp
    BY <1>2, <1>3, <1>6
  <2> QED BY <1>2, <1>3, <1>4, <1>6, <2>1
<1> QED BY <1>1, <1>5, <1>6, ReceivedIs

\* Lemma: the path and the build after a step.
LEMMA PathStays ==
  ASSUME [Next]_vars
  PROVE  UNCHANGED <<path, build>> /\ \A f : Own(f)' <=> Own(f)
<1>1. UNCHANGED <<path, build>>
  BY DEF Next, Send, Lose, AddPkt, AddPktAndShow, vars
<1> QED BY <1>1 DEF Own

\* Lemma: the buffers keep a timestamp of their own.
LEMMA OwnKept ==
  ASSUME BuffersInv, OwnBuffer, InLine, [Next]_vars
  PROVE  OwnBuffer'
<1>1. UNCHANGED <<path, build>>
  BY PathStays
<1>2. ASSUME NEW i \in DOMAIN net, NEW v \in Int,
             AddPkt(i, v) \/ AddPktAndShow(i, v)
      PROVE  OwnBuffer'
  <2>1. PICK p, bs : p = net[i] /\ bs = Received(frameBuffer, p, v)
    OBVIOUS
  <2>2. Arrives(i)
    BY <1>2 DEF AddPkt, AddPktAndShow
  <2>3. p \in Packets /\ (path = "ordered" => i = 1)
    BY <2>1, <2>2, ArrivesIs
  <2>4. \A k \in DOMAIN bs : Own(FrameOf(bs[k])) =>
          /\ bs[k].timestamp = FrameOf(bs[k])
          /\ \A j \in DOMAIN bs : FrameOf(bs[j]) = FrameOf(bs[k]) => j = k
    BY <2>1, <2>3, ReceivedOwn
  <2>5. CASE AddPkt(i, v)
    <3>1. frameBuffer' = bs
      BY <2>1, <2>5 DEF AddPkt
    <3> QED BY <1>1, <2>4, <3>1 DEF OwnBuffer, FrameOf, Own
  <2>6. CASE AddPktAndShow(i, v)
    <3>1. frameBuffer' = Beheaded(bs) /\ IsDue(bs)
      BY <2>1, <2>6, ShowIs
    <3>2. PICK t : t = Beheaded(bs)
      OBVIOUS
    <3>3. \A k \in DOMAIN t :
            k \in Nat /\ k + 1 \in DOMAIN bs /\ t[k] = bs[k + 1]
      BY <2>1, <2>3, <3>1, <3>2, DueIs
    <3>4. ASSUME NEW k \in DOMAIN t, Own(FrameOf(t[k]))
          PROVE  /\ t[k].timestamp = FrameOf(t[k])
                 /\ \A j \in DOMAIN t : FrameOf(t[j]) = FrameOf(t[k]) => j = k
      <4>1. ASSUME NEW j \in DOMAIN t, FrameOf(t[j]) = FrameOf(t[k])
            PROVE  j = k
        <5>1. j + 1 = k + 1 /\ j \in Nat /\ k \in Nat
          BY <2>4, <3>3, <3>4, <4>1
        <5> QED BY <5>1
      <4> QED BY <2>4, <3>3, <3>4, <4>1
    <3> QED BY <1>1, <3>1, <3>2, <3>4 DEF OwnBuffer, FrameOf, Own
  <2> QED BY <1>2, <2>5, <2>6
<1>3. ASSUME NEW i \in DOMAIN net, Lose(i)
      PROVE  OwnBuffer'
  BY <1>1, <1>3 DEF Lose, OwnBuffer, FrameOf, Own
<1>4. Send \/ UNCHANGED vars => OwnBuffer'
  BY <1>1 DEF Send, vars, OwnBuffer, FrameOf, Own
<1>5. Pointers \subseteq Int
  BY Sizes
<1> QED BY <1>2, <1>3, <1>4, <1>5 DEF Next

\* Lemma: on a path that keeps the order the buffers stay in the order of
\* their frames, and count.
LEMMA ReceivedFrames ==
  ASSUME BuffersInv, InLine, path = "ordered", 1 \in DOMAIN net,
         NEW p, p = net[1], NEW v \in Int,
         NEW bs, bs = Received(frameBuffer, p, v)
  PROVE  /\ \A j, k \in DOMAIN bs : j < k =>
              \/ FrameOf(bs[j]) < FrameOf(bs[k])
              \/ FrameOf(bs[j]) = FrameOf(bs[k]) /\ bs[j].timestamp = 0
         /\ \A k \in DOMAIN bs : Numbered(FrameOf(bs[k])) => Counted(bs[k])
<1>1. /\ p \in Packets /\ p.timestamp # 0 /\ frameBuffer \in Seq(Buffers)
      /\ bs \in Seq(Buffers)
      /\ \A k \in DOMAIN frameBuffer :
           frameBuffer[k] \in Buffers /\ Filled(frameBuffer[k])
  BY PacketIs, ReceivedAt DEF BuffersInv, Frames
<1>2. HeldInLine /\ FramesInLine /\ CountsInLine
  BY DEF InLine
<1>3. \A k \in DOMAIN frameBuffer :
        /\ k \in DOMAIN bs /\ FrameOf(bs[k]) = FrameOf(frameBuffer[k])
        /\ bs[k].timestamp \in {0, frameBuffer[k].timestamp}
        /\ \/ bs[k] = frameBuffer[k]
           \/ /\ frameBuffer[k].timestamp = p.timestamp
              /\ bs[k] = insert(frameBuffer[k], p, v)
  BY <1>1, ReceivedIs, ReceivedAt
<1>4. ASSUME NEW j \in DOMAIN frameBuffer, NEW k \in DOMAIN frameBuffer, j < k
      PROVE  \/ FrameOf(bs[j]) < FrameOf(bs[k])
             \/ FrameOf(bs[j]) = FrameOf(bs[k]) /\ bs[j].timestamp = 0
  BY <1>2, <1>3, <1>4 DEF FramesInLine
<1>5. ASSUME NEW k \in DOMAIN frameBuffer, Numbered(FrameOf(bs[k]))
      PROVE  Counted(bs[k])
  <2>1. PICK b \in Buffers : b = frameBuffer[k] /\ Filled(b)
    BY <1>1
  <2>2. Numbered(FrameOf(b)) /\ Counted(b)
    BY <1>2, <1>3, <1>5, <2>1 DEF CountsInLine
  <2>3. CASE bs[k] = b
    BY <2>2, <2>3
  <2>4. CASE b.timestamp = p.timestamp /\ bs[k] = insert(b, p, v)
    <3>1. \A q \in Packets : Holds(b, q) => q.n < p.n
      <4> SUFFICES ASSUME NEW q \in Packets, Holds(b, q) PROVE q.n < p.n
        OBVIOUS
      <4>1. Ahead(q, p)
        BY <1>2, <2>1 DEF HeldInLine
      <4>2. q.timestamp = FrameOf(b) /\ q # NULL
        BY <2>1, UsedHolds, PacketIs DEF Holds
      <4>3. q.timestamp = p.timestamp /\ p.timestamp \in Nat
        BY <1>1, <2>1, <2>4, <4>2, PlacesAre DEF Filled
      <4> QED BY <4>1, <4>3 DEF Ahead
    <3> QED BY <1>1, <2>1, <2>2, <2>4, <3>1, InsertCounts
  <2> QED BY <1>3, <2>1, <2>3, <2>4
<1>6. CASE DOMAIN bs = DOMAIN frameBuffer
  BY <1>4, <1>5, <1>6
<1>7. CASE /\ Len(bs) = Len(frameBuffer) + 1
           /\ \A k \in DOMAIN frameBuffer :
                /\ frameBuffer[k].timestamp # p.timestamp
                /\ bs[k] = frameBuffer[k]
           /\ bs[Len(bs)] = RTPBuffer(p)
           /\ \A k \in DOMAIN bs : k \in DOMAIN frameBuffer \/ k = Len(bs)
  <2>1. PICK n \in Nat : /\ n = Len(frameBuffer) /\ Len(bs) = n + 1
                         /\ DOMAIN frameBuffer = 1..n
    BY <1>1, <1>7
  <2>2. \A k \in 1..n : k # n + 1 /\ ~(n + 1 < k)
    OBVIOUS
  <2>3. FrameOf(bs[n + 1]) = p.timestamp /\ Counted(bs[n + 1])
    BY <1>1, <1>7, <2>1, NewBuffer, NewCounted
  <2>4. \A k \in DOMAIN bs : Numbered(FrameOf(bs[k])) => Counted(bs[k])
    BY <1>5, <1>7, <2>1, <2>3
  <2>5. ASSUME NEW j \in DOMAIN bs, NEW k \in DOMAIN bs, j < k
        PROVE  \/ FrameOf(bs[j]) < FrameOf(bs[k])
               \/ FrameOf(bs[j]) = FrameOf(bs[k]) /\ bs[j].timestamp = 0
    <3>1. j \in DOMAIN frameBuffer
      BY <1>7, <2>1, <2>2, <2>5
    <3>2. CASE k \in DOMAIN frameBuffer
      BY <1>4, <2>5, <3>1, <3>2
    <3>3. CASE k = n + 1
      <4>1. PICK b \in Buffers : b = frameBuffer[j] /\ Filled(b) /\ bs[j] = b
        BY <1>1, <1>7, <3>1
      <4>2. FrameOf(b) <= p.timestamp
            /\ FrameOf(b) \in Nat /\ p.timestamp \in Nat
        BY <1>1, <3>1, <4>1, NextInPlace
      <4>3. b.timestamp # p.timestamp /\ b.timestamp \in {0, FrameOf(b)}
        BY <1>7, <3>1, <4>1 DEF Filled
      <4> QED BY <2>3, <3>3, <4>1, <4>2, <4>3
    <3> QED BY <1>7, <2>1, <3>2, <3>3
  <2> QED BY <2>4, <2>5
<1> QED BY <1>1, <1>6, <1>7, ReceivedAt

\* Lemma: on a path that keeps the order a packet that process receives comes
\* after what was shown and before what is in flight.
LEMMA ReceivedInLine ==
  ASSUME BuffersInv, InLine, path = "ordered",
         NEW i \in DOMAIN net, Arrives(i), NEW p, p = net[i],
         NEW v \in Int, NEW bs, bs = Received(frameBuffer, p, v)
  PROVE  /\ \A j \in DOMAIN net' :
              /\ Sent(net'[j])
              /\ \A m \in DOMAIN net' : j < m => Ahead(net'[j], net'[m])
         /\ \A k \in DOMAIN bs : \A q \in Packets :
              Holds(bs[k], q) =>
                Sent(q) /\ \A m \in DOMAIN net' : Ahead(q, net'[m])
         /\ \A j, k \in DOMAIN bs : j < k =>
              \/ FrameOf(bs[j]) < FrameOf(bs[k])
              \/ FrameOf(bs[j]) = FrameOf(bs[k]) /\ bs[j].timestamp = 0
         /\ \A k \in DOMAIN bs : Numbered(FrameOf(bs[k])) => Counted(bs[k])
         /\ \A m \in DOMAIN shown :
              /\ shown[m] # <<>> /\ After(shown[m][1].timestamp, next[1])
              /\ \A j \in DOMAIN net' :
                   After(shown[m][1].timestamp, net'[j].timestamp)
              /\ \A k \in DOMAIN bs :
                   After(shown[m][1].timestamp, FrameOf(bs[k]))
<1>1. /\ p \in Packets /\ i = 1 /\ net' \in Seq(Packets)
      /\ \A j \in DOMAIN net' :
           /\ j \in DOMAIN net /\ j + 1 \in DOMAIN net
           /\ net'[j] = net[j + 1]
  BY ArrivesIs
<1>2. NetInLine /\ HeldInLine /\ ShownInLine
  BY DEF InLine
<1>3. ASSUME NEW j \in DOMAIN net'
      PROVE  /\ Sent(net'[j]) /\ Ahead(p, net'[j])
             /\ \A m \in DOMAIN net' : j < m => Ahead(net'[j], net'[m])
  <2>1. j + 1 \in DOMAIN net /\ net'[j] = net[j + 1] /\ 1 < j + 1 /\ j \in Nat
    BY <1>1
  <2>2. Sent(net'[j]) /\ Ahead(p, net'[j])
    BY <1>1, <1>2, <2>1 DEF NetInLine
  <2>3. ASSUME NEW m \in DOMAIN net', j < m
        PROVE  Ahead(net'[j], net'[m])
    <3>1. /\ m + 1 \in DOMAIN net /\ net'[m] = net[m + 1]
          /\ j + 1 < m + 1
      BY <1>1, <2>1, <2>3
    <3> QED BY <1>2, <2>1, <3>1 DEF NetInLine
  <2> QED BY <2>2, <2>3
<1>4. /\ Sent(p)
      /\ \A m \in DOMAIN shown : After(shown[m][1].timestamp, p.timestamp)
  BY <1>1, <1>2 DEF NetInLine, ShownInLine
<1>5. /\ \A k \in DOMAIN frameBuffer :
           /\ FrameOf(bs[k]) = FrameOf(frameBuffer[k])
           /\ \A q \in Packets :
                Holds(bs[k], q) => Holds(frameBuffer[k], q) \/ q = p
      /\ \/ DOMAIN bs = DOMAIN frameBuffer
         \/ /\ FrameOf(bs[Len(bs)]) = p.timestamp
            /\ \A q \in Packets : Holds(bs[Len(bs)], q) <=> q = p
            /\ \A k \in DOMAIN bs : k \in DOMAIN frameBuffer \/ k = Len(bs)
  BY <1>1, ReceivedIs
<1>6. ASSUME NEW k \in DOMAIN bs
      PROVE  \/ k \in DOMAIN frameBuffer
             \/ /\ FrameOf(bs[k]) = p.timestamp
                /\ \A q \in Packets : Holds(bs[k], q) <=> q = p
  BY <1>5
<1>7. ASSUME NEW k \in DOMAIN bs, NEW q \in Packets, Holds(bs[k], q)
      PROVE  Sent(q) /\ \A m \in DOMAIN net' : Ahead(q, net'[m])
  <2>1. CASE q = p
    BY <1>3, <1>4, <2>1
  <2>2. CASE q # p
    <3>1. k \in DOMAIN frameBuffer /\ Holds(frameBuffer[k], q)
      BY <1>5, <1>6, <1>7, <2>2
    <3>2. Sent(q) /\ \A m \in DOMAIN net : Ahead(q, net[m])
      BY <1>2, <3>1 DEF HeldInLine
    <3> QED BY <1>1, <3>2
  <2> QED BY <2>1, <2>2
<1>8. /\ \A j, k \in DOMAIN bs : j < k =>
           \/ FrameOf(bs[j]) < FrameOf(bs[k])
           \/ FrameOf(bs[j]) = FrameOf(bs[k]) /\ bs[j].timestamp = 0
      /\ \A k \in DOMAIN bs : Numbered(FrameOf(bs[k])) => Counted(bs[k])
  BY <1>1, ReceivedFrames
<1>9. ASSUME NEW m \in DOMAIN shown
      PROVE  /\ shown[m] # <<>> /\ After(shown[m][1].timestamp, next[1])
             /\ \A j \in DOMAIN net' :
                  After(shown[m][1].timestamp, net'[j].timestamp)
             /\ \A k \in DOMAIN bs :
                  After(shown[m][1].timestamp, FrameOf(bs[k]))
  <2>1. /\ shown[m] # <<>> /\ After(shown[m][1].timestamp, next[1])
        /\ \A j \in DOMAIN net : After(shown[m][1].timestamp, net[j].timestamp)
        /\ \A k \in DOMAIN frameBuffer :
             After(shown[m][1].timestamp, FrameOf(frameBuffer[k]))
    BY <1>2 DEF ShownInLine
  <2>2. \A j \in DOMAIN net' :
          After(shown[m][1].timestamp, net'[j].timestamp)
    BY <1>1, <2>1
  <2>3. ASSUME NEW k \in DOMAIN bs
        PROVE  After(shown[m][1].timestamp, FrameOf(bs[k]))
    BY <1>4, <1>5, <1>6, <2>1
  <2> QED BY <2>1, <2>2, <2>3
<1> QED BY <1>3, <1>7, <1>8, <1>9

\* Lemma: sending a packet keeps the order.
LEMMA SendInLine ==
  ASSUME BuffersInv, InLine, path = "ordered", Send
  PROVE  /\ NetInLine' /\ HeldInLine' /\ FramesInLine' /\ CountsInLine'
         /\ ShownInLine'
<1>1. PICK p \in Packets : /\ net' = Append(net, p)
                           /\ p.timestamp = next[1] /\ p.n = next[2]
  BY SendIs
<1>2. PICK a \in Nat, b \in Nat : a = next[1] /\ b = next[2]
  BY DEF BuffersInv
<1>3. PICK c \in Nat, d \in Nat : c = next'[1] /\ d = next'[2]
  BY SendIs
<1>4. \/ c = a /\ d > b
      \/ c > a
  BY <1>2, <1>3, SendIs
<1>5. UNCHANGED <<frameBuffer, shown, build>> /\ net \in Seq(Packets)
  BY DEF Send, histories, BuffersInv
<1>6. NetInLine /\ HeldInLine /\ FramesInLine /\ CountsInLine /\ ShownInLine
  BY DEF InLine
<1>7. ASSUME NEW q \in Packets, Sent(q)
      PROVE  Ahead(q, p) /\ Sent(q)'
  <2>1. PICK x \in Nat, y \in Nat : x = q.timestamp /\ y = q.n
    BY PlacesAre
  <2>2. x < a \/ (x = a /\ y < b)
    BY <1>2, <1>7, <2>1 DEF Sent
  <2>3. x < c \/ (x = c /\ y < d)
    BY <1>4, <2>2
  <2> QED BY <1>1, <1>2, <1>3, <2>1, <2>2, <2>3 DEF Ahead, Sent
<1>8. Sent(p)'
  BY <1>1, <1>2, <1>3, <1>4 DEF Sent
<1>9. PICK n \in Nat : n = Len(net)
  BY <1>5
<1>10. /\ DOMAIN net' = 1..(n + 1) /\ net'[n + 1] = p
       /\ \A j \in 1..n : net'[j] = net[j] /\ net[j] \in Packets
       /\ DOMAIN net = 1..n
  BY <1>1, <1>5, <1>9
<1>11. \A j \in 1..(n + 1) : j \in 1..n \/ j = n + 1
  BY <1>9
<1>12. \A j \in 1..n : Sent(net[j]) /\ Ahead(net[j], p) /\ Sent(net[j])'
  <2> SUFFICES ASSUME NEW j \in 1..n
               PROVE  Sent(net[j]) /\ Ahead(net[j], p) /\ Sent(net[j])'
    OBVIOUS
  <2>1. PICK q \in Packets : q = net[j] /\ net'[j] = q
    BY <1>10
  <2>2. Sent(q)
    BY <1>6, <1>10, <2>1 DEF NetInLine
  <2>3. Ahead(q, p) /\ Sent(q)'
    BY <1>7, <2>2
  <2> QED BY <2>1, <2>2, <2>3 DEF Sent
<1>13. NetInLine'
  <2>1. ASSUME NEW j \in 1..(n + 1) PROVE Sent(net[j])'
    BY <1>8, <1>10, <1>11, <1>12 DEF Sent
  <2>2. ASSUME NEW j \in 1..(n + 1), NEW m \in 1..(n + 1), j < m
        PROVE  Ahead(net'[j], net'[m])
    <3>1. j \in 1..n
      BY <1>9, <2>2
    <3>2. CASE m \in 1..n
      BY <1>6, <1>10, <2>2, <3>1, <3>2 DEF NetInLine
    <3>3. CASE m = n + 1
      BY <1>10, <1>12, <3>1, <3>3
    <3> QED BY <1>11, <3>2, <3>3
  <2> QED BY <1>10, <2>1, <2>2 DEF NetInLine, Ahead
<1>14. HeldInLine'
  <2>1. ASSUME NEW k \in DOMAIN frameBuffer, NEW q \in Packets,
               Holds(frameBuffer[k], q)
        PROVE  Sent(q)' /\ \A j \in DOMAIN net' : Ahead(q, net'[j])
    <3>1. Sent(q) /\ \A j \in 1..n : Ahead(q, net[j])
      BY <1>6, <1>10, <2>1 DEF HeldInLine
    <3> QED BY <1>7, <1>10, <1>11, <3>1
  <2> QED BY <1>5, <2>1 DEF HeldInLine, Holds, Sent, Ahead, Packets, Packet
<1>15. FramesInLine' /\ CountsInLine'
  BY <1>5, <1>6
     DEF FramesInLine, CountsInLine, FrameOf, Counted, HasHole, Marked, Used
<1>16. ShownInLine'
  <2>1. ASSUME NEW m \in DOMAIN shown
        PROVE  /\ shown[m] # <<>> /\ After(shown[m][1].timestamp, next'[1])
               /\ \A j \in DOMAIN net' :
                    After(shown[m][1].timestamp, net'[j].timestamp)
               /\ \A k \in DOMAIN frameBuffer :
                    After(shown[m][1].timestamp, FrameOf(frameBuffer[k]))
    <3>1. /\ shown[m] # <<>> /\ After(shown[m][1].timestamp, a)
          /\ \A j \in 1..n : After(shown[m][1].timestamp, net[j].timestamp)
          /\ \A k \in DOMAIN frameBuffer :
               After(shown[m][1].timestamp, FrameOf(frameBuffer[k]))
      BY <1>2, <1>6, <1>10 DEF ShownInLine
    <3>2. shown[m] \in Seq(Packets)
      BY DEF BuffersInv
    <3>3. shown[m][1].timestamp \in Nat
      BY <3>1, <3>2, PlacesAre
    <3>4. After(shown[m][1].timestamp, next'[1])
      <4>1. a <= c
        BY <1>4
      <4> QED BY <1>3, <3>1, <3>3, <4>1, AfterOn
    <3>5. \A j \in DOMAIN net' :
            After(shown[m][1].timestamp, net'[j].timestamp)
      BY <1>1, <1>2, <1>10, <1>11, <3>1
    <3> QED BY <3>1, <3>4, <3>5
  <2> QED BY <1>5, <2>1 DEF ShownInLine, FrameOf
<1> QED BY <1>13, <1>14, <1>15, <1>16

\* Lemma: handing out a picture keeps the order of what is shown.
LEMMA ShowInLine ==
  ASSUME BuffersInv, InLine, path = "ordered",
         NEW i \in DOMAIN net, NEW v \in Int, AddPktAndShow(i, v)
  PROVE  /\ NetInLine' /\ HeldInLine' /\ FramesInLine' /\ CountsInLine'
         /\ ShownInLine'
<1>1. PICK p, bs : p = net[i] /\ bs = Received(frameBuffer, p, v)
  OBVIOUS
<1>2. /\ Arrives(i) /\ IsDue(bs) /\ frameBuffer' = Beheaded(bs)
      /\ \/ shown' = shown
         \/ Complete(bs[1]) /\ shown' = Append(shown, getImage(bs[1]))
      /\ UNCHANGED <<next, build>>
  BY <1>1, ShowIs
<1>3. p \in Packets /\ net' \in Seq(Packets)
  BY <1>1, <1>2, ArrivesIs
<1>4. /\ \A j \in DOMAIN net' :
           /\ Sent(net'[j])
           /\ \A m \in DOMAIN net' : j < m => Ahead(net'[j], net'[m])
      /\ \A k \in DOMAIN bs : \A q \in Packets :
           Holds(bs[k], q) =>
             Sent(q) /\ \A m \in DOMAIN net' : Ahead(q, net'[m])
      /\ \A j, k \in DOMAIN bs : j < k =>
           \/ FrameOf(bs[j]) < FrameOf(bs[k])
           \/ FrameOf(bs[j]) = FrameOf(bs[k]) /\ bs[j].timestamp = 0
      /\ \A k \in DOMAIN bs : Numbered(FrameOf(bs[k])) => Counted(bs[k])
      /\ \A m \in DOMAIN shown :
           /\ shown[m] # <<>> /\ After(shown[m][1].timestamp, next[1])
           /\ \A j \in DOMAIN net' :
                After(shown[m][1].timestamp, net'[j].timestamp)
           /\ \A k \in DOMAIN bs :
                After(shown[m][1].timestamp, FrameOf(bs[k]))
  BY <1>1, <1>2, ReceivedInLine
<1>5. PICK t : t = Beheaded(bs)
  OBVIOUS
<1>6. /\ bs \in Seq(Buffers) /\ 1 \in DOMAIN bs
      /\ bs[1] \in Buffers /\ Filled(bs[1])
      /\ \A k \in DOMAIN t :
           k \in Nat /\ k + 1 \in DOMAIN bs /\ 1 < k + 1 /\ t[k] = bs[k + 1]
      /\ Len(bs) \in DOMAIN bs /\ 1 < Len(bs)
      /\ FrameOf(bs[Len(bs)]) = p.timestamp /\ Holds(bs[Len(bs)], p)
  <2>1. /\ 1 \in DOMAIN bs /\ bs[1] \in Buffers /\ Filled(bs[1])
        /\ Len(bs) = Len(frameBuffer) + 1 /\ 1 \in DOMAIN frameBuffer
        /\ Len(bs) \in DOMAIN bs
        /\ \A k \in DOMAIN t :
             k \in Nat /\ k + 1 \in DOMAIN bs /\ 1 < k + 1 /\ t[k] = bs[k + 1]
    BY <1>1, <1>2, <1>3, <1>5, DueIs
  <2>2. Len(bs) # Len(frameBuffer) /\ 1 < Len(bs)
    <3>1. frameBuffer \in Seq(Buffers)
      BY DEF BuffersInv
    <3> QED BY <2>1, <3>1
  <2>3. FrameOf(bs[Len(bs)]) = p.timestamp /\ Holds(bs[Len(bs)], p)
    BY <1>1, <1>3, <2>2, ReceivedIs
  <2>4. bs \in Seq(Buffers)
    BY <1>1, <1>3, ReceivedAt
  <2> QED BY <2>1, <2>2, <2>3, <2>4
<1>7. frameBuffer' = t
  BY <1>2, <1>5
<1>8. NetInLine'
  BY <1>2, <1>4 DEF NetInLine, Sent, Ahead
<1>9. HeldInLine'
  <2>1. ASSUME NEW k \in DOMAIN t, NEW q \in Packets, Holds(t[k], q)
        PROVE  Sent(q) /\ \A m \in DOMAIN net' : Ahead(q, net'[m])
    BY <1>4, <1>6, <2>1
  <2> QED BY <1>2, <1>7, <2>1
          DEF HeldInLine, Holds, Sent, Ahead, Packets, Packet
<1>10. FramesInLine'
  <2>1. ASSUME NEW j \in DOMAIN t, NEW k \in DOMAIN t, j < k
        PROVE  \/ FrameOf(t[j]) < FrameOf(t[k])
               \/ FrameOf(t[j]) = FrameOf(t[k]) /\ t[j].timestamp = 0
    <3>1. j + 1 < k + 1
      BY <1>6, <2>1
    <3> QED BY <1>4, <1>6, <3>1
  <2> QED BY <1>7, <2>1 DEF FramesInLine, FrameOf
<1>11. CountsInLine'
  <2>1. \A k \in DOMAIN t : Numbered(FrameOf(t[k])) => Counted(t[k])
    BY <1>4, <1>6
  <2> QED BY <1>2, <1>7, <2>1
          DEF CountsInLine, FrameOf, Counted, HasHole, Marked, Used
<1>12. CASE shown' = shown
  <2>1. ASSUME NEW m \in DOMAIN shown
        PROVE  \A k \in DOMAIN t : After(shown[m][1].timestamp, FrameOf(t[k]))
    BY <1>4, <1>6
  <2>2. ShownInLine'
    BY <1>2, <1>4, <1>7, <1>12, <2>1 DEF ShownInLine, FrameOf
  <2> QED BY <1>8, <1>9, <1>10, <1>11, <2>2
<1>13. CASE Complete(bs[1]) /\ shown' = Append(shown, getImage(bs[1]))
  <2>1. PICK f \in Nat : f = FrameOf(bs[1])
    BY <1>6, FirstIs
  \* A buffer that is found no more, of a numbered frame, is not complete.
  <2>2. ASSUME NEW k \in DOMAIN bs, 1 < k PROVE After(f, FrameOf(bs[k]))
    <3>1. \/ f < FrameOf(bs[k])
          \/ f = FrameOf(bs[k]) /\ bs[1].timestamp = 0
      BY <1>4, <1>6, <2>1, <2>2
    <3>2. CASE f = FrameOf(bs[k]) /\ bs[1].timestamp = 0
      <4>1. ~HasHole(bs[1])
        BY <1>6, <1>13, CompleteUsed
      <4>2. ~Numbered(f)
        BY <1>4, <1>6, <2>1, <3>2, <4>1 DEF Counted
      <4> QED BY <3>2, <4>2 DEF After
    <3> QED BY <3>1, <3>2 DEF After
  <2>3. PICK g \in Nat : g = p.timestamp /\ After(f, g)
    BY <1>3, <1>6, <2>2, PlacesAre
  <2>4. Sent(p) /\ \A m \in DOMAIN net' : Ahead(p, net'[m])
    BY <1>3, <1>4, <1>6
  <2>5. After(f, next[1])
    <3>1. PICK h \in Nat : h = next[1]
      BY DEF BuffersInv
    <3>2. g <= h
      BY <2>3, <2>4, <3>1 DEF Sent
    <3> QED BY <2>3, <3>1, <3>2, AfterOn
  <2>6. ASSUME NEW j \in DOMAIN net' PROVE After(f, net'[j].timestamp)
    <3>1. PICK h \in Nat : h = net'[j].timestamp
      BY <1>3, PlacesAre
    <3>2. Ahead(p, net'[j])
      BY <2>4
    <3>3. g <= h
      BY <2>3, <3>1, <3>2 DEF Ahead
    <3> QED BY <2>3, <3>1, <3>3, AfterOn
  <2>7. PICK image : image = getImage(bs[1])
    OBVIOUS
  <2>8. image \in Seq(Packets) /\ image # <<>> /\ image[1].timestamp = f
    <3>1. image \in Seq(Packets) /\ Len(image) >= 1
          /\ image[1].timestamp = FrameOf(bs[1])
      BY <1>6, <1>13, <2>7, ImageIsRow
    <3> QED BY <2>1, <3>1
  <2>9. ASSUME NEW m \in DOMAIN shown'
        PROVE  \/ m \in DOMAIN shown /\ shown'[m] = shown[m]
               \/ shown'[m] = image
    <3>1. shown' = Append(shown, image) /\ shown \in Seq(Seq(Packets))
      BY <1>13, <2>7 DEF BuffersInv
    <3> QED BY <2>8, <3>1
  <2>10. ASSUME NEW m \in DOMAIN shown'
         PROVE  /\ shown'[m] # <<>> /\ After(shown'[m][1].timestamp, next[1])
                /\ \A j \in DOMAIN net' :
                     After(shown'[m][1].timestamp, net'[j].timestamp)
                /\ \A k \in DOMAIN t :
                     After(shown'[m][1].timestamp, FrameOf(t[k]))
    <3>1. CASE m \in DOMAIN shown /\ shown'[m] = shown[m]
      BY <1>4, <1>6, <3>1
    <3>2. CASE shown'[m] = image
      BY <1>6, <2>2, <2>5, <2>6, <2>8, <3>2
    <3> QED BY <2>9, <3>1, <3>2
  <2>11. ShownInLine'
    BY <1>2, <1>7, <2>10 DEF ShownInLine, FrameOf
  <2> QED BY <1>8, <1>9, <1>10, <1>11, <2>11
<1> QED BY <1>2, <1>12, <1>13

\* Lemma: losing a packet keeps the order.
LEMMA LoseInLine ==
  ASSUME BuffersInv, InLine, path = "ordered", NEW i \in DOMAIN net, Lose(i)
  PROVE  /\ NetInLine' /\ HeldInLine' /\ FramesInLine' /\ CountsInLine'
         /\ ShownInLine'
<1>1. NetInLine /\ HeldInLine /\ FramesInLine /\ CountsInLine /\ ShownInLine
  BY DEF InLine
<1>2. net \in Seq(Packets) /\ UNCHANGED <<next, frameBuffer, shown, build>>
  BY DEF BuffersInv, Lose, histories
<1>3. \A j \in DOMAIN net' :
        /\ j < i => j \in DOMAIN net /\ net'[j] = net[j]
        /\ ~(j < i) => j + 1 \in DOMAIN net /\ net'[j] = net[j + 1]
  BY <1>2, WithoutIs DEF Lose
<1>4. \A j \in DOMAIN net' : j \in Int /\ i \in Int
  BY <1>2, WithoutIs DEF Lose
<1>5. ASSUME NEW j \in DOMAIN net', NEW m \in DOMAIN net', j < m
      PROVE  Ahead(net'[j], net'[m])
  <2>1. CASE j < i /\ m < i
    BY <1>1, <1>3, <1>5, <2>1 DEF NetInLine
  <2>2. CASE j < i /\ ~(m < i)
    <3>1. j < m + 1
      BY <1>4, <1>5
    <3> QED BY <1>1, <1>3, <2>2, <3>1 DEF NetInLine
  <2>3. CASE ~(j < i) /\ ~(m < i)
    <3>1. j + 1 < m + 1
      BY <1>4, <1>5
    <3> QED BY <1>1, <1>3, <2>3, <3>1 DEF NetInLine
  <2>4. ~(~(j < i) /\ m < i)
    BY <1>4, <1>5
  <2> QED BY <2>1, <2>2, <2>3, <2>4
<1>6. \A j \in DOMAIN net' : \E m \in DOMAIN net : net'[j] = net[m]
  BY <1>3
<1>7. NetInLine'
  BY <1>1, <1>2, <1>5, <1>6 DEF NetInLine, Sent, Ahead
<1>8. HeldInLine'
  <2>1. ASSUME NEW k \in DOMAIN frameBuffer, NEW q \in Packets,
               Holds(frameBuffer[k], q)
        PROVE  Sent(q) /\ \A j \in DOMAIN net' : Ahead(q, net'[j])
    <3>1. Sent(q) /\ \A j \in DOMAIN net : Ahead(q, net[j])
      BY <1>1, <2>1 DEF HeldInLine
    <3> QED BY <1>6, <3>1
  <2> QED BY <1>2, <2>1 DEF HeldInLine, Holds, Sent, Ahead, Packets, Packet
<1>9. FramesInLine' /\ CountsInLine'
  BY <1>1, <1>2
     DEF FramesInLine, CountsInLine, FrameOf, Counted, HasHole, Marked, Used
<1>10. ShownInLine'
  <2>1. ASSUME NEW m \in DOMAIN shown, NEW j \in DOMAIN net'
        PROVE  After(shown[m][1].timestamp, net'[j].timestamp)
    BY <1>1, <1>6 DEF ShownInLine
  <2> QED BY <1>1, <1>2, <2>1 DEF ShownInLine, FrameOf
<1> QED BY <1>7, <1>8, <1>9, <1>10

\* Lemma: the order is kept.
LEMMA InLineKept ==
  ASSUME BuffersInv, InLine, [Next]_vars
  PROVE  InLine'
<1>1. path' = path /\ build' = build
  BY PathStays
<1>2. CASE path # "ordered"
  BY <1>1, <1>2 DEF InLine
<1>3. CASE path = "ordered"
  <2>1. CASE Send
    BY <1>3, <2>1, SendInLine DEF InLine
  <2>2. ASSUME NEW i \in DOMAIN net, Lose(i)
        PROVE  InLine'
    BY <1>3, <2>2, LoseInLine DEF InLine
  <2>3. ASSUME NEW i \in DOMAIN net, NEW v \in Int, AddPkt(i, v)
        PROVE  InLine'
    <3>1. PICK p, bs : p = net[i] /\ bs = Received(frameBuffer, p, v)
      OBVIOUS
    <3>2. Arrives(i) /\ frameBuffer' = bs /\ UNCHANGED <<next, shown>>
      BY <2>3, <3>1 DEF AddPkt
    <3>3. /\ \A j \in DOMAIN net' :
               /\ Sent(net'[j])
               /\ \A m \in DOMAIN net' : j < m => Ahead(net'[j], net'[m])
          /\ \A k \in DOMAIN bs : \A q \in Packets :
               Holds(bs[k], q) =>
                 Sent(q) /\ \A m \in DOMAIN net' : Ahead(q, net'[m])
          /\ \A j, k \in DOMAIN bs : j < k =>
               \/ FrameOf(bs[j]) < FrameOf(bs[k])
               \/ FrameOf(bs[j]) = FrameOf(bs[k]) /\ bs[j].timestamp = 0
          /\ \A k \in DOMAIN bs : Numbered(FrameOf(bs[k])) => Counted(bs[k])
          /\ \A m \in DOMAIN shown :
               /\ shown[m] # <<>> /\ After(shown[m][1].timestamp, next[1])
               /\ \A j \in DOMAIN net' :
                    After(shown[m][1].timestamp, net'[j].timestamp)
               /\ \A k \in DOMAIN bs :
                    After(shown[m][1].timestamp, FrameOf(bs[k]))
      BY <1>3, <2>3, <3>1, <3>2, ReceivedInLine
    <3>4. NetInLine'
      BY <3>2, <3>3 DEF NetInLine, Sent, Ahead
    <3>5. HeldInLine'
      BY <3>2, <3>3 DEF HeldInLine, Holds, Sent, Ahead, Packets, Packet
    <3>6. FramesInLine'
      BY <3>2, <3>3 DEF FramesInLine, FrameOf
    <3>7. CountsInLine'
      BY <1>1, <3>2, <3>3
         DEF CountsInLine, FrameOf, Counted, HasHole, Marked, Used
    <3>8. ShownInLine'
      BY <3>2, <3>3 DEF ShownInLine, FrameOf
    <3> QED BY <3>4, <3>5, <3>6, <3>7, <3>8 DEF InLine
  <2>4. ASSUME NEW i \in DOMAIN net, NEW v \in Int, AddPktAndShow(i, v)
        PROVE  InLine'
    BY <1>3, <2>4, ShowInLine DEF InLine
  <2>5. CASE UNCHANGED vars
    BY <1>3, <2>5 DEF vars, histories, InLine, NetInLine, HeldInLine,
          FramesInLine, CountsInLine, ShownInLine, FrameOf, Holds, Sent,
          Ahead, Packets, Packet, Counted, HasHole, Marked, Used
  <2>6. Pointers \subseteq Int
    BY Sizes
  <2> QED BY <2>1, <2>2, <2>3, <2>4, <2>5, <2>6 DEF Next
<1> QED BY <1>2, <1>3

\* Lemma: the order holds at the beginning.
LEMMA OrderAtFirst ==
  ASSUME Init
  PROVE  BuffersInv /\ OwnBuffer /\ InLine /\ ArrivedIsHeld
<1>1. BuffersInv
  BY Sizes, FrameAssumption DEF Init, BuffersInv
<1>2. DOMAIN frameBuffer = {} /\ DOMAIN net = {} /\ DOMAIN shown = {}
      /\ arrived = {}
  BY DEF Init
<1> QED BY <1>1, <1>2 DEF OwnBuffer, InLine, NetInLine, HeldInLine,
           FramesInLine, CountsInLine, ShownInLine, ArrivedIsHeld

\* Lemma: a picture that is handed out comes after all that were.
LEMMA InOrderKept ==
  ASSUME BuffersInv, InLine, PicturesInOrder, [Next]_vars
  PROVE  PicturesInOrder'
<1>1. path' = path
  BY PathStays
<1>2. CASE path # "ordered" \/ shown' = shown
  BY <1>1, <1>2 DEF PicturesInOrder
<1>3. ASSUME NEW i \in DOMAIN net, NEW v \in Int, AddPktAndShow(i, v),
             path = "ordered", shown' # shown
      PROVE  PicturesInOrder'
  <2>1. PICK p, bs : p = net[i] /\ bs = Received(frameBuffer, p, v)
    OBVIOUS
  <2>2. /\ Arrives(i) /\ IsDue(bs) /\ Complete(bs[1])
        /\ shown' = Append(shown, getImage(bs[1]))
    BY <1>3, <2>1, ShowIs
  <2>3. p \in Packets
    BY <2>1, <2>2, ArrivesIs
  <2>4. /\ bs[1] \in Buffers /\ Filled(bs[1])
        /\ 1 \in DOMAIN frameBuffer /\ bs[1] = frameBuffer[1]
    BY <2>1, <2>2, <2>3, DueIs
  <2>5. PICK image : image = getImage(bs[1])
    OBVIOUS
  <2>6. /\ image[1].timestamp = FrameOf(frameBuffer[1])
        /\ shown \in Seq(Seq(Packets)) /\ image \in Seq(Packets)
    BY <2>2, <2>4, <2>5, ImageIsRow DEF BuffersInv
  <2>7. \A m \in DOMAIN shown :
          After(shown[m][1].timestamp, image[1].timestamp)
    BY <1>3, <2>4, <2>6 DEF InLine, ShownInLine
  <2>8. PICK n \in Nat : n = Len(shown)
    BY <2>6
  <2>9. /\ DOMAIN shown' = 1..(n + 1) /\ shown'[n + 1] = image
        /\ \A m \in 1..n : m \in DOMAIN shown /\ shown'[m] = shown[m]
    BY <2>2, <2>5, <2>6, <2>8
  <2>10. ASSUME NEW j \in 1..(n + 1), NEW k \in 1..(n + 1), j < k
         PROVE  After(shown'[j][1].timestamp, shown'[k][1].timestamp)
    <3>1. j \in 1..n /\ (k \in 1..n \/ k = n + 1)
      BY <2>8, <2>10
    <3> QED BY <1>3, <2>7, <2>9, <2>10, <3>1 DEF PicturesInOrder, After
  <2> QED BY <2>9, <2>10 DEF PicturesInOrder, After
<1>4. ASSUME NEW i \in DOMAIN net, NEW v \in Int, Lose(i) \/ AddPkt(i, v)
      PROVE  shown' = shown
  BY <1>4 DEF Lose, AddPkt, histories
<1>5. Send \/ UNCHANGED vars => shown' = shown
  BY DEF Send, vars, histories
<1>6. Pointers \subseteq Int
  BY Sizes
<1> QED BY <1>2, <1>3, <1>4, <1>5, <1>6 DEF Next

\* Theorem: on a path that keeps the order, pictures are handed out in the
\* order of their frames and at most one of a frame the numbers of which tell
\* the places, also when it does not fit and a second buffer is begun for it.
THEOREM PicturesFollow == Spec => []PicturesInOrder
<1> DEFINE Inv == BuffersInv /\ InLine /\ PicturesInOrder
<1>1. Init => Inv
  <2>1. Init => PicturesInOrder
    BY DEF Init, PicturesInOrder
  <2> QED BY <2>1, OrderAtFirst
<1>2. Inv /\ [Next]_vars => Inv'
  BY BuffersKept, InLineKept, InOrderKept
<1>3. Inv => PicturesInOrder
  OBVIOUS
<1> QED BY <1>1, <1>2, <1>3, PTL DEF Spec

----------------------------------------------------------------------------
(* What arrives is shown *)

\* Lemma: a packet that a buffer holds is of its frame.
LEMMA HeldIsOwn ==
  ASSUME NEW b \in Buffers, Filled(b), NEW q \in Packets, Holds(b, q)
  PROVE  q.timestamp = FrameOf(b)
BY UsedHolds, PacketIs DEF Holds

\* Lemma: a packet that came in time is kept until its frame is closed.
LEMMA ArrivedKept ==
  ASSUME BuffersInv, ArrivedIsHeld, [Next]_vars
  PROVE  ArrivedIsHeld'
<1>1. UNCHANGED <<path, build>> /\ arrived \subseteq Packets
  BY PathStays DEF BuffersInv
<1>2. ASSUME NEW i \in DOMAIN net, NEW v \in Int, AddPkt(i, v)
      PROVE  ArrivedIsHeld'
  <2>1. PICK p, bs : p = net[i] /\ bs = Received(frameBuffer, p, v)
    OBVIOUS
  <2>2. /\ Arrives(i) /\ frameBuffer' = bs /\ closed' = closed
        /\ arrived' = arrived \cup InTime(p) /\ refused \subseteq refused'
        /\ Fits(p.timestamp) /\ HasRefused(frameBuffer, p)
             => p.timestamp \in refused'
    BY <1>2, <2>1 DEF AddPkt
  <2>3. p \in Packets
    BY <2>1, <2>2, ArrivesIs
  <2>4. /\ \A k \in DOMAIN frameBuffer :
             /\ k \in DOMAIN bs
             /\ Fits(FrameOf(frameBuffer[k])) =>
                  \A q \in Packets : Holds(frameBuffer[k], q) => Holds(bs[k], q)
        /\ Fits(p.timestamp) =>
             HasRefused(frameBuffer, p) \/ \E k \in DOMAIN bs : Holds(bs[k], p)
    BY <2>1, <2>3, ReceivedIs
  <2>5. ASSUME NEW q \in arrived', Own(q.timestamp), Fits(q.timestamp),
               q.timestamp \notin closed' \cup refused'
        PROVE  \E k \in DOMAIN bs : Holds(bs[k], q)
    <3>1. CASE q \in arrived
      <4>1. PICK k \in DOMAIN frameBuffer : Holds(frameBuffer[k], q)
        BY <2>2, <2>5, <3>1 DEF ArrivedIsHeld
      <4>2. q.timestamp = FrameOf(frameBuffer[k])
        BY <1>1, <3>1, <4>1, HeldIsOwn DEF BuffersInv
      <4> QED BY <1>1, <2>4, <2>5, <3>1, <4>1, <4>2
    <3>2. CASE q = p
      BY <2>2, <2>4, <2>5, <3>2
    <3> QED BY <2>2, <3>1, <3>2 DEF InTime
  <2> QED BY <1>1, <2>2, <2>5 DEF ArrivedIsHeld, Holds, Own
<1>3. ASSUME NEW i \in DOMAIN net, NEW v \in Int, AddPktAndShow(i, v)
      PROVE  ArrivedIsHeld'
  <2>1. PICK p, bs : p = net[i] /\ bs = Received(frameBuffer, p, v)
    OBVIOUS
  <2>2. /\ Arrives(i) /\ IsDue(bs) /\ frameBuffer' = Beheaded(bs)
        /\ closed' = closed \cup {FrameOf(bs[1])}
        /\ arrived' = arrived \cup InTime(p) /\ refused' = refused
    BY <1>3, <2>1, ShowIs
  <2>3. p \in Packets
    BY <2>1, <2>2, ArrivesIs
  <2>4. \A k \in DOMAIN frameBuffer :
          /\ k \in DOMAIN bs /\ FrameOf(bs[k]) = FrameOf(frameBuffer[k])
          /\ Fits(FrameOf(frameBuffer[k])) =>
               \A q \in Packets : Holds(frameBuffer[k], q) => Holds(bs[k], q)
    BY <2>1, <2>3, ReceivedIs
  <2>5. PICK t : t = Beheaded(bs)
    OBVIOUS
  <2>6. /\ Len(bs) \in DOMAIN bs /\ Len(bs) # 1 /\ Holds(bs[Len(bs)], p)
        /\ \A k \in DOMAIN bs : k # 1 => k - 1 \in DOMAIN t /\ t[k - 1] = bs[k]
    <3>1. /\ Len(bs) = Len(frameBuffer) + 1 /\ Len(bs) \in DOMAIN bs
          /\ Len(bs) # 1 /\ frameBuffer \in Seq(Buffers)
          /\ \A k \in DOMAIN bs :
               k # 1 => k - 1 \in DOMAIN t /\ t[k - 1] = bs[k]
      BY <2>1, <2>2, <2>3, <2>5, DueIs DEF BuffersInv
    <3>2. Len(bs) # Len(frameBuffer)
      BY <3>1
    <3>3. Holds(bs[Len(bs)], p)
      BY <2>1, <2>3, <3>2, ReceivedIs
    <3> QED BY <3>1, <3>3
  <2>7. ASSUME NEW q \in arrived', Own(q.timestamp), Fits(q.timestamp),
               q.timestamp \notin closed' \cup refused'
        PROVE  \E k \in DOMAIN t : Holds(t[k], q)
    <3>1. \E k \in DOMAIN bs : k # 1 /\ Holds(bs[k], q)
      <4>1. CASE q \in arrived
        <5>1. PICK k \in DOMAIN frameBuffer : Holds(frameBuffer[k], q)
          BY <2>2, <2>7, <4>1 DEF ArrivedIsHeld
        <5>2. q.timestamp = FrameOf(frameBuffer[k])
          BY <1>1, <4>1, <5>1, HeldIsOwn DEF BuffersInv
        <5>3. k \in DOMAIN bs /\ Holds(bs[k], q) /\ q.timestamp = FrameOf(bs[k])
          BY <1>1, <2>4, <2>7, <4>1, <5>1, <5>2
        <5>4. k # 1
          BY <2>2, <2>7, <5>3
        <5> QED BY <5>3, <5>4
      <4>2. CASE q = p
        BY <2>6, <4>2
      <4> QED BY <2>2, <4>1, <4>2 DEF InTime
    <3> QED BY <2>6, <3>1
  <2> QED BY <1>1, <2>2, <2>5, <2>7 DEF ArrivedIsHeld, Holds, Own
<1>4. ASSUME Send \/ UNCHANGED vars \/ \E i \in DOMAIN net : Lose(i)
      PROVE  ArrivedIsHeld'
  <2>1. UNCHANGED <<arrived, closed, refused, frameBuffer>>
    BY <1>4 DEF Send, Lose, vars, histories
  <2> QED BY <1>1, <2>1 DEF ArrivedIsHeld, Holds, Own
<1>5. Pointers \subseteq Int
  BY Sizes
<1> QED BY <1>2, <1>3, <1>4, <1>5 DEF Next

\* Lemma: the frame that is handed out has been put together as a whole, if
\* all of it arrived and there is room for it.
LEMMA ClosedIsShown ==
  ASSUME BuffersInv, OwnBuffer, ArrivedIsHeld,
         NEW i \in DOMAIN net, NEW v \in Int, AddPktAndShow(i, v),
         NEW f, f \in closed' \ (refused' \cup tooLarge'), f \notin closed,
         Fits(f), Own(f), ~WrapsIn(f),
         \A n \in 1..Lengths[f] : Packet(f, n) \in arrived'
  PROVE  \E k \in DOMAIN shown' : shown'[k] = Whole(f)
<1>1. PICK p, bs : p = net[i] /\ bs = Received(frameBuffer, p, v)
  OBVIOUS
<1>2. /\ Arrives(i) /\ IsDue(bs)
      /\ Complete(bs[1]) => \/ shown' = Append(shown, getImage(bs[1]))
                            \/ bs[1].timestamp \in tooLarge'
      /\ closed' = closed \cup {FrameOf(bs[1])}
      /\ arrived' = arrived \cup InTime(p) /\ refused' = refused
  BY <1>1, ShowIs
<1>3. p \in Packets
  BY <1>1, <1>2, ArrivesIs
<1>4. /\ Len(bs) = Len(frameBuffer) + 1 /\ 1 \in DOMAIN frameBuffer
      /\ bs[1] = frameBuffer[1] /\ frameBuffer \in Seq(Buffers)
      /\ \A k \in DOMAIN frameBuffer : Filled(frameBuffer[k])
  BY <1>1, <1>2, <1>3, DueIs DEF BuffersInv
<1>5. \A k \in DOMAIN frameBuffer : frameBuffer[k].timestamp # p.timestamp
  <2>1. Len(bs) # Len(frameBuffer)
    BY <1>4
  <2> QED BY <1>1, <1>3, <2>1, ReceivedIs
<1>6. PICK b \in Buffers : b = frameBuffer[1] /\ Filled(b)
  BY <1>4
<1>7. f = FrameOf(b)
  BY <1>2, <1>4, <1>6
<1>8. /\ b.timestamp = f /\ f # p.timestamp
      /\ \A j \in DOMAIN frameBuffer : FrameOf(frameBuffer[j]) = f => j = 1
  BY <1>4, <1>5, <1>6, <1>7 DEF OwnBuffer
<1>9. f \in Frames
  BY <1>6, <1>7, FirstIs
<1>10. ASSUME NEW n \in 1..Lengths[f]
       PROVE  Holds(b, Packet(f, n))
  <2>1. PICK q \in Packets : q = Packet(f, n) /\ q.timestamp = f
    BY <1>9, PacketIs
  <2>2. q \in arrived
    BY <1>2, <1>8, <2>1 DEF InTime
  <2>3. PICK k \in DOMAIN frameBuffer : Holds(frameBuffer[k], q)
    BY <1>2, <2>1, <2>2 DEF ArrivedIsHeld
  <2>4. FrameOf(frameBuffer[k]) = f
    BY <1>4, <2>1, <2>3, HeldIsOwn
  <2> QED BY <1>6, <1>8, <2>1, <2>3, <2>4
<1>11. Complete(b) /\ getImage(b) = Whole(f)
  BY <1>6, <1>7, <1>10, AllHeldIsWhole
<1>12. shown' = Append(shown, Whole(f))
  BY <1>2, <1>4, <1>6, <1>8, <1>11
<1>13. Len(shown) + 1 \in DOMAIN shown' /\ shown'[Len(shown) + 1] = Whole(f)
  BY <1>12 DEF BuffersInv
<1> QED BY <1>13

\* Lemma: what was to be shown is shown.
LEMMA ShownKept ==
  ASSUME BuffersInv, OwnBuffer, ArrivedIsHeld, ArrivedIsShown, [Next]_vars
  PROVE  ArrivedIsShown'
<1>1. UNCHANGED <<path, build>>
  BY PathStays
<1> SUFFICES ASSUME NEW f, f \in closed' \ (refused' \cup tooLarge'),
                    Fits(f), build = "narrow" \/ path = "ordered", ~WrapsIn(f),
                    \A n \in 1..Lengths[f] : Packet(f, n) \in arrived'
             PROVE  \E k \in DOMAIN shown' : shown'[k] = Whole(f)
  BY <1>1 DEF ArrivedIsShown, Fits, WrapsIn, Whole, Packet
<1>2. CASE f \notin closed
  <2>1. \E i \in DOMAIN net, v \in Int : AddPktAndShow(i, v)
    <3>1. Pointers \subseteq Int
      BY Sizes
    <3> QED BY <1>2, <3>1 DEF Next, Send, Lose, AddPkt, vars, histories
  <2>2. Own(f)
    BY DEF Own
  <2> QED BY <1>2, <2>1, <2>2, ClosedIsShown
<1>3. CASE f \in closed
  <2>1. /\ refused \subseteq refused' /\ tooLarge \subseteq tooLarge'
        /\ \A q \in arrived' : q.timestamp = f => q \in arrived
        /\ \/ shown' = shown
           \/ \E image : shown' = Append(shown, image)
    <3>1. ASSUME NEW i \in DOMAIN net, NEW v \in Int, AddPktAndShow(i, v)
          PROVE  <2>1
      <4>1. PICK p, bs : p = net[i] /\ bs = Received(frameBuffer, p, v)
        OBVIOUS
      <4>2. /\ \/ shown' = shown
               \/ Complete(bs[1]) /\ shown' = Append(shown, getImage(bs[1]))
            /\ arrived' = arrived \cup InTime(p)
            /\ tooLarge \subseteq tooLarge' /\ refused' = refused
        BY <3>1, <4>1, ShowIs
      <4> QED BY <1>3, <4>2 DEF InTime
    <3>2. ASSUME NEW i \in DOMAIN net, NEW v \in Int, AddPkt(i, v)
          PROVE  <2>1
      <4>1. /\ refused \subseteq refused' /\ tooLarge' = tooLarge
            /\ arrived' = arrived \cup InTime(net[i]) /\ shown' = shown
        BY <3>2 DEF AddPkt
      <4> QED BY <1>3, <4>1 DEF InTime
    <3>3. ASSUME Send \/ UNCHANGED vars \/ \E i \in DOMAIN net : Lose(i)
          PROVE  <2>1
      BY <3>3 DEF Send, Lose, vars, histories
    <3>4. Pointers \subseteq Int
      BY Sizes
    <3> QED BY <3>1, <3>2, <3>3, <3>4 DEF Next
  <2>2. \A n \in 1..Lengths[f] : Packet(f, n) \in arrived
    <3>1. \A n : Packet(f, n).timestamp = f
      BY DEF Packet
    <3> QED BY <2>1, <3>1
  <2>3. PICK k \in DOMAIN shown : shown[k] = Whole(f)
    BY <1>3, <2>1, <2>2 DEF ArrivedIsShown
  <2>4. k \in DOMAIN shown' /\ shown'[k] = shown[k]
    <3>1. CASE shown' = shown
      BY <3>1
    <3>2. ASSUME NEW image, shown' = Append(shown, image)
          PROVE  k \in DOMAIN shown' /\ shown'[k] = shown[k]
      <4> DEFINE S == Seq(Packets) \cup {image}
      <4>1. \A n \in DOMAIN shown : shown[n] \in S
        BY DEF BuffersInv
      <4>2. shown \in Seq(S) /\ image \in S
        BY <4>1 DEF BuffersInv
      <4> HIDE DEF S
      <4> QED BY <3>2, <4>2
    <3> QED BY <2>1, <3>1, <3>2
  <2> QED BY <2>3, <2>4
<1> QED BY <1>2, <1>3

\* Theorem: a frame that fits, all packets of which arrive before it is
\* closed, is handed out as a whole, with the exceptions ArrivedIsShown names,
\* whatever the lengths of the other frames.
THEOREM ArrivedAreShown == Spec => []ArrivedIsShown
<1> DEFINE Inv == /\ BuffersInv /\ OwnBuffer /\ InLine
                  /\ ArrivedIsHeld /\ ArrivedIsShown
<1>1. Init => Inv
  <2>1. Init => ArrivedIsShown
    BY DEF Init, ArrivedIsShown
  <2> QED BY <2>1, OrderAtFirst
<1>2. Inv /\ [Next]_vars => Inv'
  BY BuffersKept, OwnKept, InLineKept, ArrivedKept, ShownKept
<1>3. Inv => ArrivedIsShown
  OBVIOUS
<1> QED BY <1>1, <1>2, <1>3, PTL DEF Spec

=============================================================================
