----------------------------- MODULE FrameBuffer -----------------------------
(***************************************************************************)
(* From packets to pictures: rtp2image_t hands every RTP packet of a video *)
(* source to defragmenter_t, which keeps a buffer per frame (the packets   *)
(* of a frame share a timestamp), puts each packet in the slot given by    *)
(* its number, and hands out the oldest frame when one more than           *)
(* frameBufferSize have begun.  The path loses packets, and either keeps   *)
(* their order or lets them overtake and repeats them.                     *)
(*                                                                         *)
(* The packets of frame f are numbered in a row, the last one is marked.   *)
(* A frame may be longer than a buffer: then a packet or a pointer is      *)
(* written over what lies behind the slots, numPkts and timestamp.         *)
(* A picture is the sequence of packets it is put together from; its size  *)
(* is their number.  The payload formats, which look at the packets from   *)
(* the first slot to the mark, are left out, and so is the decoder.        *)
(***************************************************************************)
EXTENDS Integers, Sequences, FiniteSets

CONSTANTS SeqMod,          \* RTP_MAX_SEQ_NUM
          MaxDiff,         \* RTP_MAX_SEQ_DIFF
          BufferSize,      \* PACKET_BUFFER_SIZE
          MaxBack,         \* how far before the first slot a packet may be: 10
          frameBufferSize, \* frames kept before one is handed out
          FirstSeq,        \* the number of the first packet
          Lengths,         \* the number of packets of each frame
          InitRooms,       \* first values of rtp2image_t.newFrameLen
          Pointers,        \* what a pointer is when it is read as numPkts
          MaxFlight,       \* bound: the source waits when so many are in flight
          MaxRepeats,      \* bound: copies the path makes
          NULL             \* an empty slot

Frames == 1..Len(Lengths)

ASSUME FrameAssumption ==
  /\ SeqMod \in Nat \ {0} /\ FirstSeq \in 0..(SeqMod - 1)
  /\ MaxDiff \in Nat /\ 2 * MaxDiff < SeqMod
  /\ frameBufferSize \in Nat \ {0}
  /\ MaxBack \in Nat /\ InitRooms \subseteq Nat
  /\ MaxFlight \in Nat /\ MaxRepeats \in Nat
  /\ BufferSize \in Nat \ {0}
  /\ MaxBack <= BufferSize /\ BufferSize <= MaxDiff
  /\ Lengths \in Seq(Nat \ {0})
  /\ Pointers \subseteq Int /\ Pointers # {}

Slots == 0..(BufferSize - 1)

\* The places of the packets: frame and place in it.
Stream == UNION {{f} \X (1..Lengths[f]) : f \in Frames}

\* The number of packets before frame f.
Before == [f \in Frames |-> Cardinality({s \in Stream : s[1] < f})]

Packet(f, i) == [seq |-> (FirstSeq + Before[f] + i - 1) % SeqMod,
                 timestamp |-> f, n |-> i, mark |-> i = Lengths[f]]

Packets == {Packet(s[1], s[2]) : s \in Stream}

\* A buffer has a slot for every packet of f.
Fits(f) == Lengths[f] <= BufferSize

\* The numbers tell how far two packets of f are from each other.
Numbered(f) == Lengths[f] <= SeqMod - BufferSize

\* An empty slot is not a packet.
ASSUME NullAssumption == NULL \notin Packets

VARIABLES
  path,        \* "ordered", or "reordering": packets overtake and repeat
  build,       \* "wide": a pointer is as large as numPkts and timestamp
               \* together, "narrow": as large as numPkts
  next,        \* the next packet of the source: frame and place in it
  net,         \* packets in flight
  repeats,     \* copies the path has made
  frameBuffer, \* defragmenter_t.frameBuffer
  newFrameLen, \* rtp2image_t.newFrameLen, in packets
  freedTwice,  \* was a packet deleted twice?  What follows is undefined
  shown,       \* history: the pictures handed out
  arrived,     \* history: packets that came before their frame was closed,
  refused,     \* and frames of which a packet was refused, if they fit
  tooLarge,    \* history: frames given up for want of room
  closed       \* history: frames whose buffer has been handed out

histories == <<shown, arrived, refused, tooLarge, closed>>
vars == <<path, build, next, net, repeats, frameBuffer, newFrameLen,
          freedTwice, histories>>

----------------------------------------------------------------------------
(* RTPBuffer_t.  Beside a definition stand faulty variants of it. *)

RTPBuffer(p) == [timestamp |-> p.timestamp, numPkts |-> 1,
                 frame |-> [j \in Slots |-> IF j = 0 THEN p ELSE NULL]]

Used(b) == {j \in Slots : b.frame[j] # NULL}

Distance(b, p) ==
  LET d == p.seq - b.frame[0].seq
  IN  CASE d > MaxDiff  -> d - SeqMod
        [] d < -MaxDiff -> d + SeqMod
        [] OTHER        -> d

Known(b, p) == \E j \in Used(b) : b.frame[j].seq = p.seq

Refused(b, p) ==
  /\ ~Known(b, p)
  /\ \/ b.numPkts >= BufferSize
     \/ Distance(b, p) > BufferSize
     \/ Distance(b, p) < -MaxBack

\* A pointer is written one past the last slot, over numPkts and, in a wide
\* build, timestamp, which is no frame's from then on.
WithPointer(b, v) ==
  [timestamp |-> IF build = "wide" THEN 0 ELSE b.timestamp,
   numPkts |-> v, frame |-> b.frame]

\* A packet from before the first slot: the others move on, and the slots
\* they leave keep what was in them.  The move writes one past the last
\* slot: a packet, or NULL, which is read as 0.
MovedByOne(b, p, d, v) ==
  [b EXCEPT !.frame = [j \in Slots |-> IF j = 0 THEN p ELSE b.frame[j - 1]]]
Moved(b, p, d, v) ==
  [WithPointer(b, IF BufferSize + d \in Used(b) THEN v ELSE 0)
     EXCEPT !.frame = [j \in Slots |-> IF j = 0 THEN p
                                        ELSE IF j + d >= 0 THEN b.frame[j + d]
                                        ELSE b.frame[j]]]

\* The slot of a packet BufferSize numbers on is the one past the last.
Put(b, p, d, v) ==
  IF d = BufferSize THEN WithPointer(b, v) ELSE [b EXCEPT !.frame[d] = p]

insert(b, p, v) ==
  LET d == Distance(b, p)
      c == IF d < 0 THEN Moved(b, p, d, v) ELSE Put(b, p, d, v)
  IN  IF Known(b, p) \/ Refused(b, p) THEN b
      ELSE [c EXCEPT !.numPkts = @ + 1]

First(S) == CHOOSE i \in S : \A j \in S : i <= j

Marked(b) == {j \in Used(b) : b.frame[j].mark}

LastSlot(b) == IF Marked(b) = {} THEN BufferSize - 1 ELSE First(Marked(b))

\* "this code checks if frame is complete": up to the first mark, or to the
\* end of the buffer, no slot is empty and each number follows the one
\* before, modulo 0xffff.
Follows(s, t) == (s + 1) % (SeqMod - 1) = t

CompleteButHoles(b) ==
  \A j \in 1..LastSlot(b) : b.frame[j] # NULL /\ b.frame[j - 1] # NULL
Complete(b) ==
  \A j \in 1..LastSlot(b) :
    /\ b.frame[j] # NULL /\ b.frame[j - 1] # NULL
    /\ Follows(b.frame[j - 1].seq, b.frame[j].seq)

getImage(b) == [j \in 1..(LastSlot(b) + 1) |-> b.frame[j - 1]]
totalSize(b) == Cardinality(Used(b))

\* The destructor deletes every slot.
DeletesTwice(b) == \E i, j \in Used(b) : i # j /\ b.frame[i] = b.frame[j]

----------------------------------------------------------------------------
(* defragmenter_t::process *)

\* The place of p's frame in the buffers bs, if it has one.
Places(bs, p) == {i \in DOMAIN bs : bs[i].timestamp = p.timestamp}

Received(bs, p, v) ==
  IF Places(bs, p) = {} THEN Append(bs, RTPBuffer(p))
  ELSE [bs EXCEPT ![First(Places(bs, p))] = insert(@, p, v)]

HasRefused(bs, p) ==
  Places(bs, p) # {} /\ Refused(bs[First(Places(bs, p))], p)

BeheadedNever(bs) == bs
Beheaded(bs) == Tail(bs)

IsDueLate(bs) == Len(bs) > frameBufferSize + 1
IsDue(bs) == Len(bs) > frameBufferSize

----------------------------------------------------------------------------
(* The actions *)

Init ==
  /\ path \in {"ordered", "reordering"}
  /\ build \in {"wide", "narrow"}
  /\ next = <<1, 1>> /\ net = <<>> /\ repeats = 0
  /\ frameBuffer = <<>> /\ newFrameLen \in InitRooms /\ freedTwice = FALSE
  /\ shown = <<>> /\ arrived = {} /\ refused = {} /\ tooLarge = {}
  /\ closed = {}

Send ==
  /\ next \in Stream
  /\ Len(net) < MaxFlight
  /\ net' = Append(net, Packet(next[1], next[2]))
  /\ next' = IF next[2] < Lengths[next[1]] THEN <<next[1], next[2] + 1>>
                                           ELSE <<next[1] + 1, 1>>
  /\ UNCHANGED <<path, build, repeats, frameBuffer, newFrameLen, freedTwice,
                 histories>>

Without(s, i) == [j \in 1..(Len(s) - 1) |-> IF j < i THEN s[j] ELSE s[j + 1]]

Lose(i) ==
  /\ net' = Without(net, i)
  /\ UNCHANGED <<path, build, next, repeats, frameBuffer, newFrameLen,
                 freedTwice, histories>>

\* A packet arrives; on a path that reorders a copy of it may stay behind.
Arrives(i) ==
  /\ path = "ordered" => i = 1
  /\ \/ net' = Without(net, i) /\ UNCHANGED repeats
     \/ /\ path = "reordering" /\ repeats < MaxRepeats
        /\ repeats' = repeats + 1 /\ UNCHANGED net

\* What the histories keep of a packet: only frames that fit matter to them.
InTime(p) == {q \in {p} : Fits(q.timestamp) /\ q.timestamp \notin closed}

\* rtp2image_t::addPkt of a packet that closes no frame.
AddPkt(i, v) ==
  LET p == net[i]
      bs == Received(frameBuffer, p, v)
  IN  /\ Arrives(i)
      /\ ~IsDue(bs)
      /\ frameBuffer' = bs
      /\ arrived' = arrived \cup InTime(p)
      /\ refused' = refused \cup
           {f \in {p.timestamp} : Fits(f) /\ HasRefused(frameBuffer, p)}
      /\ UNCHANGED <<path, build, next, newFrameLen, freedTwice, shown,
                     tooLarge, closed>>

\* rtp2image_t::addPkt of a packet that closes the oldest frame.  When the
\* frame does not fit, the buffer grows and process is called again with
\* the same packet: it is known by now and the frame is gone.
AddPktAndShow(i, v) ==
  LET p == net[i]
      bs == Received(frameBuffer, p, v)
      oldest == bs[1]
      fits == totalSize(oldest) <= newFrameLen
  IN  /\ Arrives(i)
      /\ IsDue(bs)
      /\ frameBuffer' = Beheaded(bs)
      /\ freedTwice' = DeletesTwice(oldest)
      /\ shown' = IF Complete(oldest) /\ fits
                  THEN Append(shown, getImage(oldest)) ELSE shown
      /\ newFrameLen' = IF Complete(oldest) /\ ~fits
                        THEN 2 * totalSize(oldest) ELSE newFrameLen
      /\ tooLarge' = IF Complete(oldest) /\ ~fits
                     THEN tooLarge \cup {oldest.timestamp} ELSE tooLarge
      /\ closed' = closed \cup {oldest.frame[0].timestamp}
      /\ arrived' = arrived \cup InTime(p)
      /\ UNCHANGED <<path, build, next, refused>>

Next ==
  /\ ~freedTwice
  /\ \/ Send
     \/ \E i \in DOMAIN net : Lose(i)
     \/ \E i \in DOMAIN net, v \in Pointers : AddPkt(i, v) \/ AddPktAndShow(i, v)

Spec == Init /\ [][Next]_vars

----------------------------------------------------------------------------
(* Properties *)

Whole(f) == [i \in 1..Lengths[f] |-> Packet(f, i)]

\* The frame a buffer was made for.
FrameOf(b) == b.frame[0].timestamp

\* The state has its type; the first slot of every buffer is taken, which
\* insert asserts; and numPkts counts, as long as the frame fits.
TypeOK ==
  /\ Len(frameBuffer) <= frameBufferSize
  /\ \A i \in DOMAIN frameBuffer :
       LET b == frameBuffer[i]
       IN  /\ b.frame \in [Slots -> Packets \cup {NULL}]
           /\ b.frame[0] # NULL
           /\ b.numPkts \in Int
           /\ Fits(FrameOf(b)) => b.numPkts \in 1..BufferSize
  /\ newFrameLen \in Nat

\* A picture that is handed out is put together from consecutive packets of
\* one frame, up to its last one or as many as a buffer holds, whatever was
\* lost, overtaken or repeated.
NoHoles ==
  \A k \in DOMAIN shown :
    LET image == shown[k]
        p == image[1]
        f == p.timestamp
        last == p.n + Len(image) - 1
    IN  Numbered(f) =>
          /\ \A i \in DOMAIN image : image[i] = Packet(f, p.n + i - 1)
          /\ last = Lengths[f] \/ (last < Lengths[f] /\ Len(image) = BufferSize)

\* On a path that keeps the order, pictures are handed out in the order of
\* their frames and at most one of a frame, also when a frame does not fit and
\* a wide build begins a second buffer for it.
PicturesInOrder ==
  path = "ordered" =>
    \A j, k \in DOMAIN shown :
      LET f == shown[j][1].timestamp
          g == shown[k][1].timestamp
      IN  j < k => f < g \/ (f = g /\ ~Numbered(f))

WrapsIn(f) ==
  \E i \in 1..(Lengths[f] - 1) : Packet(f, i).seq >= SeqMod - 2

\* A frame that fits, all packets of which arrive before it is closed, is
\* handed out as a whole: in any order if the build is narrow or the path
\* keeps the order.  Exceptions are the frame that makes newFrameLen grow, a
\* packet too far before the first, and the numbers 0xfffe and 0xffff in a
\* frame that goes on after them.
ArrivedIsShown ==
  \A f \in closed \ (refused \cup tooLarge) :
    /\ Fits(f)
    /\ build = "narrow" \/ path = "ordered"
    /\ \A i \in 1..Lengths[f] : Packet(f, i) \in arrived
    /\ ~WrapsIn(f)
    => \E k \in DOMAIN shown : shown[k] = Whole(f)

\* What is handed out is a whole frame.
ShownIsWhole == \A k \in DOMAIN shown : shown[k] = Whole(shown[k][1].timestamp)

=============================================================================
