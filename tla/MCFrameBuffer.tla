--------------------------- MODULE MCFrameBuffer ---------------------------
(* Frame lengths for the instances of FrameBuffer. *)
EXTENDS FrameBuffer

Lengths361 == <<3, 6, 1>>

\* Enough to see ShownIsWhole violated: a frame that loses its first packet.
Lengths211 == <<2, 1, 1>>

\* numPkts from a pointer: a count that refuses nothing, so that most goes on.
PointersLow == {-100}

\* The other kind: a count above BufferSize, which refuses everything.
PointersBoth == {-100, 100}
=============================================================================
