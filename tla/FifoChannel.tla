---------------------------- MODULE FifoChannel ----------------------------
(***************************************************************************)
(* What one direction of a connection promises to the two programs at its  *)
(* ends: the packets written before the writer shuts its half are read in  *)
(* the order they were written, each at most once, and the reader is told  *)
(* of the end of the stream only when it has read all of them.             *)
(*                                                                         *)
(* RUDP (isabel.lib.reliableudp) implements this channel; the SeCo modules *)
(* are written over it.                                                    *)
(***************************************************************************)
EXTENDS Naturals, Sequences

VARIABLES written,  \* the packets written before the writer's half is shut
          shut,     \* has the writer shut its half?
          read,     \* the packets the reader has been given
          ended     \* has the reader been told of the end of the stream?

fifoVars == <<written, shut, read, ended>>

Init == /\ written = <<>>
        /\ shut = FALSE
        /\ read = <<>>
        /\ ended = FALSE

\* One more packet enters the stream.
Write == /\ ~shut
         /\ Len(written') = Len(written) + 1
         /\ \A i \in 1..Len(written) : written'[i] = written[i]
         /\ UNCHANGED <<shut, read, ended>>

Shut == /\ ~shut
        /\ shut' = TRUE
        /\ UNCHANGED <<written, read, ended>>

\* The reader is given the oldest packet it has not read.
Read == /\ Len(read) < Len(written)
        /\ read' = Append(read, written[Len(read) + 1])
        /\ UNCHANGED <<written, shut, ended>>

\* The reader is told that nothing more will come.
End == /\ shut
       /\ Len(read) = Len(written)
       /\ ended' = TRUE
       /\ UNCHANGED <<written, shut, read>>

Next == Write \/ Shut \/ Read \/ End

Spec == Init /\ [][Next]_fifoVars
=============================================================================
