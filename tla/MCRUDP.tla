------------------------------- MODULE MCRUDP -------------------------------
(* Values for the bounds of RUDP.  A name says how many packets the client  *)
(* and the server number after the SYN, and how often each calls closeOut. *)
EXTENDS RUDP

Both(c, s) == [e \in Peers |-> IF e = "client" THEN c ELSE s]

Packets20 == Both(2, 0)
Packets21 == Both(2, 1)
Packets50 == Both(5, 0)
Packets01 == Both(0, 1)
Resets01 == Both(0, 1)
Resets10 == Both(1, 0)
=============================================================================
