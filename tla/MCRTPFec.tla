------------------------------ MODULE MCRTPFec ------------------------------
(* Group sizes and steps of the source for the instances of RTPFec. *)
EXTENDS RTPFec

Sizes023 == {0, 2, 3}
Sizes12 == {1, 2}
Steps1 == {1}
Steps13 == {1, 3}
=============================================================================
