--------------------------- MODULE MCIrouterLinks ---------------------------
(* The addresses of two leaves, the first part of the second's text. *)
EXTENDS IrouterLinks

Prefix == {<<"10.0.0.2", "10.0.0.21">>}
=============================================================================
