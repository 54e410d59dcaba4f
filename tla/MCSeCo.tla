------------------------------- MODULE MCSeCo -------------------------------
(* Trees and bounds for SeCo.  Client a is a client of the root r, b and e  *)
(* are clients of the node m, a child of r; in Chain3 b is a client of the  *)
(* node k, a child of m.  A bound gives the value for a, the one for b and  *)
(* the one for any other client.                                            *)
EXTENDS SeCo

Tree == [x \in Ends |-> IF x \in {"b", "e", "k"} THEN "m" ELSE "r"]
Chain3 == [x \in Ends |-> IF x = "b" THEN "k" ELSE IF x = "k" THEN "m" ELSE "r"]

Each(a, b, others) ==
  [c \in Clients |-> IF c = "a" THEN a ELSE IF c = "b" THEN b ELSE others]

Join == <<"JOIN_GROUP", "g">>
Get == <<"GET_GROUP_ID", "g">>
Leave == <<"LEAVE_GROUP", "g">>
Watch == <<"JOIN_GROUP", DISCONNECTIONS>>

Ask(a, b) == Each(a, b, <<Join>>)

AllJoin == Ask(<<Join>>, <<Join>>)
LateWatcher == Ask(<<Get>>, <<Watch, Get, Join>>)
RootRejoins == Ask(<<Join, Leave, Join>>, <<Get>>)
SenderWatches == Ask(<<Watch, Get>>, <<Join>>)
Leaver == Ask(<<>>, <<Join, Leave>>)

N100 == Each(1, 0, 0)
N110 == Each(1, 1, 0)
N120 == Each(1, 2, 0)
N200 == Each(2, 0, 0)
N210 == Each(2, 1, 0)
=============================================================================
