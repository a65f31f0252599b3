--------------------------- MODULE MCRequestPath ---------------------------
(***************************************************************************)
(* RequestPath on small instances: every request on the first connection.  *)
(***************************************************************************)
EXTENDS RequestPath

CONSTANTS c1, c2

OneClient == {c1}
TwoClients == {c1, c2}
AllOnFirst == [r \in Requests |-> c1]
=============================================================================
