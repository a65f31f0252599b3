--------------------------- MODULE MCReplication ---------------------------
(***************************************************************************)
(* Replication on small instances: broker identities are model values and  *)
(* the followers are interchangeable.                                      *)
(***************************************************************************)
EXTENDS Replication, TLC

CONSTANTS b1, b2, b3

OneFollower == {b2}
TwoFollowers == {b2, b3}
OneFollowerBrokers == {b1, b2}
Everyone == {b1, b2, b3}
NoBroker == {}

Symmetric == Permutations(TwoFollowers)
=============================================================================
