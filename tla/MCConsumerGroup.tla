-------------------------- MODULE MCConsumerGroup --------------------------
(***************************************************************************)
(* ConsumerGroup on small instances.                                       *)
(***************************************************************************)
EXTENDS ConsumerGroup, TLC

CONSTANTS c1, c2

TwoClients == {c1, c2}
OnePartition == {<<1, 0>>}
TwoPartitions == {<<1, 0>>, <<1, 1>>}
FirstTopic == {1}
NoTopic == {}
AnyCall == {"join", "leave", "commit", "fetch-offset"}
NoCall == {}

Symmetric == Permutations(TwoClients)
=============================================================================
