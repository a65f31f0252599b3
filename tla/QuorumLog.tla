----------------------------- MODULE QuorumLog -----------------------------
(***************************************************************************)
(* What replication promises to a producer that asks for acks=quorum,      *)
(* without threads, connections or high-water marks: each replica has a    *)
(* durable log that only grows, the durable logs never disagree, and an    *)
(* offset is acknowledged only once a quorum holds the record.             *)
(***************************************************************************)
EXTENDS Integers, Sequences

CONSTANTS Replicas,
          Quorums      \* the sets of replicas that make a record safe

VARIABLES stable,      \* stable[b]: the records on the media of replica b
          promised     \* the acknowledged [offset, rec] pairs

Agree(s, t) == \A i \in 1..Len(s) : i <= Len(t) => s[i] = t[i]
Extends(t, s) == Len(s) <= Len(t) /\ Agree(s, t)

HeldBy(p) == {b \in Replicas : p.offset < Len(stable[b]) /\ stable[b][p.offset + 1] = p.rec}

Init == stable = [b \in Replicas |-> <<>>] /\ promised = {}

\* One replica makes more records durable.
Persist(b) ==
  /\ \A c \in Replicas : IF c = b THEN Extends(stable'[c], stable[c])
                                  ELSE stable'[c] = stable[c]
  /\ \A c, d \in Replicas : Agree(stable'[c], stable'[d])
  /\ UNCHANGED promised

\* Records that a quorum holds are acknowledged.
Acknowledge ==
  /\ promised \subseteq promised'
  /\ \A p \in promised' \ promised : \E Q \in Quorums : Q \subseteq HeldBy(p)
  /\ UNCHANGED stable

Next == Acknowledge \/ \E b \in Replicas : Persist(b)

Spec == Init /\ [][Next]_<<stable, promised>>
=============================================================================
