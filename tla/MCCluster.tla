----------------------------- MODULE MCCluster -----------------------------
(***************************************************************************)
(* Two brokers with two workers each and one topic.  Broker 1 is the       *)
(* controller; broker 2 leads partition 0, so the first records of the     *)
(* topic make a broker that is not the controller ask for it.  A behaviour *)
(* spends its steps on one of: a long run of sends, two sends and a fault, *)
(* an administrator's call and two faults, two calls and a fault, or a     *)
(* send that races a call.                                                 *)
(***************************************************************************)
EXTENDS Producer

CONSTANT t1

OneTopic == {t1}
Hash == [t \in {t1} |-> 1]
BothClients == {AdminClient, ProducerClient}
Keys == <<0, 1, -1, 1>>
Creates == {CreateRequest(t1, 2, 1, FALSE), CreateRequest(t1, 1, 2, FALSE)}
Deletes == Creates \cup {[NoRequest EXCEPT !.kind = "delete", !.topic = t1]}
Mixed == {<<4, 0, 0>>, <<2, 0, 1>>, <<0, 1, 2>>, <<0, 2, 1>>, <<1, 1, 0>>}
=============================================================================
